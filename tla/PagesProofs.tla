------------------------------ MODULE PagesProofs ------------------------------
(***************************************************************************)
(* Proofs about the browser's pages and what they fetch with               *)
(* (WorkflowPages, ExecutionPages, AnalyticsPage, AuthSlice,               *)
(* OptimisticUpdate and ErrorPath), for all sets of workflows, executions  *)
(* and calls and all bounds.                                               *)
(***************************************************************************)
EXTENDS MCPages, FiniteSetTheorems, TLAPS

pageVars == <<workflowVars, executionVars, analyticsVars, cacheVars, updateVars, sliceVars, errorVars, part>>

-----------------------------------------------------------------------------
(***************************************************************************)
(* Optimistic updates.  While nothing has been disturbed one update is     *)
(* under way, what it would put back and what it was answered are what the *)
(* server holds, and a refetch started with none under way ends so.        *)
(***************************************************************************)

UpdateTypes == [pc : {"new", "cancelled", "sent", "ok", "failed", "done"},
                snapshot : SUBSET Fetches, result : SUBSET Fetches]
FetchTypes == [stage : {"none", "sent", "answered"}, data : SUBSET Fetches, clean : BOOLEAN]

\* A refetch knows whether updates were under way when it began; an update cancels it.
FetchIsKnown ==
  /\ fetching.stage # "none" => disturbed \/ fetching.clean
  /\ fetching.stage # "none" /\ fetching.clean => Update!Underway = {}
  /\ fetching.stage = "answered" /\ fetching.clean => fetching.data = onServer

\* An update that nothing disturbed is alone, and could be put back.
UpdateIsAlone ==
  ~disturbed =>
    /\ \A c, d \in Update!Underway : c = d
    /\ Update!Underway = {} => shown = onServer
    /\ \A c \in Fetches :
         /\ update[c].pc = "cancelled" => shown = onServer
         /\ update[c].pc \in {"sent", "failed"} => update[c].snapshot = onServer
         /\ update[c].pc = "ok" => update[c].result = onServer

OptimisticInv == Update!TypeOK /\ FetchIsKnown /\ UpdateIsAlone

LEMMA OptimisticTypes ==
  Update!TypeOK <=> /\ onServer \subseteq Fetches /\ shown \subseteq Fetches
                    /\ update \in [Fetches -> UpdateTypes] /\ fetching \in FetchTypes /\ disturbed \in BOOLEAN
  BY DEF Update!TypeOK, UpdateTypes, FetchTypes

\* The updates under way when that of c changes.
LEMMA UnderwayAfter ==
  ASSUME update \in [Fetches -> UpdateTypes], NEW c \in Fetches, NEW r \in UpdateTypes, update' = [update EXCEPT ![c] = r]
  PROVE  /\ update' \in [Fetches -> UpdateTypes]
         /\ Update!Underway' = IF r.pc \in {"new", "done"} THEN Update!Underway \ {c} ELSE Update!Underway \cup {c}
<1>1. update' \in [Fetches -> UpdateTypes] /\ update'[c] = r /\ \A d \in Fetches \ {c} : update'[d] = update[d]
  OBVIOUS
<1> QED BY <1>1 DEF Update!Underway

\* Each step that changes an update, but for the first, is that of one under way.
LEMMA OneUnderway ==
  ASSUME OptimisticInv, NEW c \in Fetches, update[c].pc \notin {"new", "done"}
  PROVE  /\ c \in Update!Underway
         /\ ~disturbed => Update!Underway = {c} /\ (fetching.stage = "none")
<1>1. c \in Update!Underway
  BY DEF Update!Underway
<1>2. ~disturbed => Update!Underway = {c}
  BY <1>1 DEF OptimisticInv, UpdateIsAlone
<1> QED BY <1>1, <1>2 DEF OptimisticInv, FetchIsKnown

LEMMA OptimisticStep == ASSUME OptimisticInv, Update!Next PROVE OptimisticInv'
<1>0. /\ onServer \subseteq Fetches /\ shown \subseteq Fetches
      /\ update \in [Fetches -> UpdateTypes] /\ fetching \in FetchTypes /\ disturbed \in BOOLEAN
  BY OptimisticTypes DEF OptimisticInv
<1>1. ASSUME NEW c \in Fetches, Update!Cancel(c) PROVE OptimisticInv'
  <2> DEFINE r == [update[c] EXCEPT !.pc = "cancelled"]
  <2>1. r \in UpdateTypes /\ update' = [update EXCEPT ![c] = r] /\ r.pc = "cancelled"
    BY <1>0, <1>1 DEF Update!Cancel, UpdateTypes
  <2> HIDE DEF r
  <2>2. update' \in [Fetches -> UpdateTypes] /\ Update!Underway' = Update!Underway \cup {c}
    BY <1>0, <2>1, UnderwayAfter
  <2>3. fetching' \in FetchTypes /\ fetching'.stage = "none"
    BY <1>1 DEF Update!Cancel, Update!Cancelled, Update!NoFetch, FetchTypes
  <2>4. disturbed' = (disturbed \/ Update!Underway # {}) /\ UNCHANGED <<onServer, shown>>
    BY <1>1 DEF Update!Cancel
  <2>5. Update!TypeOK'
    BY <1>0, <2>2, <2>3, <2>4 DEF Update!TypeOK, UpdateTypes, FetchTypes
  <2>6. FetchIsKnown'
    BY <2>3 DEF FetchIsKnown
  <2>7. UpdateIsAlone'
    <3>1. SUFFICES ASSUME ~disturbed'
                   PROVE  /\ \A a, d \in Update!Underway' : a = d
                          /\ Update!Underway' = {} => shown' = onServer'
                          /\ \A d \in Fetches :
                               /\ update'[d].pc = "cancelled" => shown' = onServer'
                               /\ update'[d].pc \in {"sent", "failed"} => update'[d].snapshot = onServer'
                               /\ update'[d].pc = "ok" => update'[d].result = onServer'
      BY DEF UpdateIsAlone
    <3>2. ~disturbed /\ Update!Underway = {} /\ shown = onServer
      BY <1>0, <2>4, <3>1 DEF OptimisticInv, UpdateIsAlone
    <3>3. \A d \in Fetches : d # c => update'[d].pc \in {"new", "done"}
      BY <1>0, <2>1, <3>2 DEF Update!Underway
    <3>4. update'[c].pc = "cancelled"
      BY <1>0, <2>1
    <3> QED BY <2>2, <2>4, <3>2, <3>3, <3>4
  <2> QED BY <2>5, <2>6, <2>7 DEF OptimisticInv
<1>2. ASSUME NEW c \in Fetches, Update!Apply(c) \/ Update!Mutate(c) \/ Update!Succeed(c) \/ Update!Rollback(c)
      PROVE  OptimisticInv'
  <2>1. /\ update[c].pc \notin {"new", "done"} /\ c \in Update!Underway
        /\ ~disturbed => Update!Underway = {c} /\ fetching.stage = "none"
    BY <1>2, OneUnderway DEF Update!Apply, Update!Mutate, Update!Succeed, Update!Rollback
  <2>2. PICK r \in UpdateTypes : update' = [update EXCEPT ![c] = r]
    <3>1. \A u \in UpdateTypes, x \in SUBSET Fetches :
            /\ \A p \in {"sent", "ok", "failed", "done"} : [u EXCEPT !.pc = p] \in UpdateTypes
            /\ [u EXCEPT !.pc = "sent", !.snapshot = x] \in UpdateTypes
            /\ [u EXCEPT !.pc = "ok", !.result = x] \in UpdateTypes
      BY DEF UpdateTypes
    <3>2. CASE Update!Apply(c)
      <4>1. update' = [update EXCEPT ![c] = [update[c] EXCEPT !.pc = "sent", !.snapshot = shown]]
        BY <3>2 DEF Update!Apply
      <4> QED BY <1>0, <3>1, <4>1
    <3>3. CASE Update!Mutate(c)
      <4>1. onServer \cup {c} \in SUBSET Fetches
        BY <1>0
      <4>2. \/ update' = [update EXCEPT ![c] = [update[c] EXCEPT !.pc = "ok", !.result = onServer \cup {c}]]
            \/ update' = [update EXCEPT ![c] = [update[c] EXCEPT !.pc = "failed"]]
        BY <3>3 DEF Update!Mutate
      <4> QED BY <1>0, <3>1, <4>1, <4>2
    <3>4. CASE Update!Succeed(c) \/ Update!Rollback(c)
      <4>1. update' = [update EXCEPT ![c] = [update[c] EXCEPT !.pc = "done"]]
        BY <3>4 DEF Update!Succeed, Update!Rollback
      <4> QED BY <1>0, <3>1, <4>1
    <3> QED BY <1>2, <3>2, <3>3, <3>4
  <2>3. /\ update' \in [Fetches -> UpdateTypes] /\ update'[c] = r
        /\ Update!Underway' = IF r.pc \in {"new", "done"} THEN Update!Underway \ {c} ELSE Update!Underway \cup {c}
    BY <1>0, <2>2, UnderwayAfter
  <2>4. \A d \in Fetches \ {c} : update'[d] = update[d]
    BY <1>0, <2>2
  <2>5. UNCHANGED fetching /\ (disturbed' = disturbed \/ disturbed' = TRUE)
    BY <1>2 DEF Update!Apply, Update!Mutate, Update!Succeed, Update!Rollback
  <2>6. onServer' \subseteq Fetches /\ shown' \subseteq Fetches
    BY <1>0, <1>2 DEF Update!Apply, Update!Mutate, Update!Succeed, Update!Rollback, Update!RolledBack, UpdateTypes
  <2>7. Update!TypeOK'
    BY <1>0, <2>3, <2>5, <2>6 DEF Update!TypeOK, UpdateTypes, FetchTypes
  <2>8. FetchIsKnown'
    BY <2>1, <2>5 DEF OptimisticInv, FetchIsKnown
  <2>9. ASSUME ~disturbed'
        PROVE  /\ r.pc \in {"cancelled", "new", "done"} => shown' = onServer'
               /\ r.pc \in {"sent", "failed"} => r.snapshot = onServer'
               /\ r.pc = "ok" => r.result = onServer'
    <3>1. ~disturbed
      BY <2>5, <2>9
    <3>2. /\ update[c].pc = "cancelled" => shown = onServer
          /\ update[c].pc \in {"sent", "failed"} => update[c].snapshot = onServer
          /\ update[c].pc = "ok" => update[c].result = onServer
      BY <3>1 DEF OptimisticInv, UpdateIsAlone
    <3>3. CASE Update!Apply(c)
      <4>1. r = [update[c] EXCEPT !.pc = "sent", !.snapshot = shown]
        BY <1>0, <2>3, <3>3 DEF Update!Apply
      <4>2. r.pc = "sent" /\ r.snapshot = shown
        BY <1>0, <4>1 DEF UpdateTypes
      <4> QED BY <3>2, <3>3, <4>2 DEF Update!Apply
    <3>4. CASE Update!Mutate(c)
      <4>1. CASE onServer' = onServer \cup {c} /\ update' = [update EXCEPT ![c].pc = "ok", ![c].result = onServer']
        <5>1. r.pc = "ok" /\ r.result = onServer'
          BY <1>0, <2>3, <4>1 DEF UpdateTypes
        <5> QED BY <5>1
      <4>2. CASE onServer' = onServer /\ update' = [update EXCEPT ![c].pc = "failed"]
        <5>1. r.pc = "failed" /\ r.snapshot = update[c].snapshot
          BY <1>0, <2>3, <4>2 DEF UpdateTypes
        <5> QED BY <3>2, <3>4, <4>2, <5>1 DEF Update!Mutate
      <4> QED BY <2>9, <3>4, <4>1, <4>2 DEF Update!Mutate
    <3>5. CASE Update!Succeed(c) \/ Update!Rollback(c)
      <4>1. r.pc = "done"
        BY <1>0, <2>3, <3>5 DEF Update!Succeed, Update!Rollback, UpdateTypes
      <4>2. shown' = onServer'
        BY <3>2, <3>5 DEF Update!Succeed, Update!Rollback, Update!RolledBack
      <4> QED BY <4>1, <4>2
    <3> QED BY <1>2, <3>3, <3>4, <3>5
  <2>10. UpdateIsAlone'
    <3>1. SUFFICES ASSUME ~disturbed'
                   PROVE  /\ \A a, d \in Update!Underway' : a = d
                          /\ Update!Underway' = {} => shown' = onServer'
                          /\ \A d \in Fetches :
                               /\ update'[d].pc = "cancelled" => shown' = onServer'
                               /\ update'[d].pc \in {"sent", "failed"} => update'[d].snapshot = onServer'
                               /\ update'[d].pc = "ok" => update'[d].result = onServer'
      BY DEF UpdateIsAlone
    <3>2. Update!Underway = {c}
      BY <2>1, <2>5, <3>1
    <3>3. \A d \in Fetches \ {c} : update'[d].pc \in {"new", "done"}
      BY <2>4, <3>2 DEF Update!Underway
    <3>4. \A a, d \in Update!Underway' : a = d
      BY <2>3, <3>2
    <3>5. Update!Underway' = {} => r.pc \in {"new", "done"}
      BY <2>3
    <3> QED BY <2>3, <2>9, <3>1, <3>3, <3>4, <3>5
  <2> QED BY <2>7, <2>8, <2>10 DEF OptimisticInv
<1>3. CASE Update!Fetch \/ Update!FetchServed \/ Update!FetchArrives
  <2>1. UNCHANGED <<update, onServer>> /\ Update!Underway' = Update!Underway
    BY <1>3 DEF Update!Fetch, Update!FetchServed, Update!FetchArrives, Update!Underway
  <2>2. CASE Update!Fetch
    <3>1. /\ fetching' = [stage |-> "sent", data |-> {}, clean |-> Update!Underway = {}]
          /\ disturbed' = (disturbed \/ Update!Underway # {}) /\ UNCHANGED shown
      BY <2>2 DEF Update!Fetch
    <3>2. fetching' \in FetchTypes
      BY <3>1 DEF FetchTypes
    <3>3. Update!TypeOK'
      BY <1>0, <2>1, <3>1, <3>2 DEF Update!TypeOK, UpdateTypes, FetchTypes
    <3>4. FetchIsKnown'
      BY <2>1, <3>1 DEF FetchIsKnown
    <3>5. UpdateIsAlone'
      BY <2>1, <3>1 DEF OptimisticInv, UpdateIsAlone
    <3> QED BY <3>3, <3>4, <3>5 DEF OptimisticInv
  <2>3. CASE Update!FetchServed
    <3>1. /\ fetching' \in FetchTypes /\ fetching'.stage = "answered" /\ fetching'.data = onServer
          /\ fetching'.clean = fetching.clean /\ fetching.stage = "sent"
      BY <1>0, <2>3 DEF Update!FetchServed, FetchTypes
    <3>2. UNCHANGED <<shown, disturbed>>
      BY <2>3 DEF Update!FetchServed
    <3>3. Update!TypeOK'
      BY <1>0, <2>1, <3>1, <3>2 DEF Update!TypeOK, UpdateTypes, FetchTypes
    <3>4. FetchIsKnown'
      BY <2>1, <3>1, <3>2 DEF OptimisticInv, FetchIsKnown
    <3>5. UpdateIsAlone'
      BY <2>1, <3>2 DEF OptimisticInv, UpdateIsAlone
    <3> QED BY <3>3, <3>4, <3>5 DEF OptimisticInv
  <2>4. CASE Update!FetchArrives
    <3>1. /\ fetching' \in FetchTypes /\ fetching'.stage = "none" /\ shown' = fetching.data
          /\ disturbed' = (disturbed /\ ~fetching.clean) /\ fetching.stage = "answered"
      BY <2>4 DEF Update!FetchArrives, Update!NoFetch, FetchTypes
    <3>2. Update!TypeOK'
      BY <1>0, <2>1, <3>1 DEF Update!TypeOK, UpdateTypes, FetchTypes
    <3>3. FetchIsKnown'
      BY <3>1 DEF FetchIsKnown
    <3>4. ~disturbed' => Update!Underway' = {} /\ shown' = onServer'
      BY <2>1, <3>1 DEF OptimisticInv, FetchIsKnown
    <3>5. Update!Underway' = {} => \A d \in Fetches : update'[d].pc \in {"new", "done"}
      BY DEF Update!Underway
    <3>6. UpdateIsAlone'
      BY <3>4, <3>5 DEF UpdateIsAlone
    <3> QED BY <3>2, <3>3, <3>6 DEF OptimisticInv
  <2> QED BY <1>3, <2>2, <2>3, <2>4
<1> QED BY <1>1, <1>2, <1>3 DEF Update!Next

\* What useOptimisticUpdate shows after an update that nothing overlapped is what the
\* server holds, whether it was answered or put back, for any number of updates and
\* refetches before it.
THEOREM UpdatesAgree == PartsSpec => []AloneAgrees
<1>1. PartsInit => OptimisticInv
  <2> SUFFICES ASSUME Update!Init PROVE OptimisticInv
    BY DEF PartsInit
  <2>1. Update!TypeOK
    BY DEF Update!Init, Update!TypeOK, Update!NoFetch
  <2>2. FetchIsKnown
    BY DEF Update!Init, Update!NoFetch, FetchIsKnown
  <2>3. Update!Underway = {} /\ \A d \in Fetches : update[d].pc = "new"
    BY DEF Update!Init, Update!Underway
  <2>4. UpdateIsAlone
    BY <2>3 DEF Update!Init, UpdateIsAlone
  <2> QED BY <2>1, <2>2, <2>4 DEF OptimisticInv
<1>2. OptimisticInv /\ [PartsNext]_pageVars => OptimisticInv'
  <2> SUFFICES ASSUME OptimisticInv, [PartsNext]_pageVars PROVE OptimisticInv'
    OBVIOUS
  <2>1. Update!Next \/ UNCHANGED updateVars
    BY DEF PartsNext, pageVars
  <2>2. CASE UNCHANGED updateVars
    BY <2>2 DEF updateVars, OptimisticInv, Update!TypeOK, FetchIsKnown, UpdateIsAlone, Update!Underway
  <2> QED BY <2>1, <2>2, OptimisticStep
<1>3. OptimisticInv => AloneAgrees
  BY DEF OptimisticInv, UpdateIsAlone, AloneAgrees, Update!AloneAgrees
<1> QED BY <1>1, <1>2, <1>3, PTL DEF PartsSpec, pageVars

-----------------------------------------------------------------------------
(***************************************************************************)
(* The session's forms.                                                    *)
(***************************************************************************)

SliceInv == thunk \in [Fetches -> Slice!Thunks \cup {"none"}] /\ Slice!LoadingIsUnderWay

LEMMA SliceStep == ASSUME SliceInv, Slice!Next PROVE SliceInv'
<1>1. ASSUME NEW c \in Fetches, NEW t \in Slice!Thunks, Slice!Start(c, t) PROVE SliceInv'
  <2>1. thunk' = [thunk EXCEPT ![c] = t] /\ thunk[c] = "none" /\ isLoading' = (isLoading \/ t \in Slice!Forms)
    BY <1>1 DEF Slice!Start
  <2> QED BY <2>1 DEF SliceInv, Slice!LoadingIsUnderWay, Slice!Forms
<1>2. ASSUME NEW c \in Fetches, Slice!FormFulfilled(c) \/ Slice!FormRejected(c) PROVE SliceInv'
  <2>1. thunk' = [thunk EXCEPT ![c] = "none"] /\ isLoading' = FALSE
    BY <1>2 DEF Slice!FormFulfilled, Slice!FormRejected, Slice!End
  <2> QED BY <2>1 DEF SliceInv, Slice!LoadingIsUnderWay
<1>3. ASSUME NEW c \in Fetches, Slice!RefreshEnded(c) \/ Slice!LogoutEnded(c) PROVE SliceInv'
  <2>1. thunk' = [thunk EXCEPT ![c] = "none"] /\ UNCHANGED isLoading /\ thunk[c] \notin Slice!Forms
    BY <1>3 DEF Slice!RefreshEnded, Slice!LogoutEnded, Slice!End, Slice!Forms
  <2> QED BY <2>1 DEF SliceInv, Slice!LoadingIsUnderWay
<1>4. CASE (\E t \in Tokens : Slice!SetCredentials(t)) \/ Slice!ClearCredentials \/ Slice!ClearError
  <2>1. UNCHANGED <<thunk, isLoading>>
    BY <1>4 DEF Slice!SetCredentials, Slice!ClearCredentials, Slice!ClearError
  <2> QED BY <2>1 DEF SliceInv, Slice!LoadingIsUnderWay
<1> QED BY <1>1, <1>2, <1>3, <1>4 DEF Slice!Next

-----------------------------------------------------------------------------
(***************************************************************************)
(* The tab of the analysis: of its calls one is waited for, or none.       *)
(***************************************************************************)

IsLoad(x) == x \in [sent : {x.sent}, page : {x.page}, answer : {x.answer}] /\ x.page \in BOOLEAN

IsTab(p) == p \in [tab : {p.tab}, range : {p.range}, data : {p.data}, loading : {p.loading}, error : {p.error}]

\* The calls that the tab will hear of.
Heard == {c \in Fetches : loads[c].page /\ loads[c] # Analytics!Idle}

AnalyticsInv ==
  /\ loads = [c \in Fetches |-> loads[c]] /\ \A c \in Fetches : IsLoad(loads[c])
  /\ IsTab(page)
  /\ IF page.tab = "analytics" /\ page.loading THEN \E c \in Fetches : Heard = {c} ELSE Heard = {}

\* The kinds of step.  A request is answered, with those that joined it.
LoadServed(c) ==
  loads[c].sent = "yes" /\ UNCHANGED page /\ \E r \in {"ok", "failed"} : \E a : Analytics!Answer(c, r, a)

LoadSent(c) ==
  /\ loads[c] = Analytics!Idle /\ (page.tab = "history" \/ ~page.loading)
  /\ loads' = Analytics!GetExecutionAnalytics(c)
  /\ IsTab(page)' /\ page'.tab = "analytics" /\ page'.loading = TRUE

\* The tab is left, or taken away.
TabLeft ==
  /\ page' = Analytics!Closed
  /\ \/ loads' = [c \in Fetches |-> [loads[c] EXCEPT !.page = FALSE]]
     \/ \E b \in Fetches : loads' = [c \in Fetches |-> IF c = b THEN Analytics!Idle ELSE [loads[c] EXCEPT !.page = FALSE]]

NobodyTold(c) == ~loads[c].page /\ loads' = [loads EXCEPT ![c] = Analytics!Idle] /\ UNCHANGED page

TabTold(c) ==
  /\ loads[c].page /\ loads[c].sent \in {"ok", "failed"} /\ loads' = [loads EXCEPT ![c] = Analytics!Idle]
  /\ IsTab(page)' /\ page'.tab = page.tab /\ page'.loading = FALSE

LEMMA AnalyticsSteps ==
  ASSUME AnalyticsInv, Analytics!Next
  PROVE  \/ UNCHANGED <<loads, page>> \/ TabLeft
         \/ \E c \in Fetches : LoadServed(c) \/ LoadSent(c) \/ NobodyTold(c) \/ TabTold(c)
<1>0. IsTab(page)
  BY DEF AnalyticsInv
<1>1. ASSUME NEW c \in Fetches, Analytics!Serve(c) PROVE LoadServed(c)
  BY <1>1 DEF Analytics!Serve, Analytics!GetUserAnalytics, LoadServed
<1>2. ASSUME NEW c \in Fetches, NEW p, Analytics!LoadAnalytics(c, p), IsTab(p), p.tab = "analytics",
             page.tab = "history" \/ ~page.loading
      PROVE  LoadSent(c)
  <2>1. page' = [tab |-> p.tab, range |-> p.range, data |-> p.data, loading |-> TRUE, error |-> FALSE]
    BY <1>2 DEF Analytics!LoadAnalytics, IsTab
  <2> QED BY <1>2, <2>1 DEF Analytics!LoadAnalytics, LoadSent, IsTab
<1>3. ASSUME NEW c \in Fetches, Analytics!ShowAnalytics(c) PROVE LoadSent(c)
  <2> DEFINE p == [page EXCEPT !.tab = "analytics"]
  <2>1. IsTab(p) /\ p.tab = "analytics"
    BY <1>0 DEF IsTab
  <2> QED BY <1>2, <1>3, <2>1 DEF Analytics!ShowAnalytics
<1>4. ASSUME NEW c \in Fetches, NEW r, Analytics!ChooseRange(c, r) PROVE LoadSent(c)
  <2> DEFINE p == [page EXCEPT !.range = r]
  <2>1. IsTab(p) /\ p.tab = "analytics" /\ ~page.loading
    BY <1>0, <1>4 DEF IsTab, Analytics!ChooseRange, Analytics!Shown
  <2> QED BY <1>2, <1>4, <2>1 DEF Analytics!ChooseRange
<1>5. ASSUME NEW c \in Fetches, Analytics!TryAgain(c) PROVE LoadSent(c)
  BY <1>0, <1>2, <1>5 DEF Analytics!TryAgain
<1>6. ASSUME NEW c \in Fetches, Analytics!Answered(c) PROVE TabLeft \/ NobodyTold(c) \/ TabTold(c)
  <2>1. CASE ~loads[c].page
    BY <1>6, <2>1 DEF Analytics!Answered, NobodyTold
  <2>2. CASE loads[c].page /\ Analytics!Renders(Analytics!Loaded(loads[c]))
    <3>1. loads' = [loads EXCEPT ![c] = Analytics!Idle] /\ page' = Analytics!Loaded(loads[c])
      BY <1>6, <2>2 DEF Analytics!Answered
    <3>2. IsTab(page)' /\ page'.tab = page.tab /\ page'.loading = FALSE
      BY <1>0, <3>1 DEF Analytics!Loaded, IsTab
    <3> QED BY <1>6, <2>2, <3>1, <3>2 DEF Analytics!Answered, TabTold
  <2>3. CASE loads[c].page /\ ~Analytics!Renders(Analytics!Loaded(loads[c]))
    BY <1>6, <2>3 DEF Analytics!Answered, TabLeft
  <2> QED BY <2>1, <2>2, <2>3
<1>7. ASSUME Analytics!ShowHistory PROVE TabLeft
  BY <1>7 DEF Analytics!ShowHistory, Analytics!Unmount, TabLeft
<1>8. ASSUME (\E b \in BOOLEAN : Analytics!Run(b)) \/ Analytics!HandleRetry PROVE UNCHANGED <<loads, page>>
  BY <1>8 DEF Analytics!Run, Analytics!HandleRetry
<1> QED BY <1>1, <1>3, <1>4, <1>5, <1>6, <1>7, <1>8 DEF Analytics!Next

\* The server of this repository only answers otherwise.
LEMMA AnalyticsAsIsSteps ==
  ASSUME AnalyticsAsIs!Next
  PROVE  Analytics!Next \/ \E c \in Fetches : LoadServed(c)
<1>1. /\ AnalyticsAsIs!Idle = Analytics!Idle /\ AnalyticsAsIs!Closed = Analytics!Closed
      /\ AnalyticsAsIs!Ranges = Analytics!Ranges
      /\ (AnalyticsAsIs!Click => Analytics!Click) /\ (AnalyticsAsIs!Unmount => Analytics!Unmount)
      /\ AnalyticsAsIs!Shown = Analytics!Shown
      /\ \A c, r, a : AnalyticsAsIs!Answer(c, r, a) => Analytics!Answer(c, r, a)
      /\ \A c : AnalyticsAsIs!GetExecutionAnalytics(c) = Analytics!GetExecutionAnalytics(c)
      /\ \A x : AnalyticsAsIs!Loaded(x) = Analytics!Loaded(x) /\ AnalyticsAsIs!Renders(x) = Analytics!Renders(x)
  BY DEF AnalyticsAsIs!Idle, Analytics!Idle, AnalyticsAsIs!Closed, Analytics!Closed, AnalyticsAsIs!Ranges,
     Analytics!Ranges, AnalyticsAsIs!Click, Analytics!Click, AnalyticsAsIs!Unmount, Analytics!Unmount,
     AnalyticsAsIs!Shown, Analytics!Shown, AnalyticsAsIs!Answer, Analytics!Answer,
     AnalyticsAsIs!GetExecutionAnalytics, Analytics!GetExecutionAnalytics, AnalyticsAsIs!Loaded, Analytics!Loaded,
     AnalyticsAsIs!Renders, Analytics!Renders
<1>2. \A c, p : AnalyticsAsIs!LoadAnalytics(c, p) => Analytics!LoadAnalytics(c, p)
  BY <1>1 DEF AnalyticsAsIs!LoadAnalytics, Analytics!LoadAnalytics
<1>3. ASSUME NEW c \in Fetches, AnalyticsAsIs!Serve(c) PROVE LoadServed(c)
  BY <1>1, <1>3 DEF AnalyticsAsIs!Serve, AnalyticsAsIs!GetUserAnalytics, LoadServed
<1>4. ASSUME NEW c \in Fetches, AnalyticsAsIs!ShowAnalytics(c) PROVE Analytics!ShowAnalytics(c)
  BY <1>1, <1>2, <1>4 DEF AnalyticsAsIs!ShowAnalytics, Analytics!ShowAnalytics
<1>5. ASSUME NEW c \in Fetches, AnalyticsAsIs!TryAgain(c) PROVE Analytics!TryAgain(c)
  BY <1>1, <1>2, <1>5 DEF AnalyticsAsIs!TryAgain, Analytics!TryAgain
<1>6. ASSUME NEW c \in Fetches, NEW r, AnalyticsAsIs!ChooseRange(c, r) PROVE Analytics!ChooseRange(c, r)
  BY <1>1, <1>2, <1>6 DEF AnalyticsAsIs!ChooseRange, Analytics!ChooseRange
<1>7. ASSUME NEW c \in Fetches, AnalyticsAsIs!Answered(c) PROVE Analytics!Answered(c)
  BY <1>1, <1>7 DEF AnalyticsAsIs!Answered, Analytics!Answered
<1>8. AnalyticsAsIs!ShowHistory => Analytics!ShowHistory
  BY <1>1 DEF AnalyticsAsIs!ShowHistory, Analytics!ShowHistory
<1>9. AnalyticsAsIs!HandleRetry => Analytics!HandleRetry
  BY <1>1 DEF AnalyticsAsIs!HandleRetry, Analytics!HandleRetry
<1>10. \A b \in BOOLEAN : AnalyticsAsIs!Run(b) => Analytics!Run(b)
  BY DEF AnalyticsAsIs!Run, Analytics!Run
<1> QED BY <1>1, <1>3, <1>4, <1>5, <1>6, <1>7, <1>8, <1>9, <1>10 DEF AnalyticsAsIs!Next, Analytics!Next

LEMMA AnalyticsStep ==
  ASSUME AnalyticsInv, Analytics!Next \/ AnalyticsAsIs!Next
  PROVE  AnalyticsInv'
<1>0. /\ loads = [c \in Fetches |-> loads[c]] /\ \A c \in Fetches : IsLoad(loads[c])
      /\ IsTab(page)
      /\ IF page.tab = "analytics" /\ page.loading THEN \E c \in Fetches : Heard = {c} ELSE Heard = {}
  BY DEF AnalyticsInv
<1>a. IsLoad(Analytics!Idle) /\ ~Analytics!Idle.page /\ Analytics!Idle.sent = "idle"
  BY DEF IsLoad, Analytics!Idle
<1>1. CASE UNCHANGED <<loads, page>>
  BY <1>1 DEF AnalyticsInv, Heard
<1>2. CASE TabLeft
  <2>1. /\ \A c \in Fetches : IsLoad(loads'[c]) /\ ~loads'[c].page
        /\ loads' = [c \in Fetches |-> loads'[c]]
    <3>1. ASSUME NEW c \in Fetches
          PROVE  IsLoad([loads[c] EXCEPT !.page = FALSE]) /\ ~[loads[c] EXCEPT !.page = FALSE].page
      BY <1>0 DEF IsLoad
    <3> QED BY <1>2, <1>a, <3>1 DEF TabLeft
  <2>2. IsTab(page') /\ page'.tab = "history"
    BY <1>2 DEF TabLeft, IsTab, Analytics!Closed
  <2> QED BY <2>1, <2>2 DEF AnalyticsInv, Heard
<1>3. ASSUME NEW c \in Fetches, LoadServed(c) PROVE AnalyticsInv'
  <2>1. PICK r \in {"ok", "failed"} : \E a : Analytics!Answer(c, r, a)
    BY <1>3 DEF LoadServed
  <2>2. PICK a : Analytics!Answer(c, r, a)
    BY <2>1
  <2>3. loads' = [d \in Fetches |-> IF d = c \/ loads[d].sent = "joined"
                                    THEN [loads[d] EXCEPT !.sent = r, !.answer = a] ELSE loads[d]]
    BY <2>2 DEF Analytics!Answer
  <2>4. ASSUME NEW d \in Fetches
        PROVE  IsLoad(loads'[d]) /\ (loads'[d].page <=> loads[d].page) /\ (loads'[d] = Analytics!Idle <=> loads[d] = Analytics!Idle)
    <3>1. CASE d = c \/ loads[d].sent = "joined"
      <4>1. loads'[d] = [loads[d] EXCEPT !.sent = r, !.answer = a]
        BY <2>3, <3>1
      <4>2. loads'[d] = [sent |-> r, page |-> loads[d].page, answer |-> a]
        BY <1>0, <4>1 DEF IsLoad
      <4>3. loads[d].sent # "idle"
        BY <1>3, <3>1 DEF LoadServed
      <4> QED BY <1>0, <1>a, <4>2, <4>3 DEF IsLoad
    <3>2. CASE ~(d = c \/ loads[d].sent = "joined")
      BY <1>0, <2>3, <3>2
    <3> QED BY <3>1, <3>2
  <2>5. Heard' = Heard
    BY <2>4 DEF Heard, Analytics!Idle
  <2>6. UNCHANGED page /\ loads' = [d \in Fetches |-> loads'[d]]
    BY <1>3, <2>3 DEF LoadServed
  <2> QED BY <1>0, <2>4, <2>5, <2>6 DEF AnalyticsInv
<1>4. ASSUME NEW c \in Fetches, LoadSent(c) PROVE AnalyticsInv'
  <2> DEFINE under == {d \in Fetches \ {c} : loads[d].sent # "idle"}
             other == loads[CHOOSE d \in under : TRUE]
             x == IF under = {} THEN "yes" ELSE IF other.sent = "yes" THEN "joined" ELSE other.sent
             a == IF under = {} THEN None ELSE other.answer
  <2>1. loads' = [loads EXCEPT ![c] = [page |-> TRUE, answer |-> a, sent |-> x]] /\ x # "idle"
    BY <1>4 DEF LoadSent, Analytics!GetExecutionAnalytics
  <2> HIDE DEF x, a
  <2>2. /\ loads' = [d \in Fetches |-> loads'[d]] /\ loads'[c] = [page |-> TRUE, answer |-> a, sent |-> x]
        /\ \A d \in Fetches \ {c} : loads'[d] = loads[d]
    BY <1>0, <2>1
  <2>3. Heard = {}
    BY <1>0, <1>4 DEF LoadSent
  <2>4. Heard' = {c}
    BY <1>a, <2>2, <2>3 DEF Heard, Analytics!Idle
  <2>5. \A d \in Fetches : IsLoad(loads'[d])
    <3>1. IsLoad([page |-> TRUE, answer |-> a, sent |-> x])
      BY DEF IsLoad
    <3> QED BY <1>0, <2>2, <3>1
  <2> QED BY <1>4, <2>2, <2>4, <2>5 DEF AnalyticsInv, LoadSent
<1>5. ASSUME NEW c \in Fetches, NobodyTold(c) \/ TabTold(c) PROVE AnalyticsInv'
  <2>1. loads' = [loads EXCEPT ![c] = Analytics!Idle]
    BY <1>5 DEF NobodyTold, TabTold
  <2>2. /\ loads' = [d \in Fetches |-> loads'[d]] /\ loads'[c] = Analytics!Idle
        /\ \A d \in Fetches \ {c} : loads'[d] = loads[d]
    BY <1>0, <2>1
  <2>3. \A d \in Fetches : IsLoad(loads'[d])
    BY <1>0, <1>a, <2>2
  <2>4. Heard' = Heard \ {c}
    BY <1>a, <2>2 DEF Heard, Analytics!Idle
  <2>5. CASE NobodyTold(c)
    <3>1. c \notin Heard
      BY <2>5 DEF NobodyTold, Heard
    <3>2. Heard' = Heard /\ UNCHANGED page
      BY <2>4, <2>5, <3>1 DEF NobodyTold
    <3> QED BY <1>0, <2>2, <2>3, <3>2 DEF AnalyticsInv
  <2>6. CASE TabTold(c)
    <3>1. c \in Heard
      BY <1>a, <2>6 DEF TabTold, Heard
    <3>2. Heard' = {}
      BY <1>0, <2>4, <3>1
    <3> QED BY <2>2, <2>3, <2>6, <3>2 DEF AnalyticsInv, TabTold
  <2> QED BY <1>5, <2>5, <2>6
<1> QED BY <1>1, <1>2, <1>3, <1>4, <1>5, AnalyticsSteps, AnalyticsAsIsSteps

LEMMA AnalyticsLoads == ASSUME AnalyticsInv PROVE Analytics!LoadingIsUnderWay
<1>1. \A S : Analytics!Cardinality(S) = Cardinality(S)
  BY DEF Analytics!Cardinality, Cardinality
<1>2. Cardinality({}) = 0 /\ \A x : Cardinality({x}) = 1
  BY FS_EmptySet, FS_Singleton
<1>3. page.tab = "analytics" => Cardinality(Heard) = IF page.loading THEN 1 ELSE 0
  BY <1>2 DEF AnalyticsInv
<1> QED BY <1>1, <1>3 DEF Analytics!LoadingIsUnderWay, Heard

-----------------------------------------------------------------------------
(***************************************************************************)
(* The pages of workflows: for each spinner a call that will end it.       *)
(***************************************************************************)

Kinds == {"list", "detail", "status", "save", "create", "duplicate", "delete"}
IsAsk(x) ==
  /\ x \in [kind : {x.kind}, page : {x.page}, key : {x.key}, back : {x.back}, edit : {x.edit}, sent : {x.sent},
            answer : {x.answer}]
  /\ x.sent = "yes" => x.kind \in Kinds
AreAsks(cs) == cs = [c \in Calls |-> cs[c]] /\ \A c \in Calls : IsAsk(cs[c])
IsList(x) ==
  x \in [page : {x.page}, status : {x.status}, items : {x.items}, totalPages : {x.totalPages},
         loading : {x.loading}, error : {x.error}]
IsDetail(x) == x \in [open : {x.open}, data : {x.data}, loading : {x.loading}, error : {x.error}]
IsForm(x) == x \in [open : {x.open}, editing : {x.editing}, base : {x.base}, saving : {x.saving}, error : {x.error}]

Pages(l, d, f) == IsList(l) /\ IsDetail(d) /\ IsForm(f)

DetailCall(x) == x.kind = "detail" /\ x.page = "detail"
ListCall(x) == x.kind = "list" /\ x.page = "list"
FormCall(x) == x.kind \in {"save", "create"} /\ x.page = "form"

WorkflowInv == AreAsks(calls) /\ Pages(list, detail, form) /\ Workflow!BusyIsUnderWay

\* A step in which one call changes, and those of the pages that are left lose their page.
OneCall(c, x, left) ==
  /\ IsAsk(x) /\ AreAsks(calls') /\ calls'[c] = x
  /\ \A d \in Calls \ {c} : calls'[d] = calls[d] \/ calls[d].page \in left
  /\ Pages(list', detail', form')
  /\ detail'.loading => DetailCall(x) \/ (detail.loading /\ ~DetailCall(calls[c]) /\ "detail" \notin left)
  /\ list'.loading => ListCall(x) \/ (list.loading /\ ~ListCall(calls[c]) /\ "list" \notin left)
  /\ form'.saving => FormCall(x) \/ (form.saving /\ ~FormCall(calls[c]) /\ "form" \notin left)

LEMMA OneCallKeeps == ASSUME WorkflowInv, NEW c \in Calls, NEW x, NEW left, OneCall(c, x, left) PROVE WorkflowInv'
<1>1. detail'.loading => \E d \in Calls : DetailCall(calls'[d])
  BY DEF WorkflowInv, Workflow!BusyIsUnderWay, OneCall, DetailCall
<1>2. list'.loading => \E d \in Calls : ListCall(calls'[d])
  BY DEF WorkflowInv, Workflow!BusyIsUnderWay, OneCall, ListCall
<1>3. form'.saving => \E d \in Calls : FormCall(calls'[d])
  BY DEF WorkflowInv, Workflow!BusyIsUnderWay, OneCall, FormCall
<1>4. AreAsks(calls') /\ Pages(list', detail', form')
  BY DEF OneCall
<1> QED BY <1>1, <1>2, <1>3, <1>4 DEF WorkflowInv, Workflow!BusyIsUnderWay, DetailCall, ListCall, FormCall

LEMMA AskReplaced ==
  ASSUME NEW cs, AreAsks(cs), NEW c \in Calls, NEW x, IsAsk(x), calls' = [cs EXCEPT ![c] = x]
  PROVE  AreAsks(calls') /\ calls'[c] = x /\ \A d \in Calls \ {c} : calls'[d] = cs[d]
<1>1. calls'[c] = x /\ (\A d \in Calls \ {c} : calls'[d] = cs[d]) /\ calls' = [d \in Calls |-> calls'[d]]
  BY DEF AreAsks
<1> QED BY <1>1 DEF AreAsks

LEMMA IdleShape == IsAsk(Workflow!Idle) /\ Workflow!Idle.page = "none"
  BY DEF IsAsk, Workflow!Idle

LEMMA AskShape ==
  ASSUME NEW kind \in Kinds, NEW p, NEW key, NEW back
  PROVE  /\ IsAsk(Workflow!Ask(kind, p, key, back))
         /\ Workflow!Ask(kind, p, key, back).kind = kind /\ Workflow!Ask(kind, p, key, back).page = p
  BY DEF IsAsk, Workflow!Ask

LEMMA EditShape ==
  ASSUME NEW y, IsAsk(y), NEW edit
  PROVE  LET x == [y EXCEPT !.edit = edit] IN IsAsk(x) /\ x.kind = y.kind /\ x.page = y.page
  BY DEF IsAsk

LEMMA OrphanedAsks ==
  ASSUME NEW cs, AreAsks(cs), NEW p
  PROVE  /\ AreAsks(Workflow!Orphaned(cs, p))
         /\ \A c \in Calls : IF cs[c].page = p THEN Workflow!Orphaned(cs, p)[c].page = "none" ELSE Workflow!Orphaned(cs, p)[c] = cs[c]
<1>1. ASSUME NEW c \in Calls, cs[c].page = p
      PROVE  IsAsk(Workflow!Orphaned(cs, p)[c]) /\ Workflow!Orphaned(cs, p)[c].page = "none"
  <2>1. Workflow!Orphaned(cs, p)[c] = [cs[c] EXCEPT !.page = "none"]
    BY <1>1 DEF Workflow!Orphaned
  <2>2. IsAsk(cs[c])
    BY DEF AreAsks
  <2> QED BY <2>1, <2>2 DEF IsAsk
<1>2. ASSUME NEW c \in Calls, cs[c].page # p PROVE Workflow!Orphaned(cs, p)[c] = cs[c]
  BY <1>2 DEF Workflow!Orphaned
<1>3. Workflow!Orphaned(cs, p) = [c \in Calls |-> Workflow!Orphaned(cs, p)[c]]
  BY DEF Workflow!Orphaned
<1> QED BY <1>1, <1>2, <1>3 DEF AreAsks

\* What the pages' records may become.
LEMMA PageShapes ==
  /\ IsList(Workflow!Fresh) /\ IsList(Workflow!Gone) /\ ~Workflow!Gone.loading
  /\ IsDetail(Workflow!Closed) /\ ~Workflow!Closed.loading
  /\ IsForm(Workflow!NoForm) /\ ~Workflow!NoForm.saving
  BY DEF IsList, IsDetail, IsForm, Workflow!Fresh, Workflow!Gone, Workflow!Closed, Workflow!NoForm

LEMMA ListShapes ==
  ASSUME NEW x, IsList(x)
  PROVE  /\ IsList([x EXCEPT !.loading = FALSE, !.error = TRUE]) /\ ~[x EXCEPT !.loading = FALSE, !.error = TRUE].loading
         /\ IsList([x EXCEPT !.loading = TRUE, !.error = FALSE])
         /\ IsList([x EXCEPT !.error = TRUE]) /\ [x EXCEPT !.error = TRUE].loading = x.loading
  BY DEF IsList

LEMMA ListTurned ==
  ASSUME NEW x, IsList(x), NEW n, NEW st PROVE IsList([x EXCEPT !.page = n, !.status = st, !.loading = TRUE, !.error = FALSE])
  BY DEF IsList

LEMMA ListFilled ==
  ASSUME NEW x, IsList(x), NEW a, NEW b
  PROVE  /\ IsList([x EXCEPT !.items = a, !.totalPages = b, !.loading = FALSE])
         /\ ~[x EXCEPT !.items = a, !.totalPages = b, !.loading = FALSE].loading
  BY DEF IsList

LEMMA DetailShapes ==
  ASSUME NEW x, IsDetail(x)
  PROVE  /\ IsDetail([x EXCEPT !.loading = FALSE, !.error = TRUE]) /\ ~[x EXCEPT !.loading = FALSE, !.error = TRUE].loading
         /\ IsDetail([x EXCEPT !.error = TRUE]) /\ [x EXCEPT !.error = TRUE].loading = x.loading
  BY DEF IsDetail

LEMMA DetailFilled ==
  ASSUME NEW x, IsDetail(x), NEW a
  PROVE  /\ IsDetail([x EXCEPT !.data = a, !.loading = FALSE]) /\ ~[x EXCEPT !.data = a, !.loading = FALSE].loading
         /\ IsDetail([x EXCEPT !.data = a]) /\ [x EXCEPT !.data = a].loading = x.loading
         /\ IsDetail([x EXCEPT !.open = a, !.loading = TRUE, !.error = FALSE])
  BY DEF IsDetail

LEMMA FormShapes ==
  ASSUME NEW x, IsForm(x)
  PROVE  /\ IsForm([x EXCEPT !.saving = TRUE])
         /\ IsForm([x EXCEPT !.error = TRUE, !.saving = FALSE]) /\ ~[x EXCEPT !.error = TRUE, !.saving = FALSE].saving
         /\ IsForm([x EXCEPT !.open = TRUE]) /\ [x EXCEPT !.open = TRUE].saving = x.saving
  BY DEF IsForm

LEMMA FormOpened ==
  ASSUME NEW x, IsForm(x), NEW w, NEW row
  PROVE  /\ IsForm([x EXCEPT !.open = TRUE, !.editing = w, !.base = row])
         /\ [x EXCEPT !.open = TRUE, !.editing = w, !.base = row].saving = x.saving
  BY DEF IsForm

\* A request is answered.
AskServed(c) ==
  /\ calls[c].sent = "yes"
  /\ \E r, a : calls' = [calls EXCEPT ![c].sent = r, ![c].answer = a]
  /\ UNCHANGED <<list, detail, form>>

LEMMA AskServedKeeps == ASSUME WorkflowInv, NEW c \in Calls, AskServed(c) PROVE WorkflowInv'
<1>1. PICK r, a : calls' = [calls EXCEPT ![c].sent = r, ![c].answer = a]
  BY DEF AskServed
<1> DEFINE x == [calls[c] EXCEPT !.sent = r, !.answer = a]
<1>2. IsAsk(x) /\ x.kind = calls[c].kind /\ x.page = calls[c].page
  BY DEF WorkflowInv, AreAsks, IsAsk, AskServed
<1>3. calls' = [calls EXCEPT ![c] = x]
  BY <1>1
<1> HIDE DEF x
<1>4. AreAsks(calls') /\ calls'[c] = x /\ \A d \in Calls \ {c} : calls'[d] = calls[d]
  BY <1>2, <1>3, AskReplaced DEF WorkflowInv
<1>5. OneCall(c, x, {})
  BY <1>2, <1>4 DEF OneCall, WorkflowInv, AskServed, DetailCall, ListCall, FormCall
<1> QED BY <1>5, OneCallKeeps

LEMMA ListSteps ==
  ASSUME WorkflowInv, NEW c \in Calls,
         \/ \E st \in Workflow!Filters : Workflow!ChooseFilter(c, st)
         \/ \E n \in 1..list.totalPages : Workflow!TurnPage(c, n)
         \/ Workflow!ListAnswered(c) \/ Workflow!RowAnswered(c)
         \/ \E w \in Flows, kind \in {"status", "delete", "duplicate"} : Workflow!RowButton(c, w, kind)
  PROVE  \E x : OneCall(c, x, {})
<1>0. AreAsks(calls) /\ IsList(list) /\ IsDetail(detail) /\ IsForm(form)
  BY DEF WorkflowInv, Pages
<1>1. ASSUME NEW params, Workflow!LoadWorkflows(c, params), UNCHANGED <<detail, form>>, Workflow!Free(c)
      PROVE  \E x : OneCall(c, x, {})
  <2> DEFINE x == Workflow!Ask("list", "list", params, None)
  <2>1. calls' = [calls EXCEPT ![c] = x] /\ IsAsk(x) /\ ListCall(x)
    BY <1>1, AskShape DEF Workflow!LoadWorkflows, ListCall, Kinds
  <2> HIDE DEF x
  <2>2. AreAsks(calls') /\ calls'[c] = x /\ \A d \in Calls \ {c} : calls'[d] = calls[d]
    BY <1>0, <2>1, AskReplaced
  <2>3. IsList(list')
    BY <1>0, <1>1, ListTurned DEF Workflow!LoadWorkflows
  <2>4. OneCall(c, x, {})
    BY <1>0, <1>1, <2>1, <2>2, <2>3 DEF OneCall, Pages, Workflow!Free, DetailCall, FormCall
  <2> QED BY <2>4
<1>2. ASSUME NEW st, Workflow!ChooseFilter(c, st) PROVE \E x : OneCall(c, x, {})
  BY <1>1, <1>2 DEF Workflow!ChooseFilter
<1>3. ASSUME NEW n, Workflow!TurnPage(c, n) PROVE \E x : OneCall(c, x, {})
  BY <1>1, <1>3 DEF Workflow!TurnPage
<1>4. ASSUME Workflow!ListAnswered(c) PROVE OneCall(c, Workflow!Idle, {})
  <2>1. calls' = [calls EXCEPT ![c] = Workflow!Idle] /\ UNCHANGED <<detail, form>> /\ calls[c].kind = "list"
    BY <1>4 DEF Workflow!ListAnswered, Workflow!Ended
  <2>2. AreAsks(calls') /\ calls'[c] = Workflow!Idle /\ \A d \in Calls \ {c} : calls'[d] = calls[d]
    BY <1>0, <2>1, IdleShape, AskReplaced
  <2>3. IsList(list') /\ ~list'.loading
    BY <1>0, <1>4, ListShapes, ListFilled DEF Workflow!ListAnswered, Workflow!LoadFailed
  <2> QED BY <1>0, <2>1, <2>2, <2>3, IdleShape DEF OneCall, Pages, DetailCall, FormCall
<1>5. ASSUME Workflow!RowAnswered(c) PROVE \E x : OneCall(c, x, {})
  <2>0. calls[c].kind \in {"status", "delete", "duplicate"} /\ UNCHANGED <<detail, form>>
    BY <1>5 DEF Workflow!RowAnswered, Workflow!Ended
  <2>1. CASE Workflow!Failed(c)
    <3>1. calls' = [calls EXCEPT ![c] = Workflow!Idle] /\ list' = [list EXCEPT !.error = TRUE]
      BY <1>5, <2>1 DEF Workflow!RowAnswered
    <3>2. AreAsks(calls') /\ calls'[c] = Workflow!Idle /\ \A d \in Calls \ {c} : calls'[d] = calls[d]
      BY <1>0, <3>1, IdleShape, AskReplaced
    <3>3. IsList(list') /\ list'.loading = list.loading
      BY <1>0, <3>1, ListShapes
    <3>4. OneCall(c, Workflow!Idle, {})
      BY <1>0, <2>0, <3>2, <3>3, IdleShape DEF OneCall, Pages, DetailCall, FormCall, ListCall
    <3> QED BY <3>4
  <2>2. CASE ~Workflow!Failed(c)
    <3> DEFINE x == Workflow!Ask("list", "list", calls[c].back, None)
    <3>1. calls' = [calls EXCEPT ![c] = x] /\ list' = [list EXCEPT !.loading = TRUE, !.error = FALSE]
      BY <1>5, <2>2 DEF Workflow!RowAnswered
    <3>2. IsAsk(x) /\ ListCall(x)
      BY AskShape DEF ListCall, Kinds
    <3> HIDE DEF x
    <3>3. AreAsks(calls') /\ calls'[c] = x /\ \A d \in Calls \ {c} : calls'[d] = calls[d]
      BY <1>0, <3>1, <3>2, AskReplaced
    <3>4. IsList(list')
      BY <1>0, <3>1, ListShapes
    <3>5. OneCall(c, x, {})
      BY <1>0, <2>0, <3>2, <3>3, <3>4 DEF OneCall, Pages, DetailCall, FormCall
    <3> QED BY <3>5
  <2> QED BY <2>1, <2>2
<1>6. ASSUME NEW w, NEW kind \in {"status", "delete", "duplicate"}, Workflow!RowButton(c, w, kind)
      PROVE  \E x : OneCall(c, x, {})
  <2>1. PICK x : IsAsk(x) /\ calls' = [calls EXCEPT ![c] = x]
    <3>1. CASE kind # "status"
      <4>1. calls' = [calls EXCEPT ![c] = Workflow!Ask(kind, "list", w, Workflow!Params(list))]
        BY <1>6, <3>1 DEF Workflow!RowButton
      <4> QED BY <4>1, AskShape DEF Kinds
    <3>2. CASE kind = "status"
      <4>1. PICK st : calls' = [calls EXCEPT ![c] =
                        [Workflow!Ask(kind, "list", w, Workflow!Params(list)) EXCEPT !.edit = [status |-> st]]]
        BY <1>6, <3>2 DEF Workflow!RowButton
      <4> DEFINE edit == [status |-> st]
                 y == Workflow!Ask(kind, "list", w, Workflow!Params(list))
      <4>2. IsAsk(y) /\ calls' = [calls EXCEPT ![c] = [y EXCEPT !.edit = edit]]
        BY <4>1, AskShape DEF Kinds
      <4> HIDE DEF edit, y
      <4> QED BY <4>2, EditShape
    <3> QED BY <3>1, <3>2
  <2>2. AreAsks(calls') /\ calls'[c] = x /\ \A d \in Calls \ {c} : calls'[d] = calls[d]
    BY <1>0, <2>1, AskReplaced
  <2>3. UNCHANGED <<list, detail, form>> /\ calls[c].kind = "idle"
    BY <1>6 DEF Workflow!RowButton, Workflow!Free
  <2>4. OneCall(c, x, {})
    BY <1>0, <2>1, <2>2, <2>3 DEF OneCall, Pages, DetailCall, ListCall, FormCall
  <2> QED BY <2>4
<1> QED BY <1>2, <1>3, <1>4, <1>5, <1>6

\* The detail of w takes the place of the list, by the call c.
LEMMA ShowKeeps ==
  ASSUME WorkflowInv, NEW c \in Calls, NEW w, NEW cs, NEW left, AreAsks(cs), Workflow!Show(c, w, cs),
         \A d \in Calls : cs[d] = calls[d] \/ calls[d].page \in left, left \subseteq {"list", "form"},
         IsForm(form'), form'.saving => form.saving /\ ~FormCall(calls[c]) /\ "form" \notin left
  PROVE  OneCall(c, Workflow!Ask("detail", "detail", w, None), left)
<1> DEFINE x == Workflow!Ask("detail", "detail", w, None)
<1>1. calls' = [cs EXCEPT ![c] = x] /\ IsAsk(x) /\ DetailCall(x)
  BY AskShape DEF Workflow!Show, DetailCall, Kinds
<1> HIDE DEF x
<1>2. AreAsks(calls') /\ calls'[c] = x /\ \A d \in Calls \ {c} : calls'[d] = cs[d]
  BY <1>1, AskReplaced
<1>3. IsDetail(detail') /\ IsList(list') /\ ~list'.loading
  BY PageShapes, DetailFilled DEF Workflow!Show, WorkflowInv, Pages
<1>4. OneCall(c, x, left)
  BY <1>1, <1>2, <1>3 DEF OneCall, Pages
<1> QED BY <1>4 DEF x

LEMMA DetailSteps ==
  ASSUME WorkflowInv, NEW c \in Calls,
         \/ \E w \in Flows : Workflow!View(c, w)
         \/ Workflow!Back(c) \/ Workflow!DetailAnswered(c) \/ Workflow!NobodyAnswered(c)
         \/ \E kind \in {"status", "duplicate"} : Workflow!DetailButton(c, kind)
  PROVE  \E x, left : OneCall(c, x, left)
<1>0. AreAsks(calls) /\ IsList(list) /\ IsDetail(detail) /\ IsForm(form)
  BY DEF WorkflowInv, Pages
<1>1. ASSUME NEW w, Workflow!View(c, w) PROVE \E x, left : OneCall(c, x, left)
  <2> DEFINE cs == Workflow!Orphaned(calls, "list")
  <2>1. AreAsks(cs) /\ \A d \in Calls : cs[d] = calls[d] \/ calls[d].page \in {"list"}
    BY <1>0, OrphanedAsks
  <2>2. Workflow!Show(c, w, cs) /\ UNCHANGED form /\ calls[c].kind = "idle"
    BY <1>1 DEF Workflow!View, Workflow!Free
  <2> HIDE DEF cs
  <2>3. ~FormCall(calls[c])
    BY <2>2 DEF FormCall
  <2> QED BY <1>0, <2>1, <2>2, <2>3, ShowKeeps
<1>2. ASSUME Workflow!Back(c) PROVE \E x, left : OneCall(c, x, left)
  <2> DEFINE cs == Workflow!Orphaned(calls, "detail")
             x == Workflow!Ask("list", "list", Workflow!Params(Workflow!Fresh), None)
  <2>1. AreAsks(cs) /\ \A d \in Calls : cs[d] = calls[d] \/ calls[d].page \in {"detail"}
    BY <1>0, OrphanedAsks
  <2>2. /\ calls' = [cs EXCEPT ![c] = x] /\ detail' = Workflow!Closed /\ list' = Workflow!Fresh
        /\ UNCHANGED form /\ calls[c].kind = "idle"
    BY <1>2 DEF Workflow!Back, Workflow!Free
  <2>3. IsAsk(x) /\ ListCall(x)
    BY AskShape DEF ListCall, Kinds
  <2> HIDE DEF cs, x
  <2>4. AreAsks(calls') /\ calls'[c] = x /\ \A d \in Calls \ {c} : calls'[d] = cs[d]
    BY <2>1, <2>2, <2>3, AskReplaced
  <2>5. OneCall(c, x, {"detail"})
    BY <1>0, <2>1, <2>2, <2>3, <2>4, PageShapes DEF OneCall, Pages, FormCall
  <2> QED BY <2>5
<1>3. ASSUME Workflow!DetailAnswered(c) \/ Workflow!NobodyAnswered(c) PROVE OneCall(c, Workflow!Idle, {})
  <2>1. calls' = [calls EXCEPT ![c] = Workflow!Idle] /\ UNCHANGED <<list, form>>
    BY <1>3 DEF Workflow!DetailAnswered, Workflow!NobodyAnswered
  <2>2. AreAsks(calls') /\ calls'[c] = Workflow!Idle /\ \A d \in Calls \ {c} : calls'[d] = calls[d]
    BY <1>0, <2>1, IdleShape, AskReplaced
  <2>3. ~ListCall(calls[c]) /\ ~FormCall(calls[c])
    BY <1>3 DEF Workflow!DetailAnswered, Workflow!NobodyAnswered, Workflow!Ended, ListCall, FormCall
  <2>4. CASE Workflow!NobodyAnswered(c)
    <3>1. UNCHANGED detail /\ ~DetailCall(calls[c])
      BY <2>4 DEF Workflow!NobodyAnswered, Workflow!Ended, DetailCall
    <3> QED BY <1>0, <2>1, <2>2, <2>3, <3>1, IdleShape DEF OneCall, Pages
  <2>5. CASE Workflow!DetailAnswered(c)
    <3>1. calls[c].kind \in {"detail", "status", "duplicate"}
      BY <2>5 DEF Workflow!DetailAnswered, Workflow!Ended
    <3>2. IsDetail(detail') /\ (detail'.loading => detail.loading /\ calls[c].kind # "detail")
      <4>1. CASE calls[c].kind = "duplicate"
        BY <1>0, <2>5, <4>1 DEF Workflow!DetailAnswered
      <4>2. CASE calls[c].kind = "detail"
        <5>1. PICK a : detail' = [detail EXCEPT !.loading = FALSE, !.error = TRUE]
                       \/ detail' = [detail EXCEPT !.data = a, !.loading = FALSE]
          BY <2>5, <4>2 DEF Workflow!DetailAnswered, Workflow!LoadFailed
        <5>2. CASE detail' = [detail EXCEPT !.loading = FALSE, !.error = TRUE]
          BY <1>0, <5>2, DetailShapes
        <5>3. CASE detail' = [detail EXCEPT !.data = a, !.loading = FALSE]
          BY <1>0, <5>3, DetailFilled
        <5> QED BY <5>1, <5>2, <5>3
      <4>3. CASE calls[c].kind = "status"
        <5>1. PICK a : detail' = [detail EXCEPT !.error = TRUE] \/ detail' = [detail EXCEPT !.data = a]
          BY <2>5, <4>3 DEF Workflow!DetailAnswered
        <5>2. CASE detail' = [detail EXCEPT !.error = TRUE]
          BY <1>0, <4>3, <5>2, DetailShapes
        <5>3. CASE detail' = [detail EXCEPT !.data = a]
          BY <1>0, <4>3, <5>3, DetailFilled
        <5> QED BY <5>1, <5>2, <5>3
      <4> QED BY <3>1, <4>1, <4>2, <4>3
    <3> QED BY <1>0, <2>1, <2>2, <2>3, <3>2, IdleShape DEF OneCall, Pages, DetailCall
  <2> QED BY <1>3, <2>4, <2>5
<1>4. ASSUME NEW kind \in {"status", "duplicate"}, Workflow!DetailButton(c, kind) PROVE \E x, left : OneCall(c, x, left)
  <2>1. PICK st : calls' = [calls EXCEPT ![c] =
                    [Workflow!Ask(kind, "detail", detail.data[1], None) EXCEPT !.edit = [status |-> st]]]
    BY <1>4 DEF Workflow!DetailButton
  <2> DEFINE edit == [status |-> st]
             y == Workflow!Ask(kind, "detail", detail.data[1], None)
             x == [y EXCEPT !.edit = edit]
  <2>2. IsAsk(y) /\ calls' = [calls EXCEPT ![c] = x]
    BY <2>1, AskShape DEF Kinds
  <2> HIDE DEF edit, y
  <2>3. IsAsk(x)
    BY <2>2, EditShape
  <2> HIDE DEF x
  <2>4. AreAsks(calls') /\ calls'[c] = x /\ \A d \in Calls \ {c} : calls'[d] = calls[d]
    BY <1>0, <2>2, <2>3, AskReplaced
  <2>5. UNCHANGED <<list, detail, form>> /\ calls[c].kind = "idle"
    BY <1>4 DEF Workflow!DetailButton, Workflow!Free
  <2>6. OneCall(c, x, {})
    BY <1>0, <2>3, <2>4, <2>5 DEF OneCall, Pages, DetailCall, ListCall, FormCall
  <2> QED BY <2>6
<1> QED BY <1>1, <1>2, <1>3, <1>4

LEMMA FormSteps ==
  ASSUME WorkflowInv, NEW c \in Calls,
         Workflow!SaveAnswered(c) \/ \E text \in Texts, st \in Workflow!Statuses : Workflow!Submit(c, text, st)
  PROVE  \E x, left : OneCall(c, x, left)
<1>0. AreAsks(calls) /\ IsList(list) /\ IsDetail(detail) /\ IsForm(form)
  BY DEF WorkflowInv, Pages
<1>1. ASSUME NEW text, NEW st, Workflow!Submit(c, text, st) PROVE \E x, left : OneCall(c, x, left)
  <2> DEFINE edit == [text |-> text, status |-> st,
                      chosen |-> form.base = None \/ st # form.base.status,
                      typed |-> form.base = None \/ text # form.base.text]
             kind == IF form.editing = None THEN "create" ELSE "save"
             y == Workflow!Ask(kind, "form", form.editing, detail.open)
             x == [y EXCEPT !.edit = edit]
  <2>1. calls' = [calls EXCEPT ![c] = x] /\ form' = [form EXCEPT !.saving = TRUE]
        /\ UNCHANGED <<list, detail>> /\ calls[c].kind = "idle"
    BY <1>1 DEF Workflow!Submit, Workflow!Free
  <2>2. kind \in {"save", "create"} /\ kind \in Kinds
    BY DEF Kinds
  <2> HIDE DEF edit, kind
  <2>3. IsAsk(y) /\ FormCall(y)
    BY <2>2, AskShape DEF FormCall
  <2> HIDE DEF y
  <2>4. IsAsk(x) /\ FormCall(x)
    BY <2>3, EditShape DEF FormCall
  <2> HIDE DEF x
  <2>5. AreAsks(calls') /\ calls'[c] = x /\ \A d \in Calls \ {c} : calls'[d] = calls[d]
    BY <1>0, <2>1, <2>4, AskReplaced
  <2>6. IsForm(form')
    BY <1>0, <2>1, FormShapes
  <2>7. OneCall(c, x, {})
    BY <1>0, <2>1, <2>4, <2>5, <2>6 DEF OneCall, Pages, DetailCall, ListCall
  <2> QED BY <2>7
<1>2. ASSUME Workflow!SaveAnswered(c) PROVE \E x, left : OneCall(c, x, left)
  <2> DEFINE ok == ~Workflow!Failed(c)
             mine == calls[c].page = "form"
             w == calls[c].answer[1]
             shows == ok /\ w # detail.open /\ (calls[c].kind = "create" \/ (calls[c].back = w /\ detail.open # None))
             listless == Workflow!Orphaned(calls, "list")
             formless == Workflow!Orphaned(calls, "form")
             both == Workflow!Orphaned(listless, "form")
  <2>1. /\ calls[c].kind \in {"save", "create"}
        /\ form' = IF ok THEN Workflow!NoForm ELSE IF mine THEN Workflow!SaveFailed(form) ELSE form
        /\ IF shows THEN Workflow!Show(c, w, both)
           ELSE calls' = [(IF ok THEN formless ELSE calls) EXCEPT ![c] = Workflow!Idle] /\ UNCHANGED <<list, detail>>
    BY <1>2 DEF Workflow!SaveAnswered
  <2>2. /\ AreAsks(formless) /\ \A d \in Calls : formless[d] = calls[d] \/ calls[d].page \in {"form"}
        /\ AreAsks(both) /\ \A d \in Calls : both[d] = calls[d] \/ calls[d].page \in {"list", "form"}
    <3>1. /\ AreAsks(listless) /\ \A d \in Calls : listless[d] = calls[d] \/ calls[d].page = "list"
          /\ AreAsks(formless) /\ \A d \in Calls : formless[d] = calls[d] \/ calls[d].page = "form"
      BY <1>0, OrphanedAsks
    <3> HIDE DEF listless
    <3>2. AreAsks(both) /\ \A d \in Calls : both[d] = listless[d] \/ listless[d].page = "form"
      BY <3>1, OrphanedAsks
    <3> HIDE DEF both
    <3> QED BY <3>1, <3>2
  <2>3. IsForm(form') /\ (form'.saving => ~ok /\ form.saving /\ ~FormCall(calls[c]))
    <3>1. CASE ok
      BY <2>1, <3>1, PageShapes
    <3>2. CASE ~ok /\ mine
      <4>1. form' = [form EXCEPT !.error = TRUE, !.saving = FALSE]
        BY <2>1, <3>2 DEF Workflow!SaveFailed
      <4> QED BY <1>0, <4>1, FormShapes
    <3>3. CASE ~ok /\ ~mine
      BY <1>0, <2>1, <3>3 DEF FormCall
    <3> QED BY <3>1, <3>2, <3>3
  <2>4. ~ListCall(calls[c]) /\ ~DetailCall(calls[c])
    BY <2>1 DEF ListCall, DetailCall
  <2>5. shows => ok
    OBVIOUS
  <2> HIDE DEF ok, mine, listless, formless, both, shows, w
  <2>6. CASE shows
    BY <2>1, <2>2, <2>3, <2>5, <2>6, ShowKeeps
  <2>7. CASE ~shows /\ ok
    <3>1. calls' = [formless EXCEPT ![c] = Workflow!Idle]
      BY <2>1, <2>7
    <3>2. AreAsks(calls') /\ calls'[c] = Workflow!Idle /\ \A d \in Calls \ {c} : calls'[d] = formless[d]
      BY <2>2, <3>1, IdleShape, AskReplaced
    <3>3. OneCall(c, Workflow!Idle, {"form"})
      BY <1>0, <2>1, <2>2, <2>3, <2>4, <2>7, <3>2, IdleShape DEF OneCall, Pages
    <3> QED BY <3>3
  <2>8. CASE ~shows /\ ~ok
    <3>1. calls' = [calls EXCEPT ![c] = Workflow!Idle]
      BY <2>1, <2>8
    <3>2. AreAsks(calls') /\ calls'[c] = Workflow!Idle /\ \A d \in Calls \ {c} : calls'[d] = calls[d]
      BY <1>0, <3>1, IdleShape, AskReplaced
    <3>3. OneCall(c, Workflow!Idle, {})
      BY <1>0, <2>1, <2>3, <2>4, <2>8, <3>2, IdleShape DEF OneCall, Pages
    <3> QED BY <3>3
  <2> QED BY <2>6, <2>7, <2>8
<1> QED BY <1>1, <1>2

LEMMA DialogSteps ==
  ASSUME WorkflowInv,
         Workflow!CreateNew \/ Workflow!CloseForm \/ \E w \in Flows, row \in Workflow!Rows : Workflow!Edit(w, row)
  PROVE  WorkflowInv'
<1>0. AreAsks(calls) /\ IsList(list) /\ IsDetail(detail) /\ IsForm(form)
  BY DEF WorkflowInv, Pages
<1>1. UNCHANGED <<list, detail>>
  BY DEF Workflow!CreateNew, Workflow!CloseForm, Workflow!Edit
<1>2. IsForm(form') /\ ~form'.saving
  <2>1. CASE Workflow!CreateNew
    <3>1. form' = [Workflow!NoForm EXCEPT !.open = TRUE]
      BY <2>1 DEF Workflow!CreateNew
    <3> QED BY <3>1, PageShapes, FormShapes
  <2>2. CASE Workflow!CloseForm
    BY <2>2, PageShapes DEF Workflow!CloseForm
  <2>3. ASSUME NEW w, NEW row, Workflow!Edit(w, row) PROVE IsForm(form') /\ ~form'.saving
    <3>1. form' = [Workflow!NoForm EXCEPT !.open = TRUE, !.editing = w, !.base = row]
      BY <2>3 DEF Workflow!Edit
    <3> QED BY <3>1, PageShapes, FormOpened
  <2> QED BY <2>1, <2>2, <2>3
<1>3. AreAsks(calls') /\ \A d \in Calls : calls'[d] = calls[d] \/ calls[d].page = "form"
  <2>1. CASE Workflow!CloseForm
    <3>1. calls' = Workflow!Orphaned(calls, "form")
      BY <2>1 DEF Workflow!CloseForm
    <3> QED BY <1>0, <3>1, OrphanedAsks
  <2>2. CASE ~Workflow!CloseForm
    BY <1>0, <2>2 DEF Workflow!CreateNew, Workflow!Edit
  <2> QED BY <2>1, <2>2
<1> QED BY <1>0, <1>1, <1>2, <1>3 DEF WorkflowInv, Workflow!BusyIsUnderWay, Pages

\* The server of this repository only answers otherwise.
LEMMA WorkflowAsIsSteps ==
  ASSUME WorkflowAsIs!Next
  PROVE  Workflow!Next \/ \E c \in Calls : WorkflowAsIs!Serve(c)
<1>1. /\ WorkflowAsIs!Statuses = Workflow!Statuses /\ WorkflowAsIs!Filters = Workflow!Filters
      /\ WorkflowAsIs!Rows = Workflow!Rows /\ WorkflowAsIs!Idle = Workflow!Idle /\ WorkflowAsIs!Fresh = Workflow!Fresh
      /\ WorkflowAsIs!Gone = Workflow!Gone /\ WorkflowAsIs!Closed = Workflow!Closed
      /\ WorkflowAsIs!NoForm = Workflow!NoForm
  BY DEF WorkflowAsIs!Statuses, Workflow!Statuses, WorkflowAsIs!Filters, Workflow!Filters, WorkflowAsIs!Rows,
     Workflow!Rows, WorkflowAsIs!Idle, Workflow!Idle, WorkflowAsIs!Fresh, Workflow!Fresh, WorkflowAsIs!Closed,
     Workflow!Closed, WorkflowAsIs!NoForm, Workflow!NoForm, WorkflowAsIs!Gone, Workflow!Gone
<1>2. /\ (WorkflowAsIs!Click => Workflow!Click) /\ (WorkflowAsIs!ListShown = Workflow!ListShown)
      /\ (WorkflowAsIs!DetailShown = Workflow!DetailShown)
      /\ \A w : WorkflowAsIs!Row(w) = Workflow!Row(w)
      /\ \A c : WorkflowAsIs!Free(c) = Workflow!Free(c) /\ WorkflowAsIs!Failed(c) = Workflow!Failed(c)
      /\ \A l : WorkflowAsIs!Params(l) = Workflow!Params(l)
      /\ \A x : WorkflowAsIs!LoadFailed(x) = Workflow!LoadFailed(x) /\ WorkflowAsIs!SaveFailed(x) = Workflow!SaveFailed(x)
  BY DEF WorkflowAsIs!Click, Workflow!Click, WorkflowAsIs!ListShown, Workflow!ListShown,
     WorkflowAsIs!DetailShown, Workflow!DetailShown, WorkflowAsIs!Row, Workflow!Row, WorkflowAsIs!Free,
     Workflow!Free, WorkflowAsIs!Failed, Workflow!Failed, WorkflowAsIs!Params, Workflow!Params,
     WorkflowAsIs!LoadFailed, Workflow!LoadFailed, WorkflowAsIs!SaveFailed, Workflow!SaveFailed
<1>3. /\ \A kind, x, key, back : WorkflowAsIs!Ask(kind, x, key, back) = Workflow!Ask(kind, x, key, back)
      /\ \A c, kinds, x : WorkflowAsIs!Ended(c, kinds, x) = Workflow!Ended(c, kinds, x)
      /\ \A cs, x : WorkflowAsIs!Orphaned(cs, x) = Workflow!Orphaned(cs, x)
  BY <1>2 DEF WorkflowAsIs!Ask, Workflow!Ask, WorkflowAsIs!Ended, Workflow!Ended, WorkflowAsIs!Orphaned,
     Workflow!Orphaned
<1>4. /\ \A c, x : WorkflowAsIs!LoadWorkflows(c, x) => Workflow!LoadWorkflows(c, x)
      /\ \A c, w, cs : WorkflowAsIs!Show(c, w, cs) => Workflow!Show(c, w, cs)
  BY <1>1, <1>3 DEF WorkflowAsIs!LoadWorkflows, Workflow!LoadWorkflows, WorkflowAsIs!Show, Workflow!Show
<1>5. ASSUME NEW c, WorkflowAsIs!ListAnswered(c) PROVE Workflow!ListAnswered(c)
  BY <1>1, <1>2, <1>3, <1>4, <1>5 DEF WorkflowAsIs!server, Workflow!server, WorkflowAsIs!bounds, Workflow!bounds,
     WorkflowAsIs!ListAnswered, Workflow!ListAnswered
<1>6. ASSUME NEW c, WorkflowAsIs!RowAnswered(c) PROVE Workflow!RowAnswered(c)
  BY <1>1, <1>2, <1>3, <1>4, <1>6 DEF WorkflowAsIs!server, Workflow!server, WorkflowAsIs!bounds, Workflow!bounds,
     WorkflowAsIs!RowAnswered, Workflow!RowAnswered
<1>7. ASSUME NEW c, WorkflowAsIs!Back(c) PROVE Workflow!Back(c)
  BY <1>1, <1>2, <1>3, <1>4, <1>7 DEF WorkflowAsIs!server, Workflow!server, WorkflowAsIs!bounds, Workflow!bounds,
     WorkflowAsIs!Back, Workflow!Back
<1>8. ASSUME NEW c, WorkflowAsIs!DetailAnswered(c) PROVE Workflow!DetailAnswered(c)
  BY <1>1, <1>2, <1>3, <1>4, <1>8 DEF WorkflowAsIs!server, Workflow!server, WorkflowAsIs!bounds, Workflow!bounds,
     WorkflowAsIs!DetailAnswered, Workflow!DetailAnswered
<1>9. ASSUME NEW c, WorkflowAsIs!NobodyAnswered(c) PROVE Workflow!NobodyAnswered(c)
  BY <1>1, <1>2, <1>3, <1>4, <1>9 DEF WorkflowAsIs!server, Workflow!server, WorkflowAsIs!bounds, Workflow!bounds,
     WorkflowAsIs!NobodyAnswered, Workflow!NobodyAnswered
<1>10. ASSUME NEW c, WorkflowAsIs!SaveAnswered(c) PROVE Workflow!SaveAnswered(c)
  BY <1>1, <1>2, <1>3, <1>4, <1>10 DEF WorkflowAsIs!server, Workflow!server, WorkflowAsIs!bounds, Workflow!bounds,
     WorkflowAsIs!SaveAnswered, Workflow!SaveAnswered
<1>11. ASSUME NEW c, NEW st, WorkflowAsIs!ChooseFilter(c, st) PROVE Workflow!ChooseFilter(c, st)
  BY <1>1, <1>2, <1>3, <1>4, <1>11 DEF WorkflowAsIs!server, Workflow!server, WorkflowAsIs!bounds, Workflow!bounds,
     WorkflowAsIs!ChooseFilter, Workflow!ChooseFilter
<1>12. ASSUME NEW c, NEW n, WorkflowAsIs!TurnPage(c, n) PROVE Workflow!TurnPage(c, n)
  BY <1>1, <1>2, <1>3, <1>4, <1>12 DEF WorkflowAsIs!server, Workflow!server, WorkflowAsIs!bounds, Workflow!bounds,
     WorkflowAsIs!TurnPage, Workflow!TurnPage
<1>13. ASSUME NEW c, NEW w, WorkflowAsIs!View(c, w) PROVE Workflow!View(c, w)
  BY <1>1, <1>2, <1>3, <1>4, <1>13 DEF WorkflowAsIs!server, Workflow!server, WorkflowAsIs!bounds, Workflow!bounds,
     WorkflowAsIs!View, Workflow!View
<1>14. ASSUME NEW c, NEW w, NEW kind, WorkflowAsIs!RowButton(c, w, kind) PROVE Workflow!RowButton(c, w, kind)
  BY <1>1, <1>2, <1>3, <1>4, <1>14 DEF WorkflowAsIs!server, Workflow!server, WorkflowAsIs!bounds, Workflow!bounds,
     WorkflowAsIs!RowButton, Workflow!RowButton
<1>15. ASSUME NEW c, NEW kind, WorkflowAsIs!DetailButton(c, kind) PROVE Workflow!DetailButton(c, kind)
  BY <1>1, <1>2, <1>3, <1>4, <1>15 DEF WorkflowAsIs!server, Workflow!server, WorkflowAsIs!bounds, Workflow!bounds,
     WorkflowAsIs!DetailButton, Workflow!DetailButton
<1>16. ASSUME NEW c, NEW text, NEW st, WorkflowAsIs!Submit(c, text, st) PROVE Workflow!Submit(c, text, st)
  BY <1>1, <1>2, <1>3, <1>4, <1>16 DEF WorkflowAsIs!server, Workflow!server, WorkflowAsIs!bounds, Workflow!bounds,
     WorkflowAsIs!Submit, Workflow!Submit
<1>17. ASSUME NEW w, NEW row, WorkflowAsIs!Edit(w, row) PROVE Workflow!Edit(w, row)
  BY <1>1, <1>2, <1>3, <1>4, <1>17 DEF WorkflowAsIs!server, Workflow!server, WorkflowAsIs!bounds, Workflow!bounds,
     WorkflowAsIs!Edit, Workflow!Edit
<1>18. (WorkflowAsIs!CreateNew => Workflow!CreateNew) /\ (WorkflowAsIs!CloseForm => Workflow!CloseForm)
  BY <1>1, <1>2, <1>3 DEF WorkflowAsIs!server, Workflow!server, WorkflowAsIs!bounds, Workflow!bounds,
     WorkflowAsIs!CreateNew, Workflow!CreateNew, WorkflowAsIs!CloseForm, Workflow!CloseForm
<1> QED BY <1>1, <1>5, <1>6, <1>7, <1>8, <1>9, <1>10, <1>11, <1>12, <1>13, <1>14, <1>15, <1>16,
     <1>17, <1>18 DEF WorkflowAsIs!Next, Workflow!Next

\* Whatever is asked, and however the server spells and routes it, an answer comes of it.
LEMMA ServeAnswers ==
  ASSUME WorkflowInv, NEW c \in Calls, Workflow!Serve(c) \/ WorkflowAsIs!Serve(c)
  PROVE  AskServed(c)
<1> DEFINE answered == \E r, a : calls' = [calls EXCEPT ![c].sent = r, ![c].answer = a]
<1>1. \A r, a : (Workflow!Answered(c, r, a) => answered) /\ (WorkflowAsIs!Answered(c, r, a) => answered)
  BY DEF Workflow!Answered, WorkflowAsIs!Answered
<1>2. calls[c].sent = "yes" /\ UNCHANGED <<list, detail, form>>
  BY DEF Workflow!Serve, WorkflowAsIs!Serve
<1>3. calls[c].kind \in Kinds
  BY <1>2 DEF WorkflowInv, AreAsks, IsAsk
<1> HIDE DEF answered
<1>4. Workflow!Do(c) => answered
  BY <1>1, <1>3 DEF Workflow!Do, Kinds
<1>5. WorkflowAsIs!Do(c) => answered
  BY <1>1, <1>3 DEF WorkflowAsIs!Do, Kinds
<1>6. \/ Workflow!Answered(c, "failed", None) \/ Workflow!Do(c) \/ Workflow!Answered(c, "refused", None)
      \/ WorkflowAsIs!Answered(c, "failed", None) \/ WorkflowAsIs!Do(c) \/ WorkflowAsIs!Answered(c, "refused", None)
  BY DEF Workflow!Serve, WorkflowAsIs!Serve
<1>7. answered
  BY <1>1, <1>4, <1>5, <1>6
<1> QED BY <1>2, <1>7 DEF AskServed, answered

LEMMA WorkflowStep == ASSUME WorkflowInv, Workflow!Next \/ WorkflowAsIs!Next PROVE WorkflowInv'
<1>1. ASSUME NEW c \in Calls, Workflow!Serve(c) \/ WorkflowAsIs!Serve(c) PROVE WorkflowInv'
  BY <1>1, ServeAnswers, AskServedKeeps
<1>2. CASE Workflow!Next
  <2>1. CASE Workflow!CreateNew \/ Workflow!CloseForm \/ \E w \in Flows, row \in Workflow!Rows : Workflow!Edit(w, row)
    BY <2>1, DialogSteps
  <2>2. ASSUME NEW c \in Calls,
               \/ \E st \in Workflow!Filters : Workflow!ChooseFilter(c, st)
               \/ \E n \in 1..list.totalPages : Workflow!TurnPage(c, n)
               \/ Workflow!ListAnswered(c) \/ Workflow!RowAnswered(c)
               \/ \E w \in Flows, kind \in {"status", "delete", "duplicate"} : Workflow!RowButton(c, w, kind)
        PROVE  WorkflowInv'
    <3>1. \E x : OneCall(c, x, {})
      BY <2>2, ListSteps
    <3> QED BY <3>1, OneCallKeeps
  <2>3. ASSUME NEW c \in Calls,
               \/ \E w \in Flows : Workflow!View(c, w)
               \/ Workflow!Back(c) \/ Workflow!DetailAnswered(c) \/ Workflow!NobodyAnswered(c)
               \/ \E kind \in {"status", "duplicate"} : Workflow!DetailButton(c, kind)
        PROVE  WorkflowInv'
    <3>1. \E x, left : OneCall(c, x, left)
      BY <2>3, DetailSteps
    <3> QED BY <3>1, OneCallKeeps
  <2>4. ASSUME NEW c \in Calls,
               Workflow!SaveAnswered(c) \/ \E text \in Texts, st \in Workflow!Statuses : Workflow!Submit(c, text, st)
        PROVE  WorkflowInv'
    <3>1. \E x, left : OneCall(c, x, left)
      BY <2>4, FormSteps
    <3> QED BY <3>1, OneCallKeeps
  <2> QED BY <1>1, <1>2, <2>1, <2>2, <2>3, <2>4 DEF Workflow!Next
<1> QED BY <1>1, <1>2, WorkflowAsIsSteps

-----------------------------------------------------------------------------
(***************************************************************************)
(* The execution pages, whatever of the server is mended (m).  Every place *)
(* a status can be read from - the table, the detail, the answers on their *)
(* way - is right: it says the row's status, or an event that will say so  *)
(* is still to come, or one has overtaken it.  And the last event under    *)
(* way about an execution says its row's status.                           *)
(***************************************************************************)
RowNames == Execution({})!Names
Shows == Execution({})!Statuses
Items == Execution({})!Items
Absent == Execution({})!Absent
Says(x, n) == Execution({})!Says(x, n)
Rows == [Flows -> RowNames \cup {Absent}]

Apart == None \notin Flows \cup Shows \cup Items

LEMMA OneLanguage ==
  ASSUME NEW m
  PROVE  /\ Execution(m)!Names = RowNames /\ Execution(m)!Statuses = Shows /\ Execution(m)!Items = Items
         /\ Execution(m)!Absent = Absent /\ \A x, n : Execution(m)!Says(x, n) = Says(x, n)
         /\ \A n \in RowNames :
              /\ Execution(m)!Spelt(n) \in Shows /\ Says(Execution(m)!Spelt(n), n)
              /\ Execution(m)!Heard(n) \in Shows /\ Says(Execution(m)!Heard(n), n)
         /\ RowNames \subseteq Shows /\ Absent \notin Shows /\ "running" \in Shows /\ "failed" \in Shows
<1>1. /\ Execution(m)!Names = RowNames /\ Execution(m)!Word = Execution({})!Word /\ Execution(m)!Absent = Absent
  BY DEF Execution!Names, Execution!Word, Execution!Absent, RowNames, Absent
<1>2. Execution(m)!Statuses = Shows
  BY <1>1 DEF Execution!Statuses, Shows, RowNames
<1>3. Execution(m)!Items = Items
  BY <1>1, <1>2 DEF Execution!Items, Items, Shows, Absent
<1>4. \A x, n : Execution(m)!Says(x, n) = Says(x, n)
  BY <1>1 DEF Execution!Says, Says
<1>5. ASSUME NEW n \in RowNames
      PROVE  /\ n \in Shows /\ Execution(m)!Word[n] \in Shows
             /\ Says(n, n) /\ Says(Execution(m)!Word[n], n)
  BY <1>1 DEF Execution!Statuses, Shows, RowNames, Says, Execution!Says
<1>6. ASSUME NEW n \in RowNames
      PROVE  /\ Execution(m)!Spelt(n) \in {n, Execution(m)!Word[n]}
             /\ Execution(m)!Heard(n) \in {n, Execution(m)!Word[n]}
  BY DEF Execution!Spelt, Execution!Heard
<1>7. Absent \notin Shows /\ "running" \in Shows /\ "failed" \in Shows
  BY DEF Absent, Shows, Execution!Absent, Execution!Statuses, Execution!Names, Execution!Word
<1> QED BY <1>1, <1>2, <1>3, <1>4, <1>5, <1>6, <1>7

LEMMA NoneIsApart == ASSUME NEW m, Execution(m)!PagesAssumption PROVE Apart
  BY OneLanguage DEF Execution!PagesAssumption, Apart

Coming(q, e) == \E i \in 1..Len(q) : q[i][1] = e

Right(x, e, late, r, q) ==
  x \in Shows /\ r[e] \in RowNames /\ (e \in late \/ Says(x, r[e]) \/ Coming(q, e))

RightItems(a, late, r, q) == a \in Items /\ \A e \in Flows : a[e] # Absent => Right(a[e], e, late, r, q)

RightQueue(q, r) ==
  /\ q \in Seq(Flows \X RowNames)
  /\ \A i \in 1..Len(q) : q[i][2] = r[q[i][1]] \/ \E j \in i + 1..Len(q) : q[j][1] = q[i][1]

IsTable(t) == t \in [filter : {t.filter}, items : {t.items}, of : {t.of}, loading : {t.loading}, error : {t.error},
                     broken : {t.broken}, late : {t.late}]
RightTable(t, r, q) ==
  IsTable(t) /\ (t.items # None \/ t.of # None => RightItems(t.items, t.late, r, q))

IsDialog(d) == d \in [open : {d.open}, status : {d.status}, loading : {d.loading}, error : {d.error}, late : {d.late}]
RightDialog(d, r, q) ==
  /\ IsDialog(d) /\ d.open \in Flows \cup {None}
  /\ d.open \in Flows => r[d.open] \in RowNames
  /\ d.status # None => d.open \in Flows /\ Right(d.status, d.open, d.late, r, q)

IsCall(x) == x \in [kind : {x.kind}, page : {x.page}, key : {x.key}, back : {x.back}, sent : {x.sent},
                    answer : {x.answer}, late : {x.late}]
RightCall(x, open, r, q) ==
  /\ IsCall(x) /\ x.page \in {"none", "table", "detail"}
  /\ x.kind \in {"detail", "cancel", "retry"} => x.key \in Flows /\ r[x.key] \in RowNames
  /\ x.kind = "list" /\ x.sent = "ok" => RightItems(x.answer, x.late, r, q)
  /\ x.kind = "detail" => x.page \in {"none", "detail"}
  /\ x.kind = "detail" /\ x.sent = "ok" => Right(x.answer, x.key, x.late, r, q)
  /\ x.page = "detail" => x.key \in Flows /\ x.key = open
RightCalls(cs, open, r, q) == cs = [c \in Calls |-> cs[c]] /\ \A c \in Calls : RightCall(cs[c], open, r, q)

ExecInv ==
  /\ running \in Rows /\ RightQueue(queue, running)
  /\ RightTable(table, running, queue) /\ RightDialog(execution, running, queue)
  /\ RightCalls(execCalls, execution.open, running, queue)
  /\ Execution({})!LoadingIsUnderWay

\* What was right stays so: of each execution, nothing has changed or an event is to come.
Steady(r, q, s, p) ==
  \A e \in Flows : /\ r[e] \in RowNames => s[e] \in RowNames
                   /\ (s[e] = r[e] /\ (Coming(q, e) => Coming(p, e))) \/ Coming(p, e)

LEMMA StaysRight ==
  ASSUME NEW r, NEW q, NEW s, NEW p, Steady(r, q, s, p)
  PROVE  /\ \A t : RightTable(t, r, q) => RightTable(t, s, p)
         /\ \A d : RightDialog(d, r, q) => RightDialog(d, s, p)
         /\ \A cs, open : RightCalls(cs, open, r, q) => RightCalls(cs, open, s, p)
<1>1. \A x, late : \A e \in Flows : Right(x, e, late, r, q) => Right(x, e, late, s, p)
  BY DEF Right, Steady
<1>2. \A a, late : RightItems(a, late, r, q) => RightItems(a, late, s, p)
  BY <1>1 DEF RightItems
<1>3. \A t : RightTable(t, r, q) => RightTable(t, s, p)
  BY <1>2 DEF RightTable
<1>4. \A d : RightDialog(d, r, q) => RightDialog(d, s, p)
  BY <1>1 DEF RightDialog, Steady
<1>5. ASSUME NEW x, NEW open, RightCall(x, open, r, q) PROVE RightCall(x, open, s, p)
  BY <1>1, <1>2, <1>5 DEF RightCall, Steady
<1>6. \A cs, open : RightCalls(cs, open, r, q) => RightCalls(cs, open, s, p)
  BY <1>5 DEF RightCalls
<1> QED BY <1>3, <1>4, <1>6

LEMMA AnnounceKeeps ==
  ASSUME running \in Rows, RightQueue(queue, running), NEW m, NEW e \in Flows, NEW n \in RowNames,
         Execution(m)!Announce(e, n)
  PROVE  Steady(running, queue, running', queue') /\ running' \in Rows /\ RightQueue(queue', running')
<1>1. running' = [running EXCEPT ![e] = n] /\ queue' = Append(queue, <<e, n>>)
  BY DEF Execution!Announce
<1>2. /\ running' \in Rows /\ running'[e] = n /\ \A f \in Flows \ {e} : running'[f] = running[f]
      /\ queue \in Seq(Flows \X RowNames) /\ <<e, n>> \in Flows \X RowNames
  BY <1>1 DEF Rows, RightQueue
<1>3. /\ queue' \in Seq(Flows \X RowNames) /\ Len(queue') = Len(queue) + 1 /\ queue'[Len(queue')] = <<e, n>>
      /\ \A i \in 1..Len(queue) : queue'[i] = queue[i] /\ i \in 1..Len(queue')
      /\ Len(queue') \in 1..Len(queue') /\ Len(queue) \in Nat
  BY <1>1, <1>2
<1>4. Coming(queue', e) /\ \A f \in Flows : Coming(queue, f) => Coming(queue', f)
  BY <1>3 DEF Coming
<1>5. Steady(running, queue, running', queue')
  BY <1>2, <1>4 DEF Steady
<1>6. ASSUME NEW i \in 1..Len(queue')
      PROVE  queue'[i][2] = running'[queue'[i][1]] \/ \E j \in i + 1..Len(queue') : queue'[j][1] = queue'[i][1]
  <2>1. CASE i = Len(queue')
    BY <1>2, <1>3, <2>1
  <2>2. CASE i # Len(queue')
    <3>1. i \in 1..Len(queue) /\ queue'[i] = queue[i] /\ Len(queue') \in i + 1..Len(queue')
      BY <1>3, <2>2
    <3>2. queue[i][1] \in Flows
      BY <1>2, <3>1
    <3>3. CASE queue[i][1] = e
      BY <1>3, <3>1, <3>3
    <3>4. CASE queue[i][1] # e
      <4>1. queue[i][2] = running[queue[i][1]] \/ \E j \in i + 1..Len(queue) : queue[j][1] = queue[i][1]
        BY <3>1 DEF RightQueue
      <4>2. running'[queue[i][1]] = running[queue[i][1]]
        BY <1>2, <3>2, <3>4
      <4>3. ASSUME NEW j \in i + 1..Len(queue) PROVE j \in i + 1..Len(queue') /\ queue'[j] = queue[j]
        BY <1>3, <3>1
      <4> QED BY <3>1, <4>1, <4>2, <4>3
    <3> QED BY <3>3, <3>4
  <2> QED BY <2>1, <2>2
<1> QED BY <1>2, <1>3, <1>5, <1>6 DEF RightQueue

LEMMA RunKeeps == ASSUME NEW m, ExecInv, NEW e \in Flows, Execution(m)!Run(e) PROVE ExecInv'
<1>1. \E n \in RowNames : Execution(m)!Announce(e, n)
  BY DEF Execution!Run, RowNames, Execution!Names
<1>2. Steady(running, queue, running', queue') /\ running' \in Rows /\ RightQueue(queue', running')
  BY <1>1, AnnounceKeeps DEF ExecInv
<1>3. UNCHANGED <<table, execution, execCalls>>
  BY DEF Execution!Run
<1>4. /\ RightTable(table, running', queue') /\ RightDialog(execution, running', queue')
      /\ RightCalls(execCalls, execution.open, running', queue')
  BY <1>2, StaysRight DEF ExecInv
<1> QED BY <1>2, <1>3, <1>4 DEF ExecInv, Execution!LoadingIsUnderWay

\* A call put in the place of another.
Placed(new, cs, c, x) == new = [cs EXCEPT ![c] = x]

LEMMA CallPlaced ==
  ASSUME NEW cs, NEW open, NEW r, NEW q, NEW c \in Calls, NEW x, RightCalls(cs, open, r, q), RightCall(x, open, r, q),
         NEW new, Placed(new, cs, c, x)
  PROVE  RightCalls(new, open, r, q) /\ new[c] = x /\ \A d \in Calls \ {c} : new[d] = cs[d]
<1>1. new = [d \in Calls |-> IF d = c THEN x ELSE cs[d]]
  BY DEF RightCalls, Placed
<1>2. new[c] = x /\ \A d \in Calls \ {c} : new[d] = cs[d]
  BY <1>1
<1>3. new = [d \in Calls |-> new[d]]
  BY <1>1
<1>4. \A d \in Calls : RightCall(new[d], open, r, q)
  BY <1>2 DEF RightCalls
<1> QED BY <1>2, <1>3, <1>4 DEF RightCalls

LEMMA IdleIsRight == ASSUME NEW m, NEW open, NEW r, NEW q PROVE RightCall(Execution(m)!Idle, open, r, q)
  BY DEF RightCall, IsCall, Execution!Idle

Asked(m, new, cs, c, kind, at, key) ==
  /\ new = Execution(m)!Request(cs, c, kind, at, key)
  /\ kind \in {"list", "detail", "cancel", "retry"} /\ at \in {"table", "detail"}

\* What is asked for anew knows nothing yet, or what the request it joins was answered.
LEMMA RequestPlaced ==
  ASSUME NEW m, NEW new, NEW cs, NEW open, NEW r, NEW q, NEW c \in Calls, NEW kind, NEW at, NEW key,
         Asked(m, new, cs, c, kind, at, key),
         RightCalls(cs, open, r, q), kind # "list" => key \in Flows /\ r[key] \in RowNames,
         kind = "detail" => at = "detail", at = "detail" => key \in Flows /\ key = open
  PROVE  /\ RightCalls(new, open, r, q)
         /\ new[c].kind = kind /\ new[c].page = at /\ new[c].key = key
         /\ \A d \in Calls \ {c} : new[d] = cs[d]
<1> DEFINE same == {d \in Calls \ {c} : cs[d].kind = kind /\ cs[d].key = key}
           d0 == CHOOSE d \in same : TRUE
           blank == [kind |-> kind, page |-> at, key |-> key, back |-> table.filter, sent |-> "yes", answer |-> None, late |-> {}]
           x == IF same = {} THEN blank
                ELSE IF cs[d0].sent \in {"ok", "failed"}
                THEN [blank EXCEPT !.sent = cs[d0].sent, !.answer = cs[d0].answer, !.late = cs[d0].late]
                ELSE [blank EXCEPT !.sent = "joined"]
<1>1. Placed(new, cs, c, x) /\ at \in {"table", "detail"}
  BY DEF Execution!Request, Placed, Asked
<1>2. /\ IsCall(x) /\ x.kind = kind /\ x.page = at /\ x.key = key
      /\ x.sent = "ok" => same # {} /\ cs[d0].sent = "ok" /\ x.answer = cs[d0].answer /\ x.late = cs[d0].late
  <2>1. CASE same = {}
    BY <2>1 DEF IsCall
  <2>2. CASE same # {} /\ cs[d0].sent \in {"ok", "failed"}
    <3>1. x = [kind |-> kind, page |-> at, key |-> key, back |-> table.filter, sent |-> cs[d0].sent,
               answer |-> cs[d0].answer, late |-> cs[d0].late]
      BY <2>2
    <3> HIDE DEF x, d0, same
    <3> QED BY <2>2, <3>1 DEF IsCall
  <2>3. CASE same # {} /\ cs[d0].sent \notin {"ok", "failed"}
    <3>1. x = [kind |-> kind, page |-> at, key |-> key, back |-> table.filter, sent |-> "joined",
               answer |-> None, late |-> {}]
      BY <2>3
    <3> HIDE DEF x, d0, same
    <3> QED BY <3>1 DEF IsCall
  <2> QED BY <2>1, <2>2, <2>3
<1>3. same # {} => d0 \in Calls /\ cs[d0].kind = kind /\ cs[d0].key = key
  OBVIOUS
<1> HIDE DEF x, d0, same
<1>4. RightCall(x, open, r, q)
  <2>1. x.sent = "ok" => RightCall(cs[d0], open, r, q)
    BY <1>2, <1>3 DEF RightCalls
  <2> QED BY <1>1, <1>2, <1>3, <2>1 DEF RightCall
<1> QED BY <1>1, <1>2, <1>4, CallPlaced

\* Of what is right, the pages change what is loading and in error.
LEMMA TableShapes ==
  ASSUME NEW m, NEW t, NEW r, NEW q, RightTable(t, r, q)
  PROVE  /\ RightTable(Execution(m)!Loading(t), r, q) /\ RightTable(Execution(m)!Failed(t), r, q)
         /\ RightTable([t EXCEPT !.error = TRUE], r, q)
<1>1. IsTable(t)
  BY DEF RightTable
<1>2. /\ IsTable(Execution(m)!Loading(t)) /\ Execution(m)!Loading(t).items = t.items
      /\ Execution(m)!Loading(t).of = t.of /\ Execution(m)!Loading(t).late = t.late
  BY <1>1 DEF IsTable, Execution!Loading
<1>3. /\ IsTable(Execution(m)!Failed(t)) /\ Execution(m)!Failed(t).items = t.items
      /\ Execution(m)!Failed(t).of = t.of /\ Execution(m)!Failed(t).late = t.late
  BY <1>1 DEF IsTable, Execution!Failed
<1>4. /\ IsTable([t EXCEPT !.error = TRUE]) /\ [t EXCEPT !.error = TRUE].items = t.items
      /\ [t EXCEPT !.error = TRUE].of = t.of /\ [t EXCEPT !.error = TRUE].late = t.late
  BY <1>1 DEF IsTable
<1> QED BY <1>2, <1>3, <1>4 DEF RightTable

LEMMA TableFiltered ==
  ASSUME NEW m, NEW t, NEW r, NEW q, NEW f, RightTable(t, r, q)
  PROVE  RightTable([Execution(m)!Loading(t) EXCEPT !.filter = f], r, q)
<1> DEFINE y == Execution(m)!Loading(t)
           new == [y EXCEPT !.filter = f]
<1>1. RightTable(y, r, q)
  BY TableShapes
<1> HIDE DEF y
<1>2. IsTable(new) /\ new.items = y.items /\ new.of = y.of /\ new.late = y.late
  BY <1>1 DEF RightTable, IsTable
<1> HIDE DEF new
<1>3. RightTable(new, r, q)
  BY <1>1, <1>2 DEF RightTable
<1> QED BY <1>3 DEF new, y

LEMMA TableFilled ==
  ASSUME NEW t, NEW r, NEW q, NEW a, NEW of, NEW broken, NEW late, RightTable(t, r, q), RightItems(a, late, r, q)
  PROVE  RightTable([t EXCEPT !.loading = FALSE, !.items = a, !.of = of, !.late = late, !.broken = broken], r, q)
<1> DEFINE new == [t EXCEPT !.loading = FALSE, !.items = a, !.of = of, !.late = late, !.broken = broken]
<1>1. IsTable(new) /\ new.items = a /\ new.late = late
  BY DEF RightTable, IsTable
<1> HIDE DEF new
<1>2. RightTable(new, r, q)
  BY <1>1 DEF RightTable
<1> QED BY <1>2 DEF new

LEMMA DialogShapes ==
  ASSUME NEW m, NEW d, NEW r, NEW q, RightDialog(d, r, q)
  PROVE  /\ RightDialog(Execution(m)!Failed(d), r, q) /\ RightDialog([d EXCEPT !.error = TRUE], r, q)
         /\ Execution(m)!Failed(d).open = d.open /\ ~Execution(m)!Failed(d).loading
         /\ [d EXCEPT !.error = TRUE].open = d.open /\ [d EXCEPT !.error = TRUE].loading = d.loading
<1>1. IsDialog(d)
  BY DEF RightDialog
<1>2. /\ IsDialog(Execution(m)!Failed(d)) /\ Execution(m)!Failed(d).open = d.open
      /\ Execution(m)!Failed(d).status = d.status /\ Execution(m)!Failed(d).late = d.late
      /\ ~Execution(m)!Failed(d).loading
  BY <1>1 DEF IsDialog, Execution!Failed
<1>3. /\ IsDialog([d EXCEPT !.error = TRUE]) /\ [d EXCEPT !.error = TRUE].open = d.open
      /\ [d EXCEPT !.error = TRUE].status = d.status /\ [d EXCEPT !.error = TRUE].late = d.late
      /\ [d EXCEPT !.error = TRUE].loading = d.loading
  BY <1>1 DEF IsDialog
<1> QED BY <1>2, <1>3 DEF RightDialog

\* The detail of an execution, asked for: it is open, and its last status, if it has one, is its own.
Asking(new, d, e) == new = [d EXCEPT !.open = e, !.loading = TRUE, !.error = FALSE]

LEMMA DialogAsked ==
  ASSUME NEW d, NEW r, NEW q, NEW e \in Flows, RightDialog(d, r, q), d.open \in {None, e}, Apart, r[e] \in RowNames,
         NEW new, Asking(new, d, e)
  PROVE  RightDialog(new, r, q) /\ new.open = e
<1>1. IsDialog(new) /\ new.open = e /\ new.status = d.status /\ new.late = d.late
  BY DEF RightDialog, IsDialog, Asking
<1>2. d.status # None => d.open = e
  BY DEF RightDialog, Apart
<1>3. RightDialog(new, r, q)
  BY <1>1, <1>2 DEF RightDialog
<1> QED BY <1>1, <1>3

Filled(new, d, s, late) == new = [d EXCEPT !.loading = FALSE, !.status = s, !.late = late]

LEMMA DialogFilled ==
  ASSUME NEW d, NEW r, NEW q, NEW s, NEW late, RightDialog(d, r, q), d.open \in Flows, Right(s, d.open, late, r, q),
         NEW new, Filled(new, d, s, late)
  PROVE  RightDialog(new, r, q) /\ new.open = d.open /\ ~new.loading
<1>1. IsDialog(new) /\ new.open = d.open /\ new.status = s /\ new.late = late /\ ~new.loading
  BY DEF RightDialog, IsDialog, Filled
<1>2. RightDialog(new, r, q)
  BY <1>1 DEF RightDialog
<1> QED BY <1>1, <1>2

-----------------------------------------------------------------------------
\* The steps of the pages.
LEMMA CallTaken ==
  ASSUME NEW m, ExecInv, NEW c \in Calls, execCalls' = [execCalls EXCEPT ![c] = Execution(m)!Idle]
  PROVE  /\ RightCalls(execCalls', execution.open, running, queue)
         /\ \A d \in Calls \ {c} : execCalls'[d] = execCalls[d]
<1>1. RightCalls(execCalls, execution.open, running, queue) /\ RightCall(Execution(m)!Idle, execution.open, running, queue)
  BY IdleIsRight DEF ExecInv
<1>2. Placed(execCalls', execCalls, c, Execution(m)!Idle)
  BY DEF Placed
<1> QED BY <1>1, <1>2, CallPlaced

\* A step that changes no row, leaves the detail as open and as loading as it was, and ends
\* no call for it.
LEMMA DetailLeft ==
  ASSUME ExecInv, UNCHANGED running, RightQueue(queue', running), RightTable(table', running, queue'),
         RightDialog(execution', running, queue'), execution'.open = execution.open,
         execution'.loading => execution.loading,
         NEW c \in Calls, RightCalls(execCalls', execution.open, running, queue'),
         execution'.loading => execCalls[c].kind # "detail" \/ execCalls[c].page # "detail",
         \A d \in Calls \ {c} : /\ execCalls'[d].kind = execCalls[d].kind /\ execCalls'[d].page = execCalls[d].page
                                /\ execCalls'[d].key = execCalls[d].key
  PROVE  ExecInv'
  BY DEF ExecInv, Execution!LoadingIsUnderWay

\* What the table shows is the row of an execution.
LEMMA TableHolds ==
  ASSUME NEW m, ExecInv, Execution(m)!TableShown, NEW e \in Flows, table.items[e] # Absent
  PROVE  running[e] \in RowNames
  BY DEF ExecInv, RightTable, RightItems, Right, Execution!TableShown

LEMMA TableSteps ==
  ASSUME NEW m, ExecInv, NEW c \in Calls,
         \/ Execution(m)!Mount(c) \/ Execution(m)!TryAgain(c)
         \/ \E f \in Execution(m)!Filters : Execution(m)!ChangeFilter(c, f)
         \/ \E e \in Flows, kind \in {"cancel", "retry"} : Execution(m)!TableButton(c, e, kind)
  PROVE  ExecInv'
<1>1. UNCHANGED <<running, queue, execution>> /\ execCalls[c].kind = "idle"
  BY DEF Execution!Mount, Execution!TryAgain, Execution!ChangeFilter, Execution!TableButton, Execution!Free
<1>2. RightTable(table', running, queue)
  <2>1. RightTable(table, running, queue)
    BY DEF ExecInv
  <2>2. RightTable(Execution(m)!Loading(table), running, queue)
    BY <2>1, TableShapes
  <2>3. ASSUME NEW f, table' = [Execution(m)!Loading(table) EXCEPT !.filter = f] PROVE RightTable(table', running, queue)
    BY <2>1, <2>3, TableFiltered
  <2> QED BY <2>1, <2>2, <2>3 DEF Execution!Mount, Execution!TryAgain, Execution!ChangeFilter, Execution!TableButton,
       Execution!LoadExecutions
<1>3. PICK kind \in {"list", "cancel", "retry"} : \E key :
        /\ kind # "list" => key \in Flows /\ running[key] \in RowNames
        /\ execCalls' = Execution(m)!Request(execCalls, c, kind, "table", key)
  <2>1. CASE Execution(m)!Mount(c) \/ Execution(m)!TryAgain(c) \/ \E f \in Execution(m)!Filters : Execution(m)!ChangeFilter(c, f)
    BY <2>1 DEF Execution!Mount, Execution!TryAgain, Execution!ChangeFilter, Execution!LoadExecutions
  <2>2. ASSUME NEW e \in Flows, NEW kind \in {"cancel", "retry"}, Execution(m)!TableButton(c, e, kind)
        PROVE  running[e] \in RowNames /\ execCalls' = Execution(m)!Request(execCalls, c, kind, "table", e)
    <3>1. table.items[e] \in {"running", "failed"}
      BY <2>2 DEF Execution!TableButton, Execution!Offered
    <3>2. table.items[e] # Absent
      BY <3>1 DEF Absent, Execution!Absent
    <3> QED BY <2>2, <3>2, TableHolds DEF Execution!TableButton
  <2> QED BY <2>1, <2>2
<1>4. PICK key : /\ kind # "list" => key \in Flows /\ running[key] \in RowNames
                 /\ execCalls' = Execution(m)!Request(execCalls, c, kind, "table", key)
  BY <1>3
<1>5. RightCalls(execCalls', execution.open, running, queue) /\ \A d \in Calls \ {c} : execCalls'[d] = execCalls[d]
  <2>1. RightCalls(execCalls, execution.open, running, queue) /\ Asked(m, execCalls', execCalls, c, kind, "table", key)
    BY <1>4 DEF ExecInv, Asked
  <2> QED BY <1>4, <2>1, RequestPlaced
<1> QED BY <1>1, <1>2, <1>5, DetailLeft DEF ExecInv

LEMMA OpenKeeps ==
  ASSUME NEW m, Apart, ExecInv, NEW c \in Calls, NEW e \in Flows, execution.open \in {None, e}, running[e] \in RowNames,
         Execution(m)!LoadExecutionDetails(c, e), UNCHANGED <<running, queue, table>>
  PROVE  ExecInv'
<1>1. RightDialog(execution', running, queue) /\ execution'.open = e
  <2>1. RightDialog(execution, running, queue) /\ Asking(execution', execution, e)
    BY DEF ExecInv, Execution!LoadExecutionDetails, Asking
  <2> QED BY <2>1, DialogAsked
<1>2. \A d \in Calls : execCalls[d].page = "detail" => e = execution.open
  BY DEF ExecInv, RightCalls, RightCall, Apart
<1>3. /\ RightCalls(execCalls', e, running, queue)
      /\ execCalls'[c].kind = "detail" /\ execCalls'[c].page = "detail" /\ execCalls'[c].key = e
  <2>1. Asked(m, execCalls', execCalls, c, "detail", "detail", e)
    BY DEF Execution!LoadExecutionDetails, Asked
  <2>2. RightCalls(execCalls, e, running, queue)
    BY <1>2 DEF ExecInv, RightCalls, RightCall
  <2> QED BY <2>1, <2>2, RequestPlaced
<1> QED BY <1>1, <1>3 DEF ExecInv, Execution!LoadingIsUnderWay

LEMMA CloseKeeps == ASSUME NEW m, Apart, ExecInv, Execution(m)!Close PROVE ExecInv'
<1>1. execution' = Execution(m)!Blank /\ UNCHANGED <<running, queue, table>>
  BY DEF Execution!Close
<1>2. RightDialog(execution', running, queue) /\ ~execution'.loading /\ execution'.open = None
  BY <1>1 DEF RightDialog, IsDialog, Execution!Blank, Apart
<1>3. RightCalls(execCalls', None, running, queue)
  <2> DEFINE closed(x) == [x EXCEPT !.page = "none"]
             left(x) == IF x.page = "detail" THEN closed(x) ELSE x
  <2>1. execCalls' = [d \in Calls |-> left(execCalls[d])]
    BY DEF Execution!Close
  <2>2. ASSUME NEW x, RightCall(x, execution.open, running, queue), x.page = "detail"
        PROVE  RightCall(closed(x), None, running, queue)
    <3>1. /\ IsCall(closed(x)) /\ closed(x).kind = x.kind /\ closed(x).page = "none" /\ closed(x).key = x.key
          /\ closed(x).sent = x.sent /\ closed(x).answer = x.answer /\ closed(x).late = x.late
      BY <2>2 DEF RightCall, IsCall
    <3> HIDE DEF closed
    <3> QED BY <2>2, <3>1 DEF RightCall
  <2>3. \A x : RightCall(x, execution.open, running, queue) => RightCall(left(x), None, running, queue)
    <3>1. \A x : RightCall(x, execution.open, running, queue) /\ x.page # "detail" => RightCall(x, None, running, queue)
      BY DEF RightCall
    <3> QED BY <2>2, <3>1
  <2> HIDE DEF left
  <2>4. \A d \in Calls : RightCall(left(execCalls[d]), None, running, queue)
    BY <2>3 DEF ExecInv, RightCalls
  <2> QED BY <2>1, <2>4 DEF RightCalls
<1> QED BY <1>1, <1>2, <1>3 DEF ExecInv, Execution!LoadingIsUnderWay

\* An answer says what the rows say, to every call that it is given to, none of which was answered.
LEMMA AnswerKeeps ==
  ASSUME NEW m, ExecInv, NEW c \in Calls, NEW result, NEW a, Execution(m)!Answer(c, result, a),
         result = "ok" /\ execCalls[c].kind = "list" => \A late : RightItems(a, late, running, queue),
         result = "ok" /\ execCalls[c].kind = "detail" => \A late : Right(a, execCalls[c].key, late, running, queue)
  PROVE  /\ RightCalls(execCalls', execution.open, running, queue)
         /\ \A d \in Calls : /\ execCalls'[d].kind = execCalls[d].kind /\ execCalls'[d].page = execCalls[d].page
                             /\ execCalls'[d].key = execCalls[d].key
<1> DEFINE heard(x) == [x EXCEPT !.sent = result, !.answer = a]
           mine(x) == x.kind = execCalls[c].kind /\ x.key = execCalls[c].key
<1>1. \A d \in Calls : execCalls'[d] = execCalls[d] \/ (execCalls'[d] = heard(execCalls[d]) /\ mine(execCalls[d]))
  BY DEF Execution!Answer
<1>2. execCalls' = [d \in Calls |-> execCalls'[d]]
  BY DEF Execution!Answer
<1>3. ASSUME NEW x, RightCall(x, execution.open, running, queue), mine(x)
      PROVE  /\ RightCall(heard(x), execution.open, running, queue)
             /\ heard(x).kind = x.kind /\ heard(x).page = x.page /\ heard(x).key = x.key
  <2>1. /\ IsCall(heard(x)) /\ heard(x).kind = x.kind /\ heard(x).page = x.page /\ heard(x).key = x.key
        /\ heard(x).sent = result /\ heard(x).answer = a
    BY <1>3 DEF RightCall, IsCall
  <2> HIDE DEF heard
  <2> QED BY <1>3, <2>1 DEF RightCall
<1> HIDE DEF heard, mine
<1>4. \A d \in Calls : RightCall(execCalls[d], execution.open, running, queue)
  BY DEF ExecInv, RightCalls
<1>5. \A d \in Calls : /\ RightCall(execCalls'[d], execution.open, running, queue)
                       /\ execCalls'[d].kind = execCalls[d].kind /\ execCalls'[d].page = execCalls[d].page
                       /\ execCalls'[d].key = execCalls[d].key
  BY <1>1, <1>3, <1>4
<1> QED BY <1>2, <1>5 DEF RightCalls

LEMMA ListIsRight ==
  ASSUME NEW m, running \in Rows, NEW filter, NEW late
  PROVE  RightItems(Execution(m)!Listed(filter), late, running, queue)
<1> DEFINE a == Execution(m)!Listed(filter)
<1>1. a = [e \in Flows |-> IF Execution(m)!Matches(e, filter) THEN Execution(m)!Spelt(running[e]) ELSE Absent]
  BY OneLanguage DEF Execution!Listed
<1>2. ASSUME NEW e \in Flows, Execution(m)!Matches(e, filter) PROVE running[e] \in RowNames
  BY <1>2, OneLanguage DEF Execution!Matches, Rows
<1>3. a \in Items
  BY <1>1, <1>2, OneLanguage DEF Items, Shows, Absent, Execution!Items
<1>4. ASSUME NEW e \in Flows, a[e] # Absent PROVE Right(a[e], e, late, running, queue)
  <2>1. a[e] = Execution(m)!Spelt(running[e]) /\ Execution(m)!Matches(e, filter)
    BY <1>1, <1>4
  <2> QED BY <1>2, <2>1, OneLanguage DEF Right
<1> QED BY <1>3, <1>4 DEF RightItems

LEMMA ServeKeeps == ASSUME NEW m, ExecInv, NEW c \in Calls, Execution(m)!Serve(c) PROVE ExecInv'
<1>1. UNCHANGED <<table, execution>> /\ RightCall(execCalls[c], execution.open, running, queue)
  BY DEF Execution!Serve, ExecInv, RightCalls
<1>2. PICK result, a :
        /\ Execution(m)!Answer(c, result, a)
        /\ result = "ok" /\ execCalls[c].kind = "list" => a = Execution(m)!Listed(execCalls[c].key)
        /\ result = "ok" /\ execCalls[c].kind = "detail" => a = Execution(m)!Spelt(running[execCalls[c].key])
  BY DEF Execution!Serve
<1>3. /\ RightCalls(execCalls', execution.open, running, queue)
      /\ \A d \in Calls : /\ execCalls'[d].kind = execCalls[d].kind /\ execCalls'[d].page = execCalls[d].page
                          /\ execCalls'[d].key = execCalls[d].key
  <2>1. ASSUME result = "ok", execCalls[c].kind = "list", NEW late PROVE RightItems(a, late, running, queue)
    BY <1>2, <2>1, ListIsRight DEF ExecInv
  <2>2. ASSUME result = "ok", execCalls[c].kind = "detail", NEW late
        PROVE  Right(a, execCalls[c].key, late, running, queue)
    <3>1. running[execCalls[c].key] \in RowNames /\ a = Execution(m)!Spelt(running[execCalls[c].key])
      BY <1>1, <1>2, <2>2 DEF RightCall
    <3> QED BY <3>1, OneLanguage DEF Right
  <2> QED BY <1>2, <2>1, <2>2, AnswerKeeps
<1>4. Steady(running, queue, running', queue') /\ running' \in Rows /\ RightQueue(queue', running')
  <2>1. CASE UNCHANGED <<running, queue>>
    BY <2>1 DEF ExecInv, Steady
  <2>2. ASSUME NEW e \in Flows, NEW n \in {"RUNNING", "CANCELLED"}, Execution(m)!Announce(e, n)
        PROVE  Steady(running, queue, running', queue') /\ running' \in Rows /\ RightQueue(queue', running')
    <3>1. n \in RowNames
      BY DEF RowNames, Execution!Names
    <3> QED BY <2>2, <3>1, AnnounceKeeps DEF ExecInv
  <2>3. execCalls[c].kind = "cancel" => execCalls[c].key \in Flows
    BY <1>1 DEF RightCall
  <2>4. \/ UNCHANGED <<running, queue>>
        \/ execCalls[c].kind = "cancel" /\ Execution(m)!Announce(execCalls[c].key, "CANCELLED")
        \/ \E e \in Flows : Execution(m)!Announce(e, "RUNNING")
    BY DEF Execution!Serve
  <2> QED BY <2>1, <2>2, <2>3, <2>4
<1>5. /\ RightTable(table, running', queue') /\ RightDialog(execution, running', queue')
      /\ RightCalls(execCalls', execution.open, running', queue')
  BY <1>3, <1>4, StaysRight DEF ExecInv
<1> QED BY <1>1, <1>3, <1>4, <1>5 DEF ExecInv, Execution!LoadingIsUnderWay

LEMMA ListAnsweredKeeps == ASSUME NEW m, ExecInv, NEW c \in Calls, Execution(m)!ListAnswered(c) PROVE ExecInv'
<1>1. /\ UNCHANGED <<running, queue, execution>> /\ execCalls[c].kind = "list" /\ execCalls[c].sent \in {"ok", "failed"}
      /\ RightTable(table, running, queue) /\ RightCall(execCalls[c], execution.open, running, queue)
  BY DEF Execution!ListAnswered, Execution!Ended, ExecInv, RightCalls
<1>2. RightTable(table', running, queue)
  <2>1. CASE execCalls[c].sent = "failed"
    <3>1. table' = Execution(m)!Failed(table)
      BY <2>1 DEF Execution!ListAnswered
    <3> QED BY <1>1, <3>1, TableShapes
  <2>2. CASE execCalls[c].sent = "ok"
    <3>1. PICK broken : table' = [table EXCEPT !.loading = FALSE, !.items = execCalls[c].answer,
                                               !.of = execCalls[c].key, !.late = execCalls[c].late, !.broken = broken]
      BY <2>2 DEF Execution!ListAnswered, Execution!Loaded
    <3>2. RightItems(execCalls[c].answer, execCalls[c].late, running, queue)
      BY <1>1, <2>2 DEF RightCall
    <3> QED BY <1>1, <3>1, <3>2, TableFilled
  <2> QED BY <1>1, <2>1, <2>2
<1>3. RightCalls(execCalls', execution.open, running, queue) /\ \A d \in Calls \ {c} : execCalls'[d] = execCalls[d]
  BY CallTaken DEF Execution!ListAnswered
<1> QED BY <1>1, <1>2, <1>3, DetailLeft DEF ExecInv

LEMMA DetailAnsweredKeeps == ASSUME NEW m, ExecInv, NEW c \in Calls, Execution(m)!DetailAnswered(c) PROVE ExecInv'
<1>1. /\ UNCHANGED <<running, queue, table>> /\ execCalls[c].kind = "detail"
      /\ RightDialog(execution, running, queue) /\ RightCall(execCalls[c], execution.open, running, queue)
  BY DEF Execution!DetailAnswered, Execution!Ended, ExecInv, RightCalls
<1>2. RightCalls(execCalls', execution.open, running, queue) /\ \A d \in Calls \ {c} : execCalls'[d] = execCalls[d]
  BY CallTaken DEF Execution!DetailAnswered
<1>3. CASE execCalls[c].page = "none"
  <2>1. execution' = execution
    BY <1>3 DEF Execution!DetailAnswered
  <2> QED BY <1>1, <1>2, <1>3, <2>1, DetailLeft DEF ExecInv
<1>4. CASE execCalls[c].page # "none" /\ execCalls[c].sent = "failed"
  <2>1. execution' = Execution(m)!Failed(execution)
    BY <1>4 DEF Execution!DetailAnswered
  <2>2. RightDialog(execution', running, queue) /\ execution'.open = execution.open /\ ~execution'.loading
    BY <1>1, <2>1, DialogShapes
  <2> QED BY <1>1, <1>2, <2>2, DetailLeft DEF ExecInv
<1>5. CASE execCalls[c].page # "none" /\ execCalls[c].sent # "failed"
  <2>1. Filled(execution', execution, execCalls[c].answer, execCalls[c].late) /\ execCalls[c].sent = "ok"
    BY <1>5 DEF Execution!DetailAnswered, Execution!Ended, Filled
  <2>2. execution.open \in Flows /\ Right(execCalls[c].answer, execution.open, execCalls[c].late, running, queue)
    BY <1>1, <1>5, <2>1 DEF RightCall
  <2>3. RightDialog(execution', running, queue) /\ execution'.open = execution.open /\ ~execution'.loading
    BY <1>1, <2>1, <2>2, DialogFilled
  <2> QED BY <1>1, <1>2, <2>3, DetailLeft DEF ExecInv
<1> QED BY <1>3, <1>4, <1>5

LEMMA DetailButtonKeeps ==
  ASSUME NEW m, Apart, ExecInv, NEW c \in Calls, NEW kind \in {"cancel", "retry"}, Execution(m)!DetailButton(c, kind)
  PROVE  ExecInv'
<1>1. /\ UNCHANGED <<running, queue, table, execution>> /\ execCalls[c].kind = "idle"
      /\ execCalls' = Execution(m)!Request(execCalls, c, kind, "detail", execution.open)
      /\ execution.status \in {"running", "failed"}
  BY DEF Execution!DetailButton, Execution!Free, Execution!Offered
<1>2. execution.status # None
  BY <1>1, OneLanguage DEF Apart
<1>3. execution.open \in Flows /\ running[execution.open] \in RowNames
  BY <1>2 DEF ExecInv, RightDialog
<1>4. RightCalls(execCalls', execution.open, running, queue) /\ \A d \in Calls \ {c} : execCalls'[d] = execCalls[d]
  <2>1. RightCalls(execCalls, execution.open, running, queue)
    BY DEF ExecInv
  <2>2. Asked(m, execCalls', execCalls, c, kind, "detail", execution.open) /\ kind # "list" /\ kind # "detail"
    BY <1>1 DEF Asked
  <2> QED BY <1>1, <1>3, <2>1, <2>2, RequestPlaced
<1> QED BY <1>1, <1>4, DetailLeft DEF ExecInv

LEMMA ButtonAnsweredKeeps == ASSUME NEW m, Apart, ExecInv, NEW c \in Calls, Execution(m)!ButtonAnswered(c) PROVE ExecInv'
<1> DEFINE failed == execCalls[c].sent = "failed"
           at == execCalls[c].page
<1>1. /\ UNCHANGED <<running, queue>> /\ execCalls[c].kind \in {"cancel", "retry"}
      /\ RightTable(table, running, queue) /\ RightDialog(execution, running, queue)
      /\ RightCall(execCalls[c], execution.open, running, queue) /\ RightCalls(execCalls, execution.open, running, queue)
  BY DEF Execution!ButtonAnswered, Execution!Ended, ExecInv, RightCalls
<1>2. at \in {"none", "table", "detail"}
  BY <1>1 DEF RightCall
<1>3. CASE at = "none"
  <2>1. execCalls' = [execCalls EXCEPT ![c] = Execution(m)!Idle] /\ UNCHANGED <<table, execution>>
    BY <1>3 DEF Execution!ButtonAnswered
  <2>2. RightCalls(execCalls', execution.open, running, queue) /\ \A d \in Calls \ {c} : execCalls'[d] = execCalls[d]
    BY <2>1, CallTaken
  <2> QED BY <1>1, <2>1, <2>2, DetailLeft DEF ExecInv
<1>4. CASE at # "none" /\ failed
  <2>1. /\ execCalls' = [execCalls EXCEPT ![c] = Execution(m)!Idle]
        /\ table' = table \/ table' = [table EXCEPT !.error = TRUE]
        /\ execution' = execution \/ execution' = [execution EXCEPT !.error = TRUE]
    BY <1>2, <1>4 DEF Execution!ButtonAnswered
  <2>2. RightCalls(execCalls', execution.open, running, queue) /\ \A d \in Calls \ {c} : execCalls'[d] = execCalls[d]
    BY <2>1, CallTaken
  <2>3. RightTable(table', running, queue)
    BY <1>1, <2>1, TableShapes
  <2>4. /\ RightDialog(execution', running, queue) /\ execution'.open = execution.open
        /\ execution'.loading = execution.loading
    <3>1. CASE execution' = execution
      BY <1>1, <3>1
    <3>2. CASE execution' = [execution EXCEPT !.error = TRUE]
      BY <1>1, <3>2, DialogShapes
    <3> QED BY <2>1, <3>1, <3>2
  <2> QED BY <1>1, <2>2, <2>3, <2>4, DetailLeft DEF ExecInv
<1>5. CASE at = "table" /\ ~failed
  <2>1. Execution(m)!LoadExecutions(c, execCalls[c].back) /\ UNCHANGED execution
    BY <1>5 DEF Execution!ButtonAnswered
  <2>2. RightTable(table', running, queue)
    BY <1>1, <2>1, TableShapes DEF Execution!LoadExecutions
  <2>3. Asked(m, execCalls', execCalls, c, "list", "table", execCalls[c].back)
    BY <2>1 DEF Execution!LoadExecutions, Asked
  <2>4. RightCalls(execCalls', execution.open, running, queue) /\ \A d \in Calls \ {c} : execCalls'[d] = execCalls[d]
    BY <1>1, <2>3, RequestPlaced
  <2> QED BY <1>1, <2>1, <2>2, <2>4, DetailLeft DEF ExecInv
<1>6. CASE at = "detail" /\ ~failed
  <2>1. Execution(m)!LoadExecutionDetails(c, execCalls[c].key) /\ UNCHANGED table
    BY <1>6 DEF Execution!ButtonAnswered
  <2>2. /\ execCalls[c].key \in Flows /\ execution.open = execCalls[c].key
        /\ running[execCalls[c].key] \in RowNames
    BY <1>1, <1>6 DEF RightCall
  <2> QED BY <1>1, <2>1, <2>2, OpenKeeps
<1> QED BY <1>2, <1>3, <1>4, <1>5, <1>6

\* An event taken from the queue says its row's status, or another of its row is to come.  So
\* what is not of its execution stays right, and so does what has been overtaken or says the same.
LEMMA HeadIsRight ==
  ASSUME NEW q, NEW r, RightQueue(q, r), q # <<>>
  PROVE  LET e == Head(q)[1]
             n == Head(q)[2]
             p == Tail(q)
         IN  /\ e \in Flows /\ n \in RowNames /\ RightQueue(p, r) /\ (n = r[e] \/ Coming(p, e))
             /\ \A f \in Flows \ {e} : Coming(q, f) => Coming(p, f)
<1> DEFINE e == Head(q)[1]
           n == Head(q)[2]
           p == Tail(q)
<1>1. q \in Seq(Flows \X RowNames) /\ Len(q) \in Nat /\ Len(q) >= 1 /\ Head(q) = q[1] /\ 1 \in 1..Len(q)
  BY DEF RightQueue
<1>2. e \in Flows /\ n \in RowNames
  BY <1>1
<1>3. /\ p \in Seq(Flows \X RowNames) /\ Len(p) = Len(q) - 1
      /\ \A i \in 1..Len(p) : p[i] = q[i + 1] /\ i + 1 \in 1..Len(q)
  BY <1>1
<1>4. \A j \in 2..Len(q) : j - 1 \in 1..Len(p) /\ p[j - 1] = q[j]
  BY <1>1, <1>3
<1>5. n = r[e] \/ Coming(p, e)
  <2>1. q[1][2] = r[q[1][1]] \/ \E j \in 1 + 1..Len(q) : q[j][1] = q[1][1]
    BY <1>1 DEF RightQueue
  <2>2. CASE q[1][2] = r[q[1][1]]
    BY <1>1, <2>2
  <2>3. ASSUME NEW j \in 1 + 1..Len(q), q[j][1] = q[1][1] PROVE Coming(p, e)
    <3>1. j \in 2..Len(q)
      OBVIOUS
    <3>2. j - 1 \in 1..Len(p) /\ p[j - 1][1] = e
      BY <1>1, <1>4, <2>3, <3>1
    <3> QED BY <3>2 DEF Coming
  <2> QED BY <2>1, <2>2, <2>3
<1>6. ASSUME NEW f \in Flows \ {e}, Coming(q, f) PROVE Coming(p, f)
  <2>1. PICK i \in 1..Len(q) : q[i][1] = f
    BY <1>6 DEF Coming
  <2>2. i \in 2..Len(q)
    BY <1>1, <2>1
  <2> QED BY <1>4, <2>1, <2>2 DEF Coming
<1>7. ASSUME NEW i \in 1..Len(p) PROVE p[i][2] = r[p[i][1]] \/ \E j \in i + 1..Len(p) : p[j][1] = p[i][1]
  <2>1. p[i] = q[i + 1] /\ i + 1 \in 1..Len(q)
    BY <1>3
  <2>2. CASE q[i + 1][2] = r[q[i + 1][1]]
    BY <2>1, <2>2
  <2>3. ASSUME NEW j \in (i + 1) + 1..Len(q), q[j][1] = q[i + 1][1]
        PROVE  \E k \in i + 1..Len(p) : p[k][1] = p[i][1]
    <3>1. j - 1 \in i + 1..Len(p) /\ j \in 2..Len(q)
      BY <1>1, <1>3
    <3> QED BY <1>4, <2>1, <2>3, <3>1
  <2> QED BY <2>1, <2>2, <2>3 DEF RightQueue
<1> QED BY <1>2, <1>3, <1>5, <1>6, <1>7 DEF RightQueue

\* One event: of whom (e), what (n), and what is to come without it (p).
Taken(q, p, e, n, r) ==
  /\ e \in Flows /\ n \in RowNames /\ (n = r[e] \/ Coming(p, e))
  /\ \A f \in Flows \ {e} : Coming(q, f) => Coming(p, f)

LEMMA TakenKeeps ==
  ASSUME NEW q, NEW p, NEW e, NEW n, NEW r, Taken(q, p, e, n, r), NEW x, NEW f \in Flows, NEW late, NEW now,
         Right(x, f, late, r, q), late \ {e} \subseteq now, f = e => e \in now \/ Says(x, n)
  PROVE  Right(x, f, now, r, p)
<1>1. x \in Shows /\ r[f] \in RowNames /\ (f \in late \/ Says(x, r[f]) \/ Coming(q, f))
  BY DEF Right
<1>2. CASE f = e
  BY <1>1, <1>2 DEF Right, Taken
<1>3. CASE f # e
  BY <1>1, <1>3 DEF Right, Taken
<1> QED BY <1>2, <1>3

\* A row changed by an event says what the event says.
LEMMA TableTold ==
  ASSUME NEW m, Apart, NEW q, NEW p, NEW e, NEW n, NEW r, Taken(q, p, e, n, r), NEW t, RightTable(t, r, q),
         NEW s \in Shows, Says(s, n)
  PROVE  RightTable(Execution(m)!Shown(t, e, s), r, p)
<1>0. Execution(m)!Absent = Absent /\ Absent \notin Shows /\ e \in Flows
  BY OneLanguage DEF Taken
<1>1. CASE t.items = None
  <2>1. Execution(m)!Shown(t, e, s) = t
    BY <1>1 DEF Execution!Shown
  <2>2. t.of = None
    BY <1>1 DEF RightTable, RightItems, Apart
  <2> QED BY <1>1, <2>1, <2>2 DEF RightTable
<1>2. CASE t.items # None /\ t.items[e] = Absent
  <2>1. Execution(m)!Shown(t, e, s) = t
    BY <1>0, <1>2 DEF Execution!Shown
  <2>2. RightItems(t.items, t.late, r, q)
    BY <1>2 DEF RightTable
  <2>3. \A f \in Flows : t.items[f] # Absent => Right(t.items[f], f, t.late, r, p)
    BY <1>2, <2>2, TakenKeeps DEF RightItems
  <2> QED BY <2>1, <2>2, <2>3 DEF RightTable, RightItems
<1>3. CASE t.items # None /\ t.items[e] # Absent
  <2> DEFINE a == [t.items EXCEPT ![e] = s]
             new == [t EXCEPT !.items = a, !.late = t.late \ {e}]
  <2>1. Execution(m)!Shown(t, e, s) = new
    <3>1. Execution(m)!Shown(t, e, s) = [t EXCEPT !.items[e] = s, !.late = @ \ {e}]
      BY <1>0, <1>3 DEF Execution!Shown
    <3>2. IsTable(t)
      BY DEF RightTable
    <3> QED BY <3>1, <3>2 DEF IsTable
  <2>2. RightItems(t.items, t.late, r, q) /\ IsTable(t) /\ t.items \in Items
    BY <1>3 DEF RightTable, RightItems
  <2>3. a \in Items /\ a[e] = s /\ \A f \in Flows \ {e} : a[f] = t.items[f]
    BY <1>0, <2>2 DEF Items, Shows, Execution!Items
  <2>4. IsTable(new) /\ new.items = a /\ new.late = t.late \ {e}
    BY <2>2 DEF IsTable
  <2> HIDE DEF a, new
  <2>5. Right(s, e, {}, r, p)
    <3>1. r[e] \in RowNames
      BY <1>0, <1>3, <2>2 DEF RightItems, Right
    <3> QED BY <3>1 DEF Right, Taken
  <2>6. ASSUME NEW f \in Flows, a[f] # Absent PROVE Right(a[f], f, t.late \ {e}, r, p)
    <3>1. CASE f = e
      BY <2>3, <2>5, <3>1 DEF Right
    <3>2. CASE f # e
      <4>1. Right(t.items[f], f, t.late, r, q)
        BY <2>2, <2>3, <2>6, <3>2 DEF RightItems
      <4> QED BY <2>3, <3>2, <4>1, TakenKeeps
    <3> QED BY <3>1, <3>2
  <2> QED BY <2>1, <2>3, <2>4, <2>6 DEF RightTable, RightItems
<1> QED BY <1>1, <1>2, <1>3

LEMMA DialogTold ==
  ASSUME NEW m, Apart, NEW q, NEW p, NEW e, NEW n, NEW r, Taken(q, p, e, n, r), NEW d, RightDialog(d, r, q),
         NEW s \in Shows, Says(s, n)
  PROVE  LET new == Execution(m)!DetailShown(d, e, s)
         IN  RightDialog(new, r, p) /\ new.open = d.open /\ new.loading = d.loading
<1>1. CASE d.open = e /\ d.status # None
  <2> DEFINE new == [d EXCEPT !.status = s, !.late = {}]
  <2>1. Execution(m)!DetailShown(d, e, s) = new
    BY <1>1 DEF Execution!DetailShown
  <2>2. IsDialog(new) /\ new.open = d.open /\ new.loading = d.loading /\ new.status = s /\ new.late = {}
    BY DEF RightDialog, IsDialog
  <2> HIDE DEF new
  <2>3. r[e] \in RowNames /\ e \in Flows
    BY <1>1 DEF RightDialog, Taken
  <2>4. Right(s, e, {}, r, p)
    BY <2>3 DEF Right, Taken
  <2> QED BY <1>1, <2>1, <2>2, <2>3, <2>4 DEF RightDialog
<1>2. CASE ~(d.open = e /\ d.status # None)
  <2>1. Execution(m)!DetailShown(d, e, s) = d
    BY <1>2 DEF Execution!DetailShown
  <2>2. d.status # None => d.open \in Flows /\ Right(d.status, d.open, d.late, r, q)
    BY DEF RightDialog
  <2>3. d.status # None => Right(d.status, d.open, d.late, r, p)
    BY <1>2, <2>2, TakenKeeps
  <2> QED BY <2>1, <2>2, <2>3 DEF RightDialog
<1> QED BY <1>1, <1>2

\* An answer on its way that says otherwise is marked.
LEMMA CallsTold ==
  ASSUME NEW m, Apart, ExecInv, NEW p, NEW e, NEW n, Taken(queue, p, e, n, running),
         NEW new, new = Execution(m)!Overtaken(e, n)
  PROVE  /\ RightCalls(new, execution.open, running, p)
         /\ \A d \in Calls : /\ new[d].kind = execCalls[d].kind /\ new[d].page = execCalls[d].page
                             /\ new[d].key = execCalls[d].key
<1> DEFINE marked(x) == [x EXCEPT !.late = x.late \cup {e}]
           said(x) == Execution(m)!Told(x, e)
           after(x) == IF said(x) = Absent \/ Says(said(x), n) THEN x ELSE marked(x)
<1>1. new = [d \in Calls |-> after(execCalls[d])]
  BY OneLanguage DEF Execution!Overtaken
<1>2. ASSUME NEW x, RightCall(x, execution.open, running, queue)
      PROVE  /\ IsCall(after(x)) /\ after(x).kind = x.kind /\ after(x).page = x.page /\ after(x).key = x.key
             /\ after(x).sent = x.sent /\ after(x).answer = x.answer /\ x.late \subseteq after(x).late
             /\ e \in after(x).late \/ said(x) = Absent \/ Says(said(x), n)
  BY <1>2 DEF RightCall, IsCall
<1>3. ASSUME NEW x, RightCall(x, execution.open, running, queue) PROVE RightCall(after(x), execution.open, running, p)
  <2> DEFINE y == after(x)
  <2>1. /\ IsCall(y) /\ y.kind = x.kind /\ y.page = x.page /\ y.key = x.key
        /\ y.sent = x.sent /\ y.answer = x.answer /\ x.late \subseteq y.late
        /\ e \in y.late \/ said(x) = Absent \/ Says(said(x), n)
    BY <1>2, <1>3
  <2> HIDE DEF y, after
  <2>2. ASSUME x.kind = "list", x.sent = "ok" PROVE RightItems(x.answer, y.late, running, p)
    <3>1. RightItems(x.answer, x.late, running, queue) /\ said(x) = x.answer[e]
      BY <1>3, <2>2 DEF RightCall, Execution!Told
    <3> HIDE DEF said
    <3>2. ASSUME NEW f \in Flows, x.answer[f] # Absent PROVE Right(x.answer[f], f, y.late, running, p)
      <4>1. Right(x.answer[f], f, x.late, running, queue)
        BY <3>1, <3>2 DEF RightItems
      <4> QED BY <2>1, <3>1, <3>2, <4>1, TakenKeeps
    <3> QED BY <3>1, <3>2 DEF RightItems
  <2>3. ASSUME x.kind = "detail", x.sent = "ok" PROVE Right(x.answer, x.key, y.late, running, p)
    <3>1. Right(x.answer, x.key, x.late, running, queue) /\ x.key \in Flows
      BY <1>3, <2>3 DEF RightCall
    <3>2. x.key = e => said(x) = x.answer /\ x.answer # Absent
      <4>1. x.answer # Absent
        BY <3>1, OneLanguage DEF Right
      <4> QED BY <2>3, <4>1 DEF Execution!Told
    <3> HIDE DEF said
    <3> QED BY <2>1, <3>1, <3>2, TakenKeeps
  <2> HIDE DEF said
  <2>4. RightCall(y, execution.open, running, p)
    BY <1>3, <2>1, <2>2, <2>3 DEF RightCall
  <2> QED BY <2>4 DEF y
<1> HIDE DEF after, said
<1>4. \A d \in Calls : RightCall(execCalls[d], execution.open, running, queue)
  BY DEF ExecInv, RightCalls
<1>5. /\ \A d \in Calls : RightCall(new[d], execution.open, running, p)
      /\ \A d \in Calls : /\ new[d].kind = execCalls[d].kind /\ new[d].page = execCalls[d].page
                          /\ new[d].key = execCalls[d].key
  BY <1>1, <1>2, <1>3, <1>4
<1>6. new = [d \in Calls |-> new[d]]
  BY <1>1
<1> QED BY <1>5, <1>6 DEF RightCalls

LEMMA ReceiveKeeps == ASSUME NEW m, Apart, ExecInv, NEW c \in Calls, Execution(m)!Receive(c) PROVE ExecInv'
<1> DEFINE e == Head(queue)[1]
           n == Head(queue)[2]
           s == Execution(m)!Heard(n)
<1>1. /\ queue # <<>> /\ queue' = Tail(queue) /\ execCalls[c].kind = "idle" /\ UNCHANGED running
      /\ execution' = Execution(m)!DetailShown(execution, e, s)
      /\ \/ table' = Execution(m)!Shown(table, e, s) /\ execCalls' = Execution(m)!Overtaken(e, n)
         \/ table' = Execution(m)!Loading(Execution(m)!Shown(table, e, s))
            /\ execCalls' = Execution(m)!Request(Execution(m)!Overtaken(e, n), c, "list", "table", table.filter)
  BY DEF Execution!Receive, Execution!Free
<1>2. Taken(queue, queue', e, n, running) /\ RightQueue(queue', running)
  <2>1. RightQueue(queue, running)
    BY DEF ExecInv
  <2> QED BY <1>1, <2>1, HeadIsRight DEF Taken
<1>3. s \in Shows /\ Says(s, n)
  BY <1>2, OneLanguage DEF Taken
<1> HIDE DEF e, n, s
<1>4. RightTable(table', running, queue')
  <2>1. RightTable(table, running, queue)
    BY DEF ExecInv
  <2>2. RightTable(Execution(m)!Shown(table, e, s), running, queue')
    BY <1>2, <1>3, <2>1, TableTold
  <2> QED BY <1>1, <2>2, TableShapes
<1>5. /\ RightDialog(execution', running, queue') /\ execution'.open = execution.open
      /\ execution'.loading = execution.loading
  <2>1. RightDialog(execution, running, queue)
    BY DEF ExecInv
  <2> QED BY <1>1, <1>2, <1>3, <2>1, DialogTold
<1>6. PICK marked :
        /\ marked = Execution(m)!Overtaken(e, n) /\ RightCalls(marked, execution.open, running, queue')
        /\ \A d \in Calls : marked[d].kind = execCalls[d].kind /\ marked[d].page = execCalls[d].page /\ marked[d].key = execCalls[d].key
  <2>1. \A marked : marked = Execution(m)!Overtaken(e, n) =>
          /\ RightCalls(marked, execution.open, running, queue')
          /\ \A d \in Calls : /\ marked[d].kind = execCalls[d].kind /\ marked[d].page = execCalls[d].page
                              /\ marked[d].key = execCalls[d].key
    BY <1>2, CallsTold
  <2> QED BY <2>1
<1>7. /\ RightCalls(execCalls', execution.open, running, queue')
      /\ \A d \in Calls \ {c} : execCalls'[d] = marked[d]
  <2>1. CASE execCalls' = marked
    BY <1>6, <2>1
  <2>2. CASE execCalls' = Execution(m)!Request(marked, c, "list", "table", table.filter)
    <3>1. Asked(m, execCalls', marked, c, "list", "table", table.filter)
      BY <2>2 DEF Asked
    <3>2. RightCalls(marked, execution.open, running, queue')
      BY <1>6
    <3>3. /\ RightCalls(execCalls', execution.open, running, queue')
          /\ \A d \in Calls \ {c} : execCalls'[d] = marked[d]
      BY <3>1, <3>2, RequestPlaced
    <3> QED BY <3>3
  <2> QED BY <1>1, <1>6, <2>1, <2>2
<1> QED BY <1>1, <1>2, <1>4, <1>5, <1>6, <1>7, DetailLeft

LEMMA ExecStep == ASSUME NEW m, Apart, ExecInv, Execution(m)!Next PROVE ExecInv'
<1>1. ASSUME NEW c \in Calls, NEW e \in Flows, Execution(m)!Open(c, e) PROVE ExecInv'
  <2>1. /\ execution.open \in {None, e} /\ Execution(m)!LoadExecutionDetails(c, e) /\ UNCHANGED <<running, queue, table>>
        /\ Execution(m)!TableShown /\ table.items[e] # Absent
    BY <1>1, OneLanguage DEF Execution!Open
  <2> QED BY <2>1, OpenKeeps, TableHolds
<1>2. ASSUME NEW c \in Calls,
             \/ Execution(m)!Mount(c) \/ Execution(m)!TryAgain(c)
             \/ \E f \in Execution(m)!Filters : Execution(m)!ChangeFilter(c, f)
             \/ \E e \in Flows, kind \in {"cancel", "retry"} : Execution(m)!TableButton(c, e, kind)
      PROVE  ExecInv'
  BY <1>2, TableSteps
<1>3. ASSUME NEW c \in Calls,
             \/ Execution(m)!Serve(c) \/ Execution(m)!ListAnswered(c) \/ Execution(m)!DetailAnswered(c)
             \/ Execution(m)!ButtonAnswered(c) \/ Execution(m)!Receive(c)
             \/ \E kind \in {"cancel", "retry"} : Execution(m)!DetailButton(c, kind)
      PROVE  ExecInv'
  BY <1>3, ServeKeeps, ListAnsweredKeeps, DetailAnsweredKeeps, ButtonAnsweredKeeps, ReceiveKeeps, DetailButtonKeeps
<1> QED BY <1>1, <1>2, <1>3, RunKeeps, CloseKeeps DEF Execution!Next

LEMMA ExecInit == ASSUME Apart, Execution({})!Init PROVE ExecInv
<1>1. running \in Rows
  BY DEF Execution!Init, Rows, RowNames, Absent, Execution!Names, Execution!Absent
<1>2. RightQueue(queue, running)
  BY DEF Execution!Init, RightQueue
<1>3. RightTable(table, running, queue)
  BY DEF Execution!Init, RightTable, IsTable
<1>4. RightDialog(execution, running, queue) /\ ~execution.loading
  BY DEF Execution!Init, Execution!Blank, RightDialog, IsDialog, Apart
<1>5. RightCalls(execCalls, execution.open, running, queue)
  BY IdleIsRight DEF Execution!Init, RightCalls
<1> QED BY <1>1, <1>2, <1>3, <1>4, <1>5 DEF ExecInv, Execution!LoadingIsUnderWay

LEMMA WorkflowInit == ASSUME Workflow!Init PROVE WorkflowInv
<1>1. PICK c \in Calls : calls = [d \in Calls |-> IF d = c THEN Workflow!Ask("list", "list", Workflow!Params(Workflow!Fresh), None)
                                                           ELSE Workflow!Idle]
  BY DEF Workflow!Init
<1>2. "list" \in Kinds
  BY DEF Kinds
<1>3. AreAsks(calls)
  BY <1>1, <1>2, AskShape, IdleShape DEF AreAsks
<1>4. calls[c].kind = "list" /\ calls[c].page = "list"
  BY <1>1, <1>2, AskShape
<1>5. Pages(list, detail, form) /\ ~detail.loading /\ ~form.saving
  BY PageShapes DEF Workflow!Init, Pages
<1> QED BY <1>3, <1>4, <1>5 DEF WorkflowInv, Workflow!BusyIsUnderWay

LEMMA SliceInit == ASSUME Slice!Init PROVE SliceInv
  BY DEF Slice!Init, SliceInv, Slice!LoadingIsUnderWay

LEMMA AnalyticsInit == ASSUME Analytics!Init PROVE AnalyticsInv
<1>1. loads = [c \in Fetches |-> Analytics!Idle] /\ page = Analytics!Closed
  BY DEF Analytics!Init
<1>2. IsLoad(Analytics!Idle) /\ IsTab(page) /\ page.tab = "history"
  BY <1>1 DEF IsLoad, IsTab, Analytics!Idle, Analytics!Closed
<1>3. Heard = {}
  BY <1>1 DEF Heard
<1> QED BY <1>1, <1>2, <1>3 DEF AnalyticsInv

LEMMA ExecShows == ASSUME ExecInv PROVE Execution({})!ShownIsTrue
<1>1. ASSUME NEW e \in Flows, \A i \in 1..Len(queue) : queue[i][1] # e, table.items # None, e \notin table.late,
             table.items[e] # Absent
      PROVE  Says(table.items[e], running[e])
  BY <1>1 DEF ExecInv, RightTable, RightItems, Right, Coming
<1>2. ASSUME NEW e \in Flows, \A i \in 1..Len(queue) : queue[i][1] # e, execution.open = e, execution.status # None,
             execution.late = {}
      PROVE  Says(execution.status, running[e])
  BY <1>2 DEF ExecInv, RightDialog, Right, Coming
<1> QED BY <1>1, <1>2 DEF Execution!ShownIsTrue, Says, Absent

-----------------------------------------------------------------------------
\* Every spinner of the pages has the call that ends it: while a list, a detail, the dialog
\* or the form of the session shows that it is busy, a call is under way whose answer, or
\* failure, is told to that page, whatever the user clicked, closed or opened meanwhile and
\* however the server answers.
THEOREM SpinnersHaveCalls == ASSUME PagesAssumptions PROVE PartsSpec => []SpinnersAreUnderWay
<1> DEFINE Inv == WorkflowInv /\ ExecInv /\ AnalyticsInv /\ SliceInv
<1>0. Apart
  BY PagesAssumptions, NoneIsApart DEF ExecutionParts
<1>1. PartsInit => Inv
  <2>1. PartsInit => WorkflowInv
    BY WorkflowInit DEF PartsInit
  <2>2. PartsInit => ExecInv
    BY <1>0, ExecInit DEF PartsInit
  <2>3. PartsInit => AnalyticsInv
    BY AnalyticsInit DEF PartsInit
  <2>4. PartsInit => SliceInv
    BY SliceInit DEF PartsInit
  <2> QED BY <2>1, <2>2, <2>3, <2>4
<1>2. Inv /\ [PartsNext]_pageVars => Inv'
  <2> SUFFICES ASSUME Inv, [PartsNext]_pageVars PROVE Inv'
    OBVIOUS
  <2>1. WorkflowInv'
    <3>1. (Workflow!Next \/ WorkflowAsIs!Next) \/ UNCHANGED workflowVars
      BY DEF PartsNext, pageVars
    <3>2. CASE UNCHANGED workflowVars
      BY <3>2 DEF workflowVars, WorkflowInv, Workflow!BusyIsUnderWay
    <3> QED BY <3>1, <3>2, WorkflowStep
  <2>2. ExecInv'
    <3>1. (\E p \in DOMAIN ExecutionParts : Execution(ExecutionParts[p])!Next) \/ UNCHANGED executionVars
      BY DEF PartsNext, pageVars
    <3>2. CASE UNCHANGED executionVars
      BY <3>2 DEF executionVars, ExecInv, Execution!LoadingIsUnderWay
    <3> QED BY <1>0, <3>1, <3>2, ExecStep
  <2>3. AnalyticsInv'
    <3>1. (Analytics!Next \/ AnalyticsAsIs!Next) \/ UNCHANGED analyticsVars
      BY DEF PartsNext, pageVars
    <3>2. CASE UNCHANGED analyticsVars
      BY <3>2 DEF analyticsVars, AnalyticsInv, Heard
    <3> QED BY <3>1, <3>2, AnalyticsStep
  <2>4. SliceInv'
    <3>1. Slice!Next \/ UNCHANGED sliceVars
      BY DEF PartsNext, pageVars
    <3>2. CASE UNCHANGED sliceVars
      BY <3>2 DEF sliceVars, SliceInv, Slice!LoadingIsUnderWay
    <3> QED BY <3>1, <3>2, SliceStep
  <2> QED BY <2>1, <2>2, <2>3, <2>4
<1>3. Inv => SpinnersAreUnderWay
  BY AnalyticsLoads DEF WorkflowInv, ExecInv, SliceInv, SpinnersAreUnderWay
<1> QED BY <1>1, <1>2, <1>3, PTL DEF PartsSpec, pageVars

\* Once the events of an execution have come, the table and the detail show its status, but for
\* an answer that one of them overtook: in whichever order answers and events came, joined or
\* not, whatever the callbacks wrote, and whether or not the server lists and spells as the
\* client's types say.
THEOREM ShownAreTrue == ASSUME PagesAssumptions PROVE PartsSpec => []ShownIsTrue
<1>0. Apart
  BY PagesAssumptions, NoneIsApart DEF ExecutionParts
<1>1. PartsInit => ExecInv
  BY <1>0, ExecInit DEF PartsInit
<1>2. ExecInv /\ [PartsNext]_pageVars => ExecInv'
  <2> SUFFICES ASSUME ExecInv, [PartsNext]_pageVars PROVE ExecInv'
    OBVIOUS
  <2>1. (\E p \in DOMAIN ExecutionParts : Execution(ExecutionParts[p])!Next) \/ UNCHANGED executionVars
    BY DEF PartsNext, pageVars
  <2>2. CASE UNCHANGED executionVars
    BY <2>2 DEF executionVars, ExecInv, Execution!LoadingIsUnderWay
  <2> QED BY <1>0, <2>1, <2>2, ExecStep
<1>3. ExecInv => ShownIsTrue
  BY ExecShows DEF ShownIsTrue
<1> QED BY <1>1, <1>2, <1>3, PTL DEF PartsSpec, pageVars

-----------------------------------------------------------------------------
(***************************************************************************)
(* Errors: who waits for another attempt has one left.                     *)
(***************************************************************************)

ErrorsInv ==
  /\ attempt \in 1..MaxRetries + 1
  /\ delay > 0 => attempt <= MaxRetries
  /\ outcome = "pending" => caller \in {"page", "withRetry", "queue"}
  /\ Errors!PatienceKept

\* Both who can wait take what may pass for what may be tried again.
LEMMA PassingIsRetried ==
  ASSUME NEW f \in Errors!Faults, caller \in {"withRetry", "queue"}, Errors!Passing(f)
  PROVE  Errors!Retried(f)
<1>1. f \in {0, 408, 500, 502, 503, 504}
  BY DEF Errors!Passing, Errors!Network, Errors!Timeout
<1>2. Errors!IsRetryable(Errors!Handle(f))
  <2>1. f \in {408, 500, 502, 503, 504} => Errors!Handle(f).status = f
    BY DEF Errors!Handle, Errors!Network, Errors!Timeout
  <2>2. f = 0 => Errors!Handle(f).code = "NETWORK_ERROR"
    BY DEF Errors!Handle, Errors!Network, Errors!Timeout
  <2> QED BY <1>1, <2>1, <2>2 DEF Errors!IsRetryable
<1>3. Errors!QueueRetries(f)
  BY <1>1 DEF Errors!QueueRetries, Errors!TransformError, Errors!Network, Errors!Timeout
<1> QED BY <1>2, <1>3 DEF Errors!Retried, Errors!Handled

LEMMA StatusIsFault ==
  ASSUME NEW t \in Errors!Thrown
  PROVE  /\ Errors!Status(t) \in Errors!Faults
         /\ Errors!Status(t) = 401 <=> t \in {"app401", "jwt", "expired"}
  BY DEF Errors!Thrown, Errors!Status, Errors!Faults

LEMMA MeetErrorsInv == ASSUME ErrorsInv, NEW f \in Errors!Faults, Errors!Meet(f), MaxRetries \in Nat PROVE ErrorsInv'
<1>1. outcome = "pending" /\ delay = 0 /\ fault' = f /\ UNCHANGED <<caller, attempt>>
  BY DEF Errors!Meet
<1>2. CASE Errors!Retried(f) /\ attempt <= MaxRetries
  BY <1>1, <1>2 DEF Errors!Meet, ErrorsInv, Errors!PatienceKept
<1>3. CASE ~(Errors!Retried(f) /\ attempt <= MaxRetries)
  <2>1. outcome' = "failed" /\ delay' = 0
    BY <1>1, <1>3 DEF Errors!Meet
  <2>2. caller # "page" /\ Errors!Passing(f) => attempt = MaxRetries + 1
    BY <1>1, <1>3, PassingIsRetried DEF ErrorsInv
  <2>3. Errors!PatienceKept'
    BY <1>1, <2>2 DEF Errors!PatienceKept, Errors!Passing
  <2> QED BY <1>1, <2>1, <2>3 DEF ErrorsInv
<1> QED BY <1>2, <1>3

LEMMA NextErrorsInv == ASSUME ErrorsInv, Errors!Next, MaxRetries \in Nat PROVE ErrorsInv'
<1>1. ASSUME NEW k \in {"page", "withRetry", "queue"}, Errors!Call(k) PROVE ErrorsInv'
  BY <1>1 DEF Errors!Call, ErrorsInv, Errors!PatienceKept
<1>2. ASSUME NEW t \in Errors!Thrown, Errors!Answered(t) PROVE ErrorsInv'
  BY <1>2, StatusIsFault, MeetErrorsInv DEF Errors!Answered
<1>3. ASSUME NEW f \in Errors!Faults, Errors!Lost(f) PROVE ErrorsInv'
  BY <1>3, MeetErrorsInv DEF Errors!Lost
<1>4. CASE Errors!Done
  BY <1>4 DEF Errors!Done, ErrorsInv, Errors!PatienceKept
<1>5. CASE Errors!TryAgain
  BY <1>5 DEF Errors!TryAgain, ErrorsInv, Errors!PatienceKept
<1> QED BY <1>1, <1>2, <1>3, <1>4, <1>5 DEF Errors!Next

\* handleExecutionError and withRetry try again what may pass while attempts are left, and the
\* session ends by the errors of authentication and only by those, for any number of retries.
THEOREM ErrorsAreJudged == ASSUME PagesAssumptions PROVE PartsSpec => ErrorsJudged
<1>0. MaxRetries \in Nat
  BY PagesAssumptions DEF Errors!ErrorAssumption
<1>1. PartsInit => ErrorsInv
  BY <1>0 DEF PartsInit, Errors!Init, ErrorsInv, Errors!PatienceKept
<1>2. ErrorsInv /\ [PartsNext]_pageVars => ErrorsInv'
  <2> SUFFICES ASSUME ErrorsInv, [PartsNext]_pageVars PROVE ErrorsInv'
    OBVIOUS
  <2>1. Errors!Next \/ UNCHANGED errorVars
    BY DEF PartsNext, pageVars
  <2>2. CASE UNCHANGED errorVars
    BY <2>2 DEF errorVars, ErrorsInv, Errors!PatienceKept, Errors!Passing
  <2> QED BY <1>0, <2>1, <2>2, NextErrorsInv
<1>3. ErrorsInv => Errors!PatienceKept
  BY DEF ErrorsInv
<1>4. [PartsNext]_pageVars =>
        [\A t \in Errors!Thrown :
           Errors!Answered(t) => (cleared' <=> (cleared \/ t \in {"app401", "jwt", "expired"}))]_(Errors!vars)
  <2> SUFFICES ASSUME NEW t \in Errors!Thrown, Errors!Answered(t)
               PROVE  cleared' <=> (cleared \/ t \in {"app401", "jwt", "expired"})
    OBVIOUS
  <2>1. cleared' = (cleared \/ Errors!Seen(Errors!Status(t))) /\ caller # "queue"
    BY DEF Errors!Answered, Errors!Meet
  <2>2. Errors!Seen(Errors!Status(t)) <=> t \in {"app401", "jwt", "expired"}
    BY <2>1, StatusIsFault DEF Errors!Seen
  <2> QED BY <2>1, <2>2
<1> QED BY <1>1, <1>2, <1>3, <1>4, PTL DEF PartsSpec, pageVars, ErrorsJudged, Errors!ErrorsJudged, Errors!OnlyAuthEnds

=============================================================================
