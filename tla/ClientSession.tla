----------------------------- MODULE ClientSession -----------------------------
(***************************************************************************)
(* The session in the browser: the token pair in localStorage, shared by   *)
(* all tabs; AuthContext of each tab, with its check at mount, login,      *)
(* register and logout; and the calls of workflow.service that refresh the *)
(* pair on their own.  A pair is the number of the sign-in or refresh that *)
(* made it; the server exchanges each refresh token once (RefreshTokens).  *)
(***************************************************************************)
EXTENDS Naturals, FiniteSets

CONSTANTS
  Users, NoUser, Tabs,
  Lists,      \* calls of getWorkflows a tab may have under way
  MaxPairs, MaxReloads,   \* bounds: pairs made, tabs reloaded
  Nested,     \* the answer to a login holds its tokens under "tokens"
  HasMe       \* the server has a route for /auth/me

SessionAssumption ==
  NoUser \notin Users /\ "main" \notin Lists /\ {MaxPairs, MaxReloads} \subseteq Nat /\ {Nested, HasMe} \subseteq BOOLEAN

VARIABLES
  held,   \* the pair in localStorage, 0 when there is none
  owner,  \* whose each pair is
  live,   \* pairs whose refresh token the server takes
  made,   \* pairs made so far
  auth,   \* AuthContext of each tab
  task,   \* what each asynchronous function of a tab awaits
  lost,   \* pairs exchanged by a refresh whose answer a reload has lost
  reloads

vars == <<held, owner, live, made, auth, task, lost, reloads>>
server == <<owner, live, made>>
history == <<lost, reloads>>

Tasks == Tabs \X ({"main"} \cup Lists)
Refreshing == {"meRefresh", "checkRefresh", "listRefresh"}
Asking == {"me", "meAgain", "list", "listAgain", "signIn"} \cup Refreshing
Answers == {"none", "ok", "bare401", "refused", "failed"}

Idle == [pc |-> "idle", sent |-> 0, second |-> FALSE, user |-> NoUser, answer |-> "none", pair |-> 0]

TypeOK ==
  /\ held \in 0..MaxPairs /\ made \in 0..MaxPairs /\ live \subseteq 1..made
  /\ owner \in [1..MaxPairs -> Users \cup {NoUser}]
  /\ auth \in [Tabs -> [user : Users \cup {NoUser}, loading : BOOLEAN, error : BOOLEAN]]
  /\ task \in [Tasks -> [pc : Asking \cup {"unmounted", "idle"}, sent : 0..MaxPairs, second : BOOLEAN,
                         user : Users \cup {NoUser}, answer : Answers, pair : 0..MaxPairs]]
  /\ lost \subseteq 1..made /\ reloads \in 0..MaxReloads

Init ==
  /\ held = 0 /\ live = {} /\ made = 0 /\ lost = {} /\ reloads = 0
  /\ owner = [p \in 1..MaxPairs |-> NoUser]
  /\ auth = [tab \in Tabs |-> [user |-> NoUser, loading |-> TRUE, error |-> FALSE]]
  /\ task = [t \in Tasks |-> [Idle EXCEPT !.pc = IF t[2] = "main" THEN "unmounted" ELSE "idle"]]

\* authReducer.
AUTH_START(a) == [a EXCEPT !.loading = TRUE, !.error = FALSE]
AUTH_SUCCESS(a, u) == [user |-> u, loading |-> FALSE, error |-> FALSE]
AUTH_ERROR(a) == [user |-> NoUser, loading |-> FALSE, error |-> TRUE]

AUTH_LOGOUT(a) == [user |-> NoUser, loading |-> FALSE, error |-> FALSE]

Dispatch(tab, a) == auth' = [auth EXCEPT ![tab] = a]

SignedIn(tab) == auth[tab].user # NoUser
Ask(t, pc) == task' = [task EXCEPT ![t].pc = pc, ![t].sent = held, ![t].answer = "none"]
Finish(t) == task' = [task EXCEPT ![t] = Idle]
Answered(t, pc) == task[t].pc = pc /\ task[t].answer # "none"
Ok(t) == task[t].answer = "ok"

\* The server has seen the refresh; its answer has not arrived.
Exchanged(t) == task[t].pc \in Refreshing /\ task[t].answer # "none"

-----------------------------------------------------------------------------
\* The server and the network.

\* A pair for user u; the one it is exchanged for is used up.
Make(u, old) ==
  /\ made < MaxPairs /\ made' = made + 1
  /\ live' = (live \ {old}) \cup {made'}
  /\ owner' = [owner EXCEPT ![made'] = u]

Answer(t, answer, pair) == task' = [task EXCEPT ![t].answer = answer, ![t].pair = pair]

Serve(t) ==
  LET r == task[t]
  IN /\ r.pc \in Asking /\ r.answer = "none"
     /\ \/ Answer(t, "failed", 0) /\ UNCHANGED server
        \/ /\ r.pc \in Refreshing
           /\ \/ r.sent \in live /\ Make(owner[r.sent], r.sent)
                 /\ (Answer(t, "ok", made') \/ Answer(t, "failed", 0))
              \/ r.sent \notin live /\ Answer(t, "refused", 0) /\ UNCHANGED server
        \/ /\ r.pc = "signIn"
           /\ \/ Make(r.user, 0) /\ (Answer(t, "ok", made') \/ Answer(t, "failed", 0))
              \/ Answer(t, "refused", 0) /\ UNCHANGED server
        \/ /\ r.pc \in {"me", "meAgain"}
           /\ IF HasMe THEN \E a \in {"ok", "bare401", "refused"} : Answer(t, a, 0)
                       ELSE Answer(t, "refused", 0)
           /\ UNCHANGED <<server, history>>
        \/ /\ r.pc \in {"list", "listAgain"}
           /\ \E a \in {"ok", "refused"} : Answer(t, a, 0)
           /\ UNCHANGED <<server, history>>
     /\ UNCHANGED <<held, auth, history>>

-----------------------------------------------------------------------------
\* AuthProvider's check at mount.  getCurrentUser refreshes on its own after an error that
\* mentions 401, which only an answer without a message of the server does; whatever it
\* throws, the check refreshes once and asks once more.

Mount(tab) ==
  LET t == <<tab, "main">>
  IN /\ task[t].pc = "unmounted"
     /\ IF held = 0
        THEN Dispatch(tab, AUTH_LOGOUT(auth[tab])) /\ Finish(t)
        ELSE Dispatch(tab, AUTH_START(auth[tab])) /\ Ask(t, "me")
     /\ UNCHANGED <<held, server, history>>

GiveUp(t) ==
  /\ held' = 0
  /\ Dispatch(t[1], AUTH_LOGOUT(auth[t[1]]))
  /\ Finish(t)

\* getCurrentUser threw.
Caught(t) ==
  IF task[t].second \/ held = 0
  THEN GiveUp(t)
  ELSE Ask(t, "checkRefresh") /\ UNCHANGED <<held, auth>>

MeAnswered(tab) ==
  LET t == <<tab, "main">>
  IN /\ Answered(t, "me")
     /\ IF Ok(t)
        THEN Dispatch(tab, AUTH_SUCCESS(auth[tab], owner[task[t].sent])) /\ Finish(t) /\ UNCHANGED held
        ELSE IF task[t].answer = "bare401" /\ held # 0
        THEN Ask(t, "meRefresh") /\ UNCHANGED <<held, auth>>
        ELSE Caught(t)
     /\ UNCHANGED <<server, history>>

\* A failure of either clears the pair, and the check gives up.
MeRefreshed(tab) ==
  LET t == <<tab, "main">>
  IN /\ Answered(t, "meRefresh")
     /\ IF Ok(t)
        THEN /\ held' = task[t].pair
             /\ task' = [task EXCEPT ![t].pc = "meAgain", ![t].sent = held', ![t].answer = "none"]
             /\ UNCHANGED auth
        ELSE GiveUp(t)
     /\ UNCHANGED <<server, history>>

MeAskedAgain(tab) ==
  LET t == <<tab, "main">>
  IN /\ Answered(t, "meAgain")
     /\ IF Ok(t)
        THEN Dispatch(tab, AUTH_SUCCESS(auth[tab], owner[task[t].sent])) /\ Finish(t) /\ UNCHANGED held
        ELSE GiveUp(t)
     /\ UNCHANGED <<server, history>>

CheckRefreshed(tab) ==
  LET t == <<tab, "main">>
  IN /\ Answered(t, "checkRefresh")
     /\ IF Ok(t)
        THEN /\ held' = task[t].pair
             /\ task' = [task EXCEPT ![t].pc = "me", ![t].sent = held', ![t].answer = "none",
                                     ![t].second = TRUE]
             /\ UNCHANGED auth
        ELSE GiveUp(t)
     /\ UNCHANGED <<server, history>>

-----------------------------------------------------------------------------
\* The login and register pages, whose button is disabled while the context is loading.

SignIn(tab, u) ==
  LET t == <<tab, "main">>
  IN /\ task[t].pc = "idle" /\ ~SignedIn(tab) /\ ~auth[tab].loading
     /\ Dispatch(tab, AUTH_START(auth[tab]))
     /\ task' = [task EXCEPT ![t].pc = "signIn", ![t].user = u, ![t].answer = "none"]
     /\ UNCHANGED <<held, server, history>>

\* setTokens(response.tokens) throws when the answer has no "tokens".
SignInAnswered(tab) ==
  LET t == <<tab, "main">>
  IN /\ Answered(t, "signIn")
     /\ IF Ok(t) /\ Nested
        THEN held' = task[t].pair /\ Dispatch(tab, AUTH_SUCCESS(auth[tab], task[t].user))
        ELSE UNCHANGED held /\ Dispatch(tab, AUTH_ERROR(auth[tab]))
     /\ Finish(t)
     /\ UNCHANGED <<server, history>>

\* clearError of the context is a new function at every render, so the effect of the page
\* runs after every render, not only at mount.
ClearErrorEffect(tab) ==
  /\ task[<<tab, "main">>].pc = "idle" /\ ~SignedIn(tab) /\ auth[tab].error
  /\ Dispatch(tab, [auth[tab] EXCEPT !.error = FALSE])
  /\ UNCHANGED <<held, server, task, history>>

Logout(tab) ==
  /\ SignedIn(tab) /\ ~auth[tab].loading
  /\ held' = 0
  /\ Dispatch(tab, AUTH_LOGOUT(auth[tab]))
  /\ UNCHANGED <<server, task, history>>

-----------------------------------------------------------------------------
\* getWorkflows of a page behind ProtectedRoute: without a pair it throws at once.

List(t) ==
  /\ t[2] # "main" /\ task[t].pc = "idle" /\ SignedIn(t[1]) /\ ~auth[t[1]].loading /\ held # 0
  /\ Ask(t, "list")
  /\ UNCHANGED <<held, server, auth, history>>

\* Mutant: a refresh that fails leaves the used pair in place.
MutantDropped == held' = held

\* clearTokens; the context of the tab is not told.
Dropped == held' = 0

ListAnswered(t) ==
  /\ Answered(t, "list")
  /\ \/ task[t].answer = "refused" /\ held # 0 /\ Ask(t, "listRefresh") /\ UNCHANGED held
     \/ task[t].answer = "refused" /\ held = 0 /\ Finish(t) /\ Dropped
     \/ task[t].answer # "refused" /\ Finish(t) /\ UNCHANGED held
  /\ UNCHANGED <<server, auth, history>>

ListRefreshed(t) ==
  /\ Answered(t, "listRefresh")
  /\ IF Ok(t)
     THEN /\ held' = task[t].pair
          /\ task' = [task EXCEPT ![t].pc = "listAgain", ![t].sent = held', ![t].answer = "none"]
     ELSE Dropped /\ Finish(t)
  /\ UNCHANGED <<server, auth, history>>

ListAskedAgain(t) ==
  /\ Answered(t, "listAgain")
  /\ IF Ok(t) THEN UNCHANGED held ELSE Dropped
  /\ Finish(t)
  /\ UNCHANGED <<server, auth, history>>

\* The tab is closed or reloaded; what it awaited is lost.
Reload(tab) ==
  /\ task[<<tab, "main">>].pc # "unmounted" /\ reloads < MaxReloads /\ reloads' = reloads + 1
  /\ Dispatch(tab, [user |-> NoUser, loading |-> TRUE, error |-> FALSE])
  /\ task' = [t \in Tasks |-> IF t[1] # tab THEN task[t]
                              ELSE [Idle EXCEPT !.pc = IF t[2] = "main" THEN "unmounted" ELSE "idle"]]
  /\ lost' = lost \cup {task[t].sent : t \in {t \in Tasks : t[1] = tab /\ Exchanged(t)}}
  /\ UNCHANGED <<held, server>>

MainStep(tab) ==
  \/ Mount(tab) \/ MeAnswered(tab) \/ MeRefreshed(tab) \/ MeAskedAgain(tab)
  \/ CheckRefreshed(tab) \/ SignInAnswered(tab)

Next ==
  \/ \E t \in Tasks : Serve(t) \/ List(t) \/ ListAnswered(t) \/ ListRefreshed(t) \/ ListAskedAgain(t)
  \/ \E tab \in Tabs :
       \/ MainStep(tab) \/ ClearErrorEffect(tab) \/ Logout(tab) \/ Reload(tab)
       \/ \E u \in Users : SignIn(tab, u)

Spec == Init /\ [][Next]_vars

\* fetch settles in the end, and a tab runs what it wakes.
FairSpec ==
  /\ Spec
  /\ \A tab \in Tabs : WF_vars(Serve(<<tab, "main">>)) /\ WF_vars(MainStep(tab))

-----------------------------------------------------------------------------
\* A tab never goes on with a pair whose refresh token is used up, unless the answer to
\* the refresh that used it is still awaited, or a reload has lost it.
HeldIsUnused ==
  held # 0 /\ held \notin live => held \in lost \/ \E t \in Tasks : Exchanged(t) /\ task[t].sent = held

\* The loading state ends: with a user, an error or the login page.
LoadingEnds == \A tab \in Tabs : auth[tab].loading ~> ~auth[tab].loading
=============================================================================
