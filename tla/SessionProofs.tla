------------------------------ MODULE SessionProofs ------------------------------
(***************************************************************************)
(* Proofs about who is signed in and who is told what, for all sets of     *)
(* users, tabs, sockets and executions: the pair of tokens a browser holds *)
(* (ClientSession, here Browser, and BrowserAsIs against the server of     *)
(* this repository).                                                       *)
(*                                                                         *)
(* That the pair held is not used up needs one thing about the answers on  *)
(* their way: the pair in one is new, nobody holds it, has sent it, or     *)
(* gets it in another answer.                                              *)
(***************************************************************************)
EXTENDS MCSessions, RefreshTokensProofs, SequenceTheorems

TabsNext == Browser!Next \/ BrowserAsIs!Next

-----------------------------------------------------------------------------
(***************************************************************************)
(* The invariant of the tabs.                                              *)
(***************************************************************************)

\* The answer to t brings a pair.
Brings(t) == task[t].pc \in Browser!Refreshing \cup {"signIn"} /\ task[t].answer = "ok"

\* A pair is made before it is held, sent or brought.
PairsAreMade ==
  /\ held \in 0..made
  /\ \A t \in Browser!Tasks :
       /\ task[t].sent \in 0..made /\ task[t].pair \in 0..made
       /\ task[t].pc \in Browser!Asking \ {"signIn"} => task[t].sent # 0

\* What an answer brings is new: still to be taken, and known to nobody.
PairsAreNew ==
  \A t \in Browser!Tasks : Brings(t) =>
    /\ task[t].pair \in live /\ task[t].pair # held
    /\ \A u \in Browser!Tasks : task[u].sent # task[t].pair /\ (Brings(u) /\ u # t => task[u].pair # task[t].pair)

TabsInv == Browser!TypeOK /\ PairsAreMade /\ PairsAreNew /\ Browser!HeldIsUnused

-----------------------------------------------------------------------------
(***************************************************************************)
(* The steps of the tabs, by what they do to the pairs.                    *)
(***************************************************************************)

TaskTypes ==
  [pc : Browser!Asking \cup {"unmounted", "idle"}, sent : 0..MaxPairs, second : BOOLEAN,
   user : Users \cup {NoUser}, answer : Browser!Answers, pair : 0..MaxPairs]

AuthTypes == [user : Users \cup {NoUser}, loading : BOOLEAN, error : BOOLEAN]

\* The server answers without a new pair.
Refuses(t) ==
  /\ task[t].answer = "none"
  /\ \E a \in Browser!Answers \ {"none"} :
       /\ a = "ok" => task[t].pc \notin Browser!Refreshing \cup {"signIn"}
       /\ Browser!Answer(t, a, 0)
  /\ UNCHANGED <<held, pairOwner, live, made, lost>>

\* The server makes a pair, for the one that was sent or for a password.
Exchanges(t) ==
  /\ task[t].pc \in Browser!Refreshing \cup {"signIn"} /\ task[t].answer = "none"
  /\ \E u \in Users \cup {NoUser}, old \in 0..made :
       /\ old # 0 => task[t].pc \in Browser!Refreshing /\ old = task[t].sent
       /\ Browser!Make(u, old)
  /\ Browser!Answer(t, "ok", made') \/ Browser!Answer(t, "failed", 0)
  /\ UNCHANGED <<held, lost>>

\* The tab goes on with another request, or with none.
GoesOn(t) ==
  /\ \E r \in TaskTypes :
       /\ task' = [task EXCEPT ![t] = r]
       /\ r.answer = "none" /\ r.sent \in {0, task[t].sent, held'} /\ r.pair \in {0, task[t].pair}
       /\ r.pc \in Browser!Asking \ {"signIn"} => r.sent # 0
  /\ \/ held' = held /\ ~Browser!Exchanged(t)
     \/ held' = 0
     \/ held' = task[t].pair /\ Brings(t)
  /\ UNCHANGED <<pairOwner, live, made, lost>>

\* Nothing but the pair held may go.
Drops == held' \in {0, held} /\ UNCHANGED <<pairOwner, live, made, task, lost>>

Typing == Browser!TypeOK /\ PairsAreMade /\ PairsAreNew

LEMMA TypeParts ==
  ASSUME PartsAssumptions
  PROVE  Browser!TypeOK <=>
           /\ held \in 0..MaxPairs /\ made \in 0..MaxPairs /\ live \subseteq 1..made
           /\ pairOwner \in [1..MaxPairs -> Users \cup {NoUser}]
           /\ auth \in [Tabs -> AuthTypes] /\ task \in [Browser!Tasks -> TaskTypes]
           /\ lost \subseteq 1..made /\ reloads \in 0..MaxReloads
  BY DEF Browser!TypeOK, AuthTypes, TaskTypes

\* What a task records when it asks for something, or for nothing any more.
LEMMA NextRecords ==
  ASSUME PartsAssumptions, Typing, NEW t \in Browser!Tasks,
         NEW h \in 0..made, NEW pc \in Browser!Asking
  PROVE  /\ Browser!Idle \in TaskTypes /\ [Browser!Idle EXCEPT !.pc = "unmounted"] \in TaskTypes
         /\ [task[t] EXCEPT !.pc = pc, !.sent = h, !.answer = "none"] \in TaskTypes
         /\ [task[t] EXCEPT !.pc = pc, !.sent = h, !.answer = "none", !.second = TRUE] \in TaskTypes
         /\ \A u \in Users : [task[t] EXCEPT !.pc = pc, !.user = u, !.answer = "none"] \in TaskTypes
<1>1. task[t] \in TaskTypes /\ h \in 0..MaxPairs /\ 0 \in 0..MaxPairs
  <2>1. MaxPairs \in Nat /\ made \in 0..MaxPairs /\ task \in [Browser!Tasks -> TaskTypes]
    BY TypeParts DEF Typing, PartsAssumptions, Browser!SessionAssumption
  <2> QED BY <2>1
<1> QED BY <1>1 DEF TaskTypes, Browser!Idle, Browser!Answers, Browser!Asking
LEMMA Asked ==
  ASSUME PartsAssumptions, Typing, NEW t \in Browser!Tasks, NEW pc \in Browser!Asking,
         Browser!Ask(t, pc), held # 0, ~Browser!Exchanged(t), UNCHANGED <<held, pairOwner, live, made, lost>>
  PROVE  GoesOn(t)
<1>1. [task[t] EXCEPT !.pc = pc, !.sent = held, !.answer = "none"] \in TaskTypes
  BY NextRecords DEF Typing, PairsAreMade
<1>2. task[t] \in TaskTypes
  BY TypeParts DEF Typing
<1>3. task' = [task EXCEPT ![t] = [task[t] EXCEPT !.pc = pc, !.sent = held, !.answer = "none"]]
  BY DEF Browser!Ask
<1> QED BY <1>1, <1>2, <1>3 DEF GoesOn, TaskTypes

LEMMA Finished ==
  ASSUME PartsAssumptions, Typing, NEW t \in Browser!Tasks, Browser!Finish(t),
         \/ held' = held /\ ~Browser!Exchanged(t)
         \/ held' = 0
         \/ held' = task[t].pair /\ Brings(t),
         UNCHANGED <<pairOwner, live, made, lost>>
  PROVE  GoesOn(t)
<1>1. Browser!Idle \in TaskTypes
  BY NextRecords DEF Typing, PairsAreMade, Browser!Asking
<1> QED BY <1>1 DEF GoesOn, Browser!Finish, Browser!Idle, Browser!Asking, Browser!Refreshing
\* Serve, with or without a route for /auth/me.
LEMMA Served ==
  ASSUME PartsAssumptions, Typing, NEW t \in Browser!Tasks, Browser!Serve(t) \/ BrowserAsIs!Serve(t)
  PROVE  (Refuses(t) \/ Exchanges(t)) /\ UNCHANGED <<auth, reloads>>
<1>1. /\ task[t].pc \in Browser!Asking /\ task[t].answer = "none"
      /\ UNCHANGED <<held, auth, lost, reloads>>
      /\ \/ Browser!Answer(t, "failed", 0) /\ UNCHANGED <<pairOwner, live, made>>
         \/ /\ task[t].pc \in Browser!Refreshing
            /\ \/ /\ task[t].sent \in live /\ Browser!Make(pairOwner[task[t].sent], task[t].sent)
                  /\ Browser!Answer(t, "ok", made') \/ Browser!Answer(t, "failed", 0)
               \/ Browser!Answer(t, "refused", 0) /\ UNCHANGED <<pairOwner, live, made>>
         \/ /\ task[t].pc = "signIn"
            /\ \/ /\ Browser!Make(task[t].user, 0)
                  /\ Browser!Answer(t, "ok", made') \/ Browser!Answer(t, "failed", 0)
               \/ Browser!Answer(t, "refused", 0) /\ UNCHANGED <<pairOwner, live, made>>
         \/ /\ task[t].pc \in {"me", "meAgain", "list", "listAgain"}
            /\ \E a \in {"ok", "bare401", "refused"} : Browser!Answer(t, a, 0)
            /\ UNCHANGED <<pairOwner, live, made>>
  <2>1. CASE Browser!Serve(t)
    BY <2>1 DEF Browser!Serve, Browser!server, Browser!history
  <2>2. CASE BrowserAsIs!Serve(t)
    BY <2>2 DEF BrowserAsIs!Serve, BrowserAsIs!server, BrowserAsIs!history, Browser!Asking, Browser!Refreshing,
         Browser!Answer, Browser!Make, BrowserAsIs!Asking, BrowserAsIs!Refreshing, BrowserAsIs!Answer,
         BrowserAsIs!Make
  <2> QED BY <2>1, <2>2
<1>2. CASE /\ \E a \in Browser!Answers \ {"none"} :
                /\ a = "ok" => task[t].pc \notin Browser!Refreshing \cup {"signIn"}
                /\ Browser!Answer(t, a, 0)
           /\ UNCHANGED <<pairOwner, live, made>>
  BY <1>1, <1>2 DEF Refuses
<1>3. CASE /\ task[t].pc \in Browser!Refreshing /\ task[t].sent \in live
           /\ Browser!Make(pairOwner[task[t].sent], task[t].sent)
           /\ Browser!Answer(t, "ok", made') \/ Browser!Answer(t, "failed", 0)
  <2>1. pairOwner[task[t].sent] \in Users \cup {NoUser} /\ task[t].sent \in 0..made
    <3>1. live \subseteq 1..made /\ made \in 0..MaxPairs /\ MaxPairs \in Nat /\ pairOwner \in [1..MaxPairs -> Users \cup {NoUser}]
      BY TypeParts DEF Typing, PartsAssumptions, Browser!SessionAssumption
    <3>2. task[t].sent \in 1..made
      BY <1>3, <3>1
    <3>3. task[t].sent \in 1..MaxPairs /\ task[t].sent \in 0..made
      BY <3>1, <3>2
    <3> QED BY <3>1, <3>3
  <2> QED BY <1>1, <1>3, <2>1 DEF Exchanges
<1>4. CASE /\ task[t].pc = "signIn" /\ Browser!Make(task[t].user, 0)
           /\ Browser!Answer(t, "ok", made') \/ Browser!Answer(t, "failed", 0)
  <2>1. task[t].user \in Users \cup {NoUser} /\ 0 \in 0..made
    <3>1. task \in [Browser!Tasks -> TaskTypes] /\ made \in 0..MaxPairs
      BY TypeParts DEF Typing
    <3> QED BY <3>1 DEF TaskTypes
  <2> QED BY <1>1, <1>4, <2>1 DEF Exchanges
<1>5. {"failed", "refused", "bare401", "ok"} \subseteq Browser!Answers \ {"none"}
  BY DEF Browser!Answers
<1>6. \A pc \in {"me", "meAgain", "list", "listAgain"} : pc \notin Browser!Refreshing \cup {"signIn"}
  BY DEF Browser!Refreshing
<1> QED BY <1>1, <1>2, <1>3, <1>4, <1>5, <1>6
LEMMA Renewed ==
  ASSUME PartsAssumptions, Typing, NEW t \in Browser!Tasks, NEW pc \in Browser!Asking, Brings(t),
         held' = task[t].pair,
         \/ task' = [task EXCEPT ![t].pc = pc, ![t].sent = held', ![t].answer = "none"]
         \/ task' = [task EXCEPT ![t].pc = pc, ![t].sent = held', ![t].answer = "none", ![t].second = TRUE],
         UNCHANGED <<pairOwner, live, made, lost>>
  PROVE  GoesOn(t)
<1>1. task[t].pair \in 1..made /\ task[t].pair \in 0..made /\ task[t] \in TaskTypes
  <2>1. task[t].pair \in live /\ live \subseteq 1..made /\ made \in 0..MaxPairs /\ task \in [Browser!Tasks -> TaskTypes]
    BY TypeParts DEF Typing, PairsAreNew
  <2> QED BY <2>1
<1>2. /\ [task[t] EXCEPT !.pc = pc, !.sent = task[t].pair, !.answer = "none"] \in TaskTypes
      /\ [task[t] EXCEPT !.pc = pc, !.sent = task[t].pair, !.answer = "none", !.second = TRUE] \in TaskTypes
  BY <1>1, NextRecords
<1>3. \E r \in TaskTypes :
        task' = [task EXCEPT ![t] = r] /\ r.answer = "none" /\ r.sent = held' /\ r.pair = task[t].pair
  <2>1. CASE task' = [task EXCEPT ![t].pc = pc, ![t].sent = held', ![t].answer = "none"]
    <3>1. task' = [task EXCEPT ![t] = [task[t] EXCEPT !.pc = pc, !.sent = task[t].pair, !.answer = "none"]]
      BY <2>1
    <3> QED BY <1>1, <1>2, <3>1 DEF TaskTypes
  <2>2. CASE task' = [task EXCEPT ![t].pc = pc, ![t].sent = held', ![t].answer = "none", ![t].second = TRUE]
    <3>1. task' = [task EXCEPT ![t] = [task[t] EXCEPT !.pc = pc, !.sent = task[t].pair, !.answer = "none",
                                                      !.second = TRUE]]
      BY <2>2
    <3> QED BY <1>1, <1>2, <3>1 DEF TaskTypes
  <2> QED BY <2>1, <2>2
<1>4. held' # 0
  BY <1>1
<1> QED BY <1>3, <1>4 DEF GoesOn

\* Whose pair a task has asked about.
LEMMA Signed ==
  ASSUME PartsAssumptions, Typing, NEW t \in Browser!Tasks, task[t].pc \in {"me", "meAgain"}
  PROVE  pairOwner[task[t].sent] \in Users \cup {NoUser}
<1>1. /\ pairOwner \in [1..MaxPairs -> Users \cup {NoUser}] /\ made \in 0..MaxPairs
      /\ task[t].sent \in 0..made /\ task[t].sent # 0 /\ MaxPairs \in Nat
  BY TypeParts DEF Typing, PairsAreMade, Browser!Asking, PartsAssumptions, Browser!SessionAssumption
<1>2. task[t].sent \in 1..MaxPairs
  BY <1>1
<1> QED BY <1>1, <1>2

\* The server of this repository makes a difference to its answers, and to what a tab does
\* with the answer to a login.
LEMMA AsIsSteps ==
  BrowserAsIs!Next =>
    \/ Browser!Next
    \/ \E t \in Browser!Tasks : BrowserAsIs!Serve(t)
    \/ \E tab \in Tabs : BrowserAsIs!SignInAnswered(tab)
<1>1. BrowserAsIs!Tasks = Browser!Tasks
  BY DEF BrowserAsIs!Tasks, Browser!Tasks
<1>2. ASSUME NEW t \in Browser!Tasks, BrowserAsIs!List(t) PROVE Browser!List(t)
  BY <1>2 DEF BrowserAsIs!List, Browser!List, BrowserAsIs!Answered, Browser!Answered,
       BrowserAsIs!SignedIn, Browser!SignedIn, BrowserAsIs!Ask, Browser!Ask, BrowserAsIs!server,
       Browser!server, BrowserAsIs!history, Browser!history
<1>3. ASSUME NEW t \in Browser!Tasks, BrowserAsIs!ListAnswered(t) PROVE Browser!ListAnswered(t)
  BY <1>3 DEF BrowserAsIs!ListAnswered, Browser!ListAnswered, BrowserAsIs!Answered,
       Browser!Answered, BrowserAsIs!Ask, Browser!Ask, BrowserAsIs!Finish, Browser!Finish,
       BrowserAsIs!Idle, Browser!Idle, BrowserAsIs!Dropped, Browser!Dropped, BrowserAsIs!server,
       Browser!server, BrowserAsIs!history, Browser!history
<1>4. ASSUME NEW t \in Browser!Tasks, BrowserAsIs!ListRefreshed(t) PROVE Browser!ListRefreshed(t)
  BY <1>4 DEF BrowserAsIs!ListRefreshed, Browser!ListRefreshed, BrowserAsIs!Answered,
       Browser!Answered, BrowserAsIs!Ok, Browser!Ok, BrowserAsIs!Finish, Browser!Finish,
       BrowserAsIs!Idle, Browser!Idle, BrowserAsIs!Dropped, Browser!Dropped, BrowserAsIs!server,
       Browser!server, BrowserAsIs!history, Browser!history
<1>5. ASSUME NEW t \in Browser!Tasks, BrowserAsIs!ListAskedAgain(t) PROVE Browser!ListAskedAgain(t)
  BY <1>5 DEF BrowserAsIs!ListAskedAgain, Browser!ListAskedAgain, BrowserAsIs!Answered,
       Browser!Answered, BrowserAsIs!Ok, Browser!Ok, BrowserAsIs!Finish, Browser!Finish,
       BrowserAsIs!Idle, Browser!Idle, BrowserAsIs!Dropped, Browser!Dropped, BrowserAsIs!server,
       Browser!server, BrowserAsIs!history, Browser!history
<1>6. ASSUME NEW tab \in Tabs, BrowserAsIs!Mount(tab) PROVE Browser!Mount(tab)
  BY <1>6 DEF BrowserAsIs!Mount, Browser!Mount, BrowserAsIs!Dispatch, Browser!Dispatch,
       BrowserAsIs!AUTH_LOGOUT, Browser!AUTH_LOGOUT, BrowserAsIs!AUTH_START, Browser!AUTH_START,
       BrowserAsIs!Finish, Browser!Finish, BrowserAsIs!Idle, Browser!Idle, BrowserAsIs!Ask,
       Browser!Ask, BrowserAsIs!server, Browser!server, BrowserAsIs!history, Browser!history
<1>7. ASSUME NEW tab \in Tabs, BrowserAsIs!MeAnswered(tab) PROVE Browser!MeAnswered(tab)
  BY <1>7 DEF BrowserAsIs!MeAnswered, Browser!MeAnswered, BrowserAsIs!Answered, Browser!Answered,
       BrowserAsIs!Ok, Browser!Ok, BrowserAsIs!Dispatch, Browser!Dispatch, BrowserAsIs!AUTH_SUCCESS,
       Browser!AUTH_SUCCESS, BrowserAsIs!AUTH_LOGOUT, Browser!AUTH_LOGOUT, BrowserAsIs!Finish,
       Browser!Finish, BrowserAsIs!Idle, Browser!Idle, BrowserAsIs!Ask, Browser!Ask,
       BrowserAsIs!Caught, Browser!Caught, BrowserAsIs!GiveUp, Browser!GiveUp, BrowserAsIs!server,
       Browser!server, BrowserAsIs!history, Browser!history
<1>8. ASSUME NEW tab \in Tabs, BrowserAsIs!MeRefreshed(tab) PROVE Browser!MeRefreshed(tab)
  BY <1>8 DEF BrowserAsIs!MeRefreshed, Browser!MeRefreshed, BrowserAsIs!Answered, Browser!Answered,
       BrowserAsIs!Ok, Browser!Ok, BrowserAsIs!Dispatch, Browser!Dispatch, BrowserAsIs!AUTH_LOGOUT,
       Browser!AUTH_LOGOUT, BrowserAsIs!Finish, Browser!Finish, BrowserAsIs!Idle, Browser!Idle,
       BrowserAsIs!GiveUp, Browser!GiveUp, BrowserAsIs!server, Browser!server, BrowserAsIs!history,
       Browser!history
<1>9. ASSUME NEW tab \in Tabs, BrowserAsIs!MeAskedAgain(tab) PROVE Browser!MeAskedAgain(tab)
  BY <1>9 DEF BrowserAsIs!MeAskedAgain, Browser!MeAskedAgain, BrowserAsIs!Answered,
       Browser!Answered, BrowserAsIs!Ok, Browser!Ok, BrowserAsIs!Dispatch, Browser!Dispatch,
       BrowserAsIs!AUTH_SUCCESS, Browser!AUTH_SUCCESS, BrowserAsIs!AUTH_LOGOUT, Browser!AUTH_LOGOUT,
       BrowserAsIs!Finish, Browser!Finish, BrowserAsIs!Idle, Browser!Idle, BrowserAsIs!GiveUp,
       Browser!GiveUp, BrowserAsIs!server, Browser!server, BrowserAsIs!history, Browser!history
<1>10. ASSUME NEW tab \in Tabs, BrowserAsIs!CheckRefreshed(tab) PROVE Browser!CheckRefreshed(tab)
  BY <1>10 DEF BrowserAsIs!CheckRefreshed, Browser!CheckRefreshed, BrowserAsIs!Answered,
       Browser!Answered, BrowserAsIs!Ok, Browser!Ok, BrowserAsIs!Dispatch, Browser!Dispatch,
       BrowserAsIs!AUTH_LOGOUT, Browser!AUTH_LOGOUT, BrowserAsIs!Finish, Browser!Finish,
       BrowserAsIs!Idle, Browser!Idle, BrowserAsIs!GiveUp, Browser!GiveUp, BrowserAsIs!server,
       Browser!server, BrowserAsIs!history, Browser!history
<1>11. ASSUME NEW tab \in Tabs, BrowserAsIs!ClearErrorEffect(tab) PROVE Browser!ClearErrorEffect(tab)
  BY <1>11 DEF BrowserAsIs!ClearErrorEffect, Browser!ClearErrorEffect, BrowserAsIs!SignedIn,
       Browser!SignedIn, BrowserAsIs!Dispatch, Browser!Dispatch, BrowserAsIs!server, Browser!server,
       BrowserAsIs!history, Browser!history
<1>12. ASSUME NEW tab \in Tabs, BrowserAsIs!Logout(tab) PROVE Browser!Logout(tab)
  BY <1>12 DEF BrowserAsIs!Logout, Browser!Logout, BrowserAsIs!SignedIn, Browser!SignedIn,
       BrowserAsIs!Dispatch, Browser!Dispatch, BrowserAsIs!AUTH_LOGOUT, Browser!AUTH_LOGOUT,
       BrowserAsIs!server, Browser!server, BrowserAsIs!history, Browser!history
<1>13. ASSUME NEW tab \in Tabs, BrowserAsIs!Reload(tab) PROVE Browser!Reload(tab)
  BY <1>13 DEF BrowserAsIs!Reload, Browser!Reload, BrowserAsIs!Dispatch, Browser!Dispatch,
       BrowserAsIs!Tasks, Browser!Tasks, BrowserAsIs!Idle, Browser!Idle, BrowserAsIs!Exchanged,
       Browser!Exchanged, BrowserAsIs!Refreshing, Browser!Refreshing, BrowserAsIs!server,
       Browser!server
<1>14. ASSUME NEW tab \in Tabs, NEW u \in Users, BrowserAsIs!SignIn(tab, u) PROVE Browser!SignIn(tab, u)
  BY <1>14 DEF BrowserAsIs!SignIn, Browser!SignIn, BrowserAsIs!SignedIn, Browser!SignedIn,
       BrowserAsIs!Dispatch, Browser!Dispatch, BrowserAsIs!AUTH_START, Browser!AUTH_START,
       BrowserAsIs!server, Browser!server, BrowserAsIs!history, Browser!history
<1> QED BY <1>1, <1>2, <1>3, <1>4, <1>5, <1>6, <1>7, <1>8, <1>9, <1>10, <1>11, <1>12, <1>13, <1>14
       DEF BrowserAsIs!Next, Browser!Next, BrowserAsIs!MainStep, Browser!MainStep

\* One disjunct for each kind of step.
TabStep ==
  \/ \E t \in Browser!Tasks : Refuses(t) \/ Exchanges(t) \/ GoesOn(t)
  \/ Drops
  \/ \E tab \in Tabs : Browser!Reload(tab)

\* Every step of a tab is one of these, and leaves its context as it should be.
LEMMA TabSteps ==
  ASSUME PartsAssumptions, Typing, TabsNext
  PROVE  TabStep /\ auth' \in [Tabs -> AuthTypes] /\ reloads' \in 0..MaxReloads
<1>0. /\ auth \in [Tabs -> AuthTypes] /\ reloads \in 0..MaxReloads /\ MaxReloads \in Nat
      /\ \A tab \in Tabs : <<tab, "main">> \in Browser!Tasks
  BY TypeParts DEF Typing, PartsAssumptions, Browser!SessionAssumption, Browser!Tasks
<1>a. \A tab \in Tabs : /\ Browser!AUTH_START(auth[tab]) \in AuthTypes
                        /\ Browser!AUTH_LOGOUT(auth[tab]) \in AuthTypes
                        /\ Browser!AUTH_ERROR(auth[tab]) \in AuthTypes
                        /\ \A u \in Users \cup {NoUser} : Browser!AUTH_SUCCESS(auth[tab], u) \in AuthTypes
                        /\ [auth[tab] EXCEPT !.error = FALSE] \in AuthTypes
  BY <1>0 DEF AuthTypes, Browser!AUTH_START, Browser!AUTH_LOGOUT, Browser!AUTH_ERROR, Browser!AUTH_SUCCESS
<1>b. \A tab \in Tabs, a \in AuthTypes : Browser!Dispatch(tab, a) => auth' \in [Tabs -> AuthTypes]
  BY <1>0 DEF Browser!Dispatch
<1>c. ASSUME NEW tab \in Tabs, Browser!GiveUp(<<tab, "main">>), UNCHANGED <<pairOwner, live, made, lost>>
      PROVE  GoesOn(<<tab, "main">>) /\ auth' \in [Tabs -> AuthTypes]
  BY <1>0, <1>a, <1>b, <1>c, Finished DEF Browser!GiveUp
<1>1. ASSUME NEW t \in Browser!Tasks, Browser!Serve(t) \/ BrowserAsIs!Serve(t)
      PROVE  TabStep /\ auth' \in [Tabs -> AuthTypes] /\ reloads' \in 0..MaxReloads
  BY <1>0, <1>1, Served DEF TabStep
<1>2. ASSUME NEW t \in Browser!Tasks, Browser!List(t)
      PROVE  TabStep /\ auth' \in [Tabs -> AuthTypes] /\ reloads' \in 0..MaxReloads
  <2>1. GoesOn(t)
    <3>1. "list" \in Browser!Asking /\ ~Browser!Exchanged(t)
      BY <1>2 DEF Browser!List, Browser!Exchanged, Browser!Refreshing, Browser!Asking
    <3> QED BY <1>2, <3>1, Asked DEF Browser!List, Browser!server, Browser!history
  <2> QED BY <1>0, <1>2, <2>1 DEF Browser!List, Browser!history, TabStep
<1>3. ASSUME NEW t \in Browser!Tasks, Browser!ListAnswered(t)
      PROVE  TabStep /\ auth' \in [Tabs -> AuthTypes] /\ reloads' \in 0..MaxReloads
  <2>1. GoesOn(t)
    <3>1. "listRefresh" \in Browser!Asking /\ ~Browser!Exchanged(t)
      BY <1>3 DEF Browser!ListAnswered, Browser!Answered, Browser!Exchanged, Browser!Refreshing, Browser!Asking
    <3> QED BY <1>3, <3>1, Asked, Finished DEF Browser!ListAnswered, Browser!Dropped, Browser!server, Browser!history
  <2> QED BY <1>0, <1>3, <2>1 DEF Browser!ListAnswered, Browser!history, TabStep
<1>4. ASSUME NEW t \in Browser!Tasks, Browser!ListRefreshed(t)
      PROVE  TabStep /\ auth' \in [Tabs -> AuthTypes] /\ reloads' \in 0..MaxReloads
  <2>1. GoesOn(t)
    <3>1. CASE Browser!Ok(t)
      BY <1>4, <3>1, Renewed DEF Browser!ListRefreshed, Browser!Answered, Browser!Ok, Brings, Browser!Refreshing,
           Browser!Asking, Browser!server, Browser!history
    <3>2. CASE ~Browser!Ok(t)
      BY <1>4, <3>2, Finished DEF Browser!ListRefreshed, Browser!Dropped, Browser!server, Browser!history
    <3> QED BY <3>1, <3>2
  <2> QED BY <1>0, <1>4, <2>1 DEF Browser!ListRefreshed, Browser!history, TabStep
<1>5. ASSUME NEW t \in Browser!Tasks, Browser!ListAskedAgain(t)
      PROVE  TabStep /\ auth' \in [Tabs -> AuthTypes] /\ reloads' \in 0..MaxReloads
  <2>1. ~Browser!Exchanged(t)
    BY <1>5 DEF Browser!ListAskedAgain, Browser!Answered, Browser!Exchanged, Browser!Refreshing
  <2>2. GoesOn(t)
    BY <1>5, <2>1, Finished DEF Browser!ListAskedAgain, Browser!Dropped, Browser!server, Browser!history
  <2> QED BY <1>0, <1>5, <2>2 DEF Browser!ListAskedAgain, Browser!history, TabStep
<1>6. ASSUME NEW tab \in Tabs, Browser!Mount(tab)
      PROVE  TabStep /\ auth' \in [Tabs -> AuthTypes] /\ reloads' \in 0..MaxReloads
  <2> DEFINE t == <<tab, "main">>
  <2>1. ~Browser!Exchanged(t) /\ "me" \in Browser!Asking
    BY <1>6 DEF Browser!Mount, Browser!Exchanged, Browser!Refreshing, Browser!Asking
  <2>2. GoesOn(t)
    <3>1. CASE held = 0
      BY <1>0, <1>6, <2>1, <3>1, Finished DEF Browser!Mount, Browser!server, Browser!history
    <3>2. CASE held # 0
      BY <1>0, <1>6, <2>1, <3>2, Asked DEF Browser!Mount, Browser!server, Browser!history
    <3> QED BY <3>1, <3>2
  <2> QED BY <1>0, <1>a, <1>b, <1>6, <2>2 DEF Browser!Mount, Browser!history, TabStep
<1>7. ASSUME NEW tab \in Tabs, Browser!MeAnswered(tab)
      PROVE  TabStep /\ auth' \in [Tabs -> AuthTypes] /\ reloads' \in 0..MaxReloads
  <2> DEFINE t == <<tab, "main">>
  <2>1. ~Browser!Exchanged(t) /\ {"meRefresh", "checkRefresh"} \subseteq Browser!Asking
    BY <1>7 DEF Browser!MeAnswered, Browser!Answered, Browser!Exchanged, Browser!Refreshing, Browser!Asking
  <2>2. UNCHANGED <<pairOwner, live, made, lost, reloads>>
    BY <1>7 DEF Browser!MeAnswered, Browser!server, Browser!history
  <2>3. CASE Browser!Ok(t)
    <3>1. pairOwner[task[t].sent] \in Users \cup {NoUser}
      BY <1>0, <1>7, Signed DEF Browser!MeAnswered, Browser!Answered
    <3>2. Browser!Finish(t) /\ held' = held
          /\ Browser!Dispatch(tab, Browser!AUTH_SUCCESS(auth[tab], pairOwner[task[t].sent]))
      BY <1>7, <2>3 DEF Browser!MeAnswered
    <3>3. GoesOn(t)
      BY <1>0, <2>1, <2>2, <3>2, Finished
    <3> QED BY <1>0, <1>a, <1>b, <2>2, <3>1, <3>2, <3>3 DEF TabStep
  <2>4. CASE Browser!GiveUp(t)
    BY <1>0, <1>c, <2>2, <2>4 DEF TabStep
  <2>5. CASE ~Browser!Ok(t) /\ ~Browser!GiveUp(t)
    <3>1. held # 0 /\ UNCHANGED <<held, auth>> /\ \E pc \in {"meRefresh", "checkRefresh"} : Browser!Ask(t, pc)
      BY <1>7, <2>5 DEF Browser!MeAnswered, Browser!Caught
    <3>2. GoesOn(t)
      BY <1>0, <2>1, <2>2, <3>1, Asked
    <3> QED BY <1>0, <2>2, <3>1, <3>2 DEF TabStep
  <2> QED BY <2>3, <2>4, <2>5
<1>8. ASSUME NEW tab \in Tabs, Browser!MeRefreshed(tab)
      PROVE  TabStep /\ auth' \in [Tabs -> AuthTypes] /\ reloads' \in 0..MaxReloads
  <2> DEFINE t == <<tab, "main">>
  <2>1. UNCHANGED <<pairOwner, live, made, lost, reloads>>
    BY <1>8 DEF Browser!MeRefreshed, Browser!server, Browser!history
  <2>2. CASE Browser!Ok(t)
    <3>1. Brings(t) /\ "meAgain" \in Browser!Asking /\ held' = task[t].pair /\ auth' = auth
          /\ task' = [task EXCEPT ![t].pc = "meAgain", ![t].sent = held', ![t].answer = "none"]
      BY <1>8, <2>2 DEF Browser!MeRefreshed, Browser!Answered, Browser!Ok, Brings, Browser!Refreshing, Browser!Asking
    <3>2. GoesOn(t)
      BY <1>0, <2>1, <3>1, Renewed
    <3> QED BY <1>0, <2>1, <3>1, <3>2 DEF TabStep
  <2>3. CASE ~Browser!Ok(t)
    BY <1>0, <1>8, <1>c, <2>1, <2>3 DEF Browser!MeRefreshed, TabStep
  <2> QED BY <2>2, <2>3
<1>9. ASSUME NEW tab \in Tabs, Browser!MeAskedAgain(tab)
      PROVE  TabStep /\ auth' \in [Tabs -> AuthTypes] /\ reloads' \in 0..MaxReloads
  <2> DEFINE t == <<tab, "main">>
  <2>1. UNCHANGED <<pairOwner, live, made, lost, reloads>> /\ ~Browser!Exchanged(t)
    BY <1>9 DEF Browser!MeAskedAgain, Browser!Answered, Browser!Exchanged, Browser!Refreshing,
         Browser!server, Browser!history
  <2>2. CASE Browser!Ok(t)
    <3>1. pairOwner[task[t].sent] \in Users \cup {NoUser}
      BY <1>0, <1>9, Signed DEF Browser!MeAskedAgain, Browser!Answered
    <3>2. Browser!Finish(t) /\ held' = held
          /\ Browser!Dispatch(tab, Browser!AUTH_SUCCESS(auth[tab], pairOwner[task[t].sent]))
      BY <1>9, <2>2 DEF Browser!MeAskedAgain
    <3>3. GoesOn(t)
      BY <1>0, <2>1, <3>2, Finished
    <3> QED BY <1>0, <1>a, <1>b, <2>1, <3>1, <3>2, <3>3 DEF TabStep
  <2>3. CASE ~Browser!Ok(t)
    BY <1>0, <1>9, <1>c, <2>1, <2>3 DEF Browser!MeAskedAgain, TabStep
  <2> QED BY <2>2, <2>3
<1>10. ASSUME NEW tab \in Tabs, Browser!CheckRefreshed(tab)
      PROVE  TabStep /\ auth' \in [Tabs -> AuthTypes] /\ reloads' \in 0..MaxReloads
  <2> DEFINE t == <<tab, "main">>
  <2>1. UNCHANGED <<pairOwner, live, made, lost, reloads>>
    BY <1>10 DEF Browser!CheckRefreshed, Browser!server, Browser!history
  <2>2. CASE Browser!Ok(t)
    <3>1. Brings(t) /\ "me" \in Browser!Asking /\ held' = task[t].pair /\ auth' = auth
          /\ task' = [task EXCEPT ![t].pc = "me", ![t].sent = held', ![t].answer = "none", ![t].second = TRUE]
      BY <1>10, <2>2 DEF Browser!CheckRefreshed, Browser!Answered, Browser!Ok, Brings, Browser!Refreshing,
           Browser!Asking
    <3>2. GoesOn(t)
      BY <1>0, <2>1, <3>1, Renewed
    <3> QED BY <1>0, <2>1, <3>1, <3>2 DEF TabStep
  <2>3. CASE ~Browser!Ok(t)
    BY <1>0, <1>10, <1>c, <2>1, <2>3 DEF Browser!CheckRefreshed, TabStep
  <2> QED BY <2>2, <2>3
<1>11. ASSUME NEW tab \in Tabs, Browser!SignInAnswered(tab) \/ BrowserAsIs!SignInAnswered(tab)
      PROVE  TabStep /\ auth' \in [Tabs -> AuthTypes] /\ reloads' \in 0..MaxReloads
  <2> DEFINE t == <<tab, "main">>
  <2>1. /\ Browser!Answered(t, "signIn") /\ Browser!Finish(t)
        /\ UNCHANGED <<pairOwner, live, made, lost, reloads>>
        /\ \/ /\ Browser!Ok(t) /\ held' = task[t].pair
              /\ Browser!Dispatch(tab, Browser!AUTH_SUCCESS(auth[tab], task[t].user))
           \/ held' = held /\ Browser!Dispatch(tab, Browser!AUTH_ERROR(auth[tab]))
    <3>1. CASE Browser!SignInAnswered(tab)
      BY <3>1 DEF Browser!SignInAnswered, Browser!server, Browser!history
    <3>2. CASE BrowserAsIs!SignInAnswered(tab)
      BY <3>2 DEF BrowserAsIs!SignInAnswered, BrowserAsIs!server, BrowserAsIs!history, BrowserAsIs!Answered,
           BrowserAsIs!Finish, BrowserAsIs!Idle, BrowserAsIs!Dispatch, BrowserAsIs!AUTH_ERROR,
           Browser!Answered, Browser!Finish, Browser!Idle, Browser!Dispatch, Browser!AUTH_ERROR
    <3> QED BY <1>11, <3>1, <3>2
  <2>2. ~Browser!Exchanged(t) /\ (Browser!Ok(t) => Brings(t)) /\ task[t].user \in Users \cup {NoUser}
    <3>1. task[t] \in TaskTypes
      BY <1>0, TypeParts DEF Typing
    <3> QED BY <2>1, <3>1 DEF Browser!Answered, Browser!Exchanged, Browser!Refreshing, Browser!Ok, Brings, TaskTypes
  <2>3. GoesOn(t)
    BY <1>0, <2>1, <2>2, Finished
  <2>4. auth' \in [Tabs -> AuthTypes]
    BY <1>a, <1>b, <2>1, <2>2
  <2> QED BY <1>0, <2>1, <2>3, <2>4 DEF TabStep
<1>12. ASSUME NEW tab \in Tabs, Browser!ClearErrorEffect(tab) \/ Browser!Logout(tab)
      PROVE  TabStep /\ auth' \in [Tabs -> AuthTypes] /\ reloads' \in 0..MaxReloads
  <2>1. Drops /\ reloads' = reloads
    BY <1>12 DEF Browser!ClearErrorEffect, Browser!Logout, Browser!server, Browser!history, Drops
  <2>2. auth' \in [Tabs -> AuthTypes]
    BY <1>a, <1>b, <1>12 DEF Browser!ClearErrorEffect, Browser!Logout
  <2> QED BY <1>0, <2>1, <2>2 DEF TabStep
<1>13. ASSUME NEW tab \in Tabs, Browser!Reload(tab)
      PROVE  TabStep /\ auth' \in [Tabs -> AuthTypes] /\ reloads' \in 0..MaxReloads
  <2>1. [user |-> NoUser, loading |-> TRUE, error |-> FALSE] \in AuthTypes
    BY DEF AuthTypes
  <2>2. auth' \in [Tabs -> AuthTypes] /\ reloads' \in 0..MaxReloads
    BY <1>0, <1>b, <1>13, <2>1 DEF Browser!Reload
  <2> QED BY <1>13, <2>2 DEF TabStep
<1>14. ASSUME NEW tab \in Tabs, NEW u \in Users, Browser!SignIn(tab, u)
      PROVE  TabStep /\ auth' \in [Tabs -> AuthTypes] /\ reloads' \in 0..MaxReloads
  <2> DEFINE t == <<tab, "main">>
  <2>1. /\ task[t].pc = "idle" /\ UNCHANGED <<held, pairOwner, live, made, lost, reloads>>
        /\ task' = [task EXCEPT ![t].pc = "signIn", ![t].user = u, ![t].answer = "none"]
        /\ Browser!Dispatch(tab, Browser!AUTH_START(auth[tab]))
    BY <1>14 DEF Browser!SignIn, Browser!server, Browser!history
  <2>2. task[t] \in TaskTypes /\ 0 \in 0..made
    BY <1>0, TypeParts DEF Typing
  <2>3. [task[t] EXCEPT !.pc = "signIn", !.user = u, !.answer = "none"] \in TaskTypes
    BY <2>2 DEF TaskTypes, Browser!Asking, Browser!Answers
  <2>4. task' = [task EXCEPT ![t] = [task[t] EXCEPT !.pc = "signIn", !.user = u, !.answer = "none"]]
    BY <2>1
  <2>5. ~Browser!Exchanged(t)
    BY <2>1 DEF Browser!Exchanged, Browser!Refreshing
  <2>6. GoesOn(t)
    BY <2>1, <2>2, <2>3, <2>4, <2>5 DEF GoesOn, TaskTypes
  <2> QED BY <1>0, <1>a, <1>b, <2>1, <2>6 DEF TabStep
<1>15. BrowserAsIs!Next =>
         \/ Browser!Next
         \/ \E t \in Browser!Tasks : BrowserAsIs!Serve(t)
         \/ \E tab \in Tabs : BrowserAsIs!SignInAnswered(tab)
  BY AsIsSteps
<1> QED BY <1>1, <1>2, <1>3, <1>4, <1>5, <1>6, <1>7, <1>8, <1>9, <1>10, <1>11, <1>12, <1>13, <1>14, <1>15
       DEF TabsNext, Browser!Next, Browser!MainStep

-----------------------------------------------------------------------------
(***************************************************************************)
(* Each kind of step keeps the invariant of the tabs.                      *)
(***************************************************************************)

LEMMA RefusesKeeps ==
  ASSUME PartsAssumptions, TabsInv, NEW t \in Browser!Tasks, Refuses(t),
         auth' \in [Tabs -> AuthTypes], reloads' \in 0..MaxReloads
  PROVE  TabsInv'
<1> DEFINE brings(s) == task'[s].pc \in Browser!Refreshing \cup {"signIn"} /\ task'[s].answer = "ok"
<1>1. PICK a \in Browser!Answers \ {"none"} :
        /\ a = "ok" => task[t].pc \notin Browser!Refreshing \cup {"signIn"}
        /\ task' = [task EXCEPT ![t].answer = a, ![t].pair = 0]
  BY DEF Refuses, Browser!Answer
<1>2. /\ task \in [Browser!Tasks -> TaskTypes] /\ made \in 0..MaxPairs /\ MaxPairs \in Nat
      /\ UNCHANGED <<held, pairOwner, live, made, lost>> /\ task[t].answer = "none"
  BY TypeParts DEF TabsInv, PartsAssumptions, Browser!SessionAssumption, Refuses
<1>3. /\ task'[t] = [task[t] EXCEPT !.answer = a, !.pair = 0] /\ task'[t] \in TaskTypes
      /\ task'[t].answer = a /\ task'[t].pair = 0 /\ task'[t].sent = task[t].sent /\ task'[t].pc = task[t].pc
      /\ \A u \in Browser!Tasks : u # t => task'[u] = task[u]
  <2>1. task[t] \in TaskTypes /\ 0 \in 0..MaxPairs /\ a \in Browser!Answers
    BY <1>1, <1>2
  <2>2. task'[t] = [task[t] EXCEPT !.answer = a, !.pair = 0] /\ \A u \in Browser!Tasks : u # t => task'[u] = task[u]
    BY <1>1, <1>2
  <2> QED BY <2>1, <2>2 DEF TaskTypes
<1>4. task' \in [Browser!Tasks -> TaskTypes]
  BY <1>1, <1>2, <1>3
<1>5. Browser!TypeOK'
  BY <1>2, <1>4 DEF TabsInv, Browser!TypeOK, AuthTypes, TaskTypes
<1>6. PairsAreMade'
  <2>1. 0 \in 0..made
    BY <1>2
  <2> QED BY <1>2, <1>3, <2>1 DEF TabsInv, PairsAreMade
<1>7. \A u \in Browser!Tasks : brings(u) <=> (Brings(u) /\ u # t)
  BY <1>1, <1>2, <1>3 DEF Brings
<1>8. PairsAreNew'
  <2>1. \A s \in Browser!Tasks : brings(s) =>
          /\ task'[s].pair \in live' /\ task'[s].pair # held'
          /\ \A v \in Browser!Tasks : task'[v].sent # task'[s].pair /\ (brings(v) /\ v # s => task'[v].pair # task'[s].pair)
    <3> HIDE DEF brings
    <3>1. \A s \in Browser!Tasks : brings(s) => Brings(s) /\ task'[s].pair = task[s].pair
      BY <1>3, <1>7
    <3>2. \A s \in Browser!Tasks : task'[s].sent = task[s].sent
      BY <1>3
    <3> QED BY <1>2, <3>1, <3>2 DEF TabsInv, PairsAreNew
  <2> QED BY <2>1 DEF PairsAreNew, Brings, Browser!Refreshing
<1>9. Browser!HeldIsUnused'
  <2>1. \A u \in Browser!Tasks : Browser!Exchanged(u) => Browser!Exchanged(u)' /\ task'[u].sent = task[u].sent
    BY <1>1, <1>2, <1>3 DEF Browser!Exchanged
  <2> QED BY <1>2, <2>1 DEF TabsInv, Browser!HeldIsUnused
<1> QED BY <1>5, <1>6, <1>8, <1>9 DEF TabsInv

LEMMA ExchangesKeeps ==
  ASSUME PartsAssumptions, TabsInv, NEW t \in Browser!Tasks, Exchanges(t),
         auth' \in [Tabs -> AuthTypes], reloads' \in 0..MaxReloads
  PROVE  TabsInv'
<1> DEFINE brings(s) == task'[s].pc \in Browser!Refreshing \cup {"signIn"} /\ task'[s].answer = "ok"
<1>1. PICK a \in {"ok", "failed"}, p \in {0, made'} :
        task' = [task EXCEPT ![t].answer = a, ![t].pair = p] /\ (a = "ok" => p = made')
  BY DEF Exchanges, Browser!Answer
<1>2. PICK u \in Users \cup {NoUser}, old \in 0..made :
        /\ old # 0 => task[t].pc \in Browser!Refreshing /\ old = task[t].sent
        /\ made < MaxPairs /\ made' = made + 1
        /\ live' = (live \ {old}) \cup {made'}
        /\ pairOwner' = [pairOwner EXCEPT ![made'] = u]
  BY DEF Exchanges, Browser!Make
<1>3. /\ task \in [Browser!Tasks -> TaskTypes] /\ made \in 0..MaxPairs /\ MaxPairs \in Nat
      /\ UNCHANGED <<held, lost>> /\ task[t].answer = "none"
      /\ held \in 0..made /\ live \subseteq 1..made /\ lost \subseteq 1..made
      /\ \A s \in Browser!Tasks : task[s].sent \in 0..made /\ task[s].pair \in 0..made
  BY TypeParts DEF TabsInv, PairsAreMade, PartsAssumptions, Browser!SessionAssumption, Exchanges
<1>4. /\ made' \in 1..MaxPairs /\ made' \in 1..made' /\ 1..made \subseteq 1..made' /\ 0..made \subseteq 0..made'
      /\ 0 \in 0..made' /\ made' \in 0..made' /\ 0 \in 0..MaxPairs /\ made' \notin 0..made /\ made' \in 0..MaxPairs
  BY <1>2, <1>3
<1>5. /\ task'[t] \in TaskTypes
      /\ task'[t].answer = a /\ task'[t].pair = p /\ task'[t].sent = task[t].sent /\ task'[t].pc = task[t].pc
      /\ \A s \in Browser!Tasks : s # t => task'[s] = task[s]
  <2>1. task[t] \in TaskTypes /\ p \in 0..MaxPairs /\ a \in Browser!Answers
    BY <1>1, <1>3, <1>4 DEF Browser!Answers
  <2>2. task'[t] = [task[t] EXCEPT !.answer = a, !.pair = p] /\ \A s \in Browser!Tasks : s # t => task'[s] = task[s]
    BY <1>1, <1>3
  <2> QED BY <2>1, <2>2 DEF TaskTypes
<1>6. Browser!TypeOK'
  <2>1. task' \in [Browser!Tasks -> TaskTypes]
    BY <1>1, <1>3, <1>5
  <2>2. pairOwner' \in [1..MaxPairs -> Users \cup {NoUser}]
    BY <1>2, <1>4 DEF TabsInv, Browser!TypeOK
  <2>3. live' \subseteq 1..made' /\ lost' \subseteq 1..made' /\ held' \in 0..MaxPairs
    BY <1>2, <1>3, <1>4 DEF TabsInv, Browser!TypeOK
  <2> QED BY <1>4, <2>1, <2>2, <2>3 DEF Browser!TypeOK, AuthTypes, TaskTypes
<1>7. PairsAreMade'
  BY <1>1, <1>3, <1>4, <1>5 DEF TabsInv, PairsAreMade
<1>8. \A s \in Browser!Tasks : (s # t => (brings(s) <=> Brings(s))) /\ (brings(t) => task'[t].pair = made')
  BY <1>1, <1>5 DEF Brings
<1>9. PairsAreNew'
  <2> SUFFICES ASSUME NEW s \in Browser!Tasks, brings(s)
               PROVE  /\ task'[s].pair \in live' /\ task'[s].pair # held'
                      /\ \A v \in Browser!Tasks : /\ task'[v].sent # task'[s].pair
                                                  /\ brings(v) /\ v # s => task'[v].pair # task'[s].pair
    BY DEF PairsAreNew, Brings, Browser!Refreshing
  <2>1. CASE s = t
    <3>1. task'[s].pair = made'
      BY <1>8, <2>1
    <3>2. \A v \in Browser!Tasks : task'[v].sent # made' /\ (v # t => task'[v].pair # made')
      BY <1>3, <1>4, <1>5
    <3> QED BY <1>2, <1>3, <1>4, <2>1, <3>1, <3>2
  <2>2. CASE s # t
    <3>1. /\ Brings(s) /\ task'[s].pair = task[s].pair /\ task[s].pair \in live /\ task[s].pair # held
          /\ \A v \in Browser!Tasks : /\ task[v].sent # task[s].pair
                                      /\ Brings(v) /\ v # s => task[v].pair # task[s].pair
      BY <1>5, <1>8, <2>2 DEF TabsInv, PairsAreNew
    <3>2. task[s].pair # old
      <4>1. task[s].pair # 0
        BY <1>3, <3>1
      <4>2. task[t].sent # task[s].pair
        BY <3>1
      <4> QED BY <1>2, <4>1, <4>2
    <3>3. task'[s].pair \in live' /\ task'[s].pair # held'
      BY <1>2, <1>3, <3>1, <3>2
    <3>4. ASSUME NEW v \in Browser!Tasks
          PROVE  task'[v].sent # task'[s].pair /\ (brings(v) /\ v # s => task'[v].pair # task'[s].pair)
      <4>1. CASE v = t
        <5>1. task[s].pair # made'
          BY <1>3, <1>4
        <5>2. task'[v].sent # task'[s].pair
          BY <1>5, <3>1, <4>1
        <5> QED BY <1>8, <3>1, <4>1, <5>1, <5>2
      <4>2. CASE v # t
        BY <1>5, <1>8, <3>1, <4>2
      <4> QED BY <4>1, <4>2
    <3> QED BY <3>3, <3>4
  <2> QED BY <2>1, <2>2
<1>10. Browser!HeldIsUnused'
  <2> SUFFICES ASSUME held' # 0, held' \notin live'
               PROVE  held' \in lost' \/ \E s \in Browser!Tasks : Browser!Exchanged(s)' /\ task'[s].sent = held'
    BY DEF Browser!HeldIsUnused
  <2>1. \A s \in Browser!Tasks : Browser!Exchanged(s) => Browser!Exchanged(s)' /\ task'[s].sent = task[s].sent
    BY <1>1, <1>3, <1>5 DEF Browser!Exchanged
  <2>2. CASE held = old
    BY <1>1, <1>2, <1>3, <1>5, <2>2 DEF Browser!Exchanged
  <2>3. CASE held # old
    BY <1>2, <1>3, <2>1, <2>3 DEF TabsInv, Browser!HeldIsUnused
  <2> QED BY <2>2, <2>3
<1> QED BY <1>6, <1>7, <1>9, <1>10 DEF TabsInv
LEMMA GoesOnKeeps ==
  ASSUME PartsAssumptions, TabsInv, NEW t \in Browser!Tasks, GoesOn(t),
         auth' \in [Tabs -> AuthTypes], reloads' \in 0..MaxReloads
  PROVE  TabsInv'
<1> DEFINE brings(s) == task'[s].pc \in Browser!Refreshing \cup {"signIn"} /\ task'[s].answer = "ok"
<1>1. PICK r \in TaskTypes :
        /\ task' = [task EXCEPT ![t] = r]
        /\ r.answer = "none" /\ r.sent \in {0, task[t].sent, held'} /\ r.pair \in {0, task[t].pair}
        /\ r.pc \in Browser!Asking \ {"signIn"} => r.sent # 0
  BY DEF GoesOn
<1>2. /\ task \in [Browser!Tasks -> TaskTypes] /\ made \in 0..MaxPairs /\ MaxPairs \in Nat
      /\ UNCHANGED <<pairOwner, live, made, lost>>
      /\ held \in 0..made /\ live \subseteq 1..made
      /\ \A s \in Browser!Tasks : task[s].sent \in 0..made /\ task[s].pair \in 0..made
  BY TypeParts DEF TabsInv, PairsAreMade, PartsAssumptions, Browser!SessionAssumption, GoesOn
<1>3. /\ task' \in [Browser!Tasks -> TaskTypes] /\ task'[t] = r
      /\ \A s \in Browser!Tasks : s # t => task'[s] = task[s]
  BY <1>1, <1>2
<1>4. held' \in 0..made /\ held' \in {0, held, task[t].pair} /\ (held' = task[t].pair => held' \in {0, held} \/ Brings(t))
  BY <1>2 DEF GoesOn
<1>5. Browser!TypeOK'
  <2>1. held' \in 0..MaxPairs
    BY <1>2, <1>4
  <2> QED BY <1>2, <1>3, <2>1 DEF TabsInv, Browser!TypeOK, AuthTypes, TaskTypes
<1>6. PairsAreMade'
  <2>1. r.sent \in 0..made /\ r.pair \in 0..made
    BY <1>1, <1>2, <1>4
  <2> QED BY <1>1, <1>2, <1>3, <1>4, <2>1 DEF TabsInv, PairsAreMade
<1>7. \A s \in Browser!Tasks : brings(s) => Brings(s) /\ s # t /\ task'[s].pair = task[s].pair
  BY <1>1, <1>3 DEF Brings
<1>8. PairsAreNew'
  <2> HIDE DEF brings
  <2>1. ASSUME NEW s \in Browser!Tasks, brings(s)
        PROVE  task'[s].pair \in live' /\ task'[s].pair # held'
    <3>1. Brings(s) /\ s # t /\ task'[s].pair = task[s].pair /\ task[s].pair \in live /\ task[s].pair # held
      BY <1>7, <2>1 DEF TabsInv, PairsAreNew
    <3>2. task[s].pair # 0 /\ (Brings(t) => task[t].pair # task[s].pair)
      BY <1>2, <3>1 DEF TabsInv, PairsAreNew
    <3> QED BY <1>2, <1>4, <3>1, <3>2
  <2>2. ASSUME NEW s \in Browser!Tasks, brings(s), NEW v \in Browser!Tasks
        PROVE  task'[v].sent # task'[s].pair /\ ((brings(v) /\ v # s) => task'[v].pair # task'[s].pair)
    <3>1. Brings(s) /\ s # t /\ task'[s].pair = task[s].pair /\ task[v].sent # task[s].pair /\ task[s].pair \in live
      BY <1>7, <2>2 DEF TabsInv, PairsAreNew
    <3>2. (brings(v) /\ v # s) => task'[v].pair # task'[s].pair
      BY <1>7, <2>2, <3>1 DEF TabsInv, PairsAreNew
    <3>3. task'[v].sent \in {0, task[v].sent, held'}
      BY <1>1, <1>3
    <3>4. task[s].pair # 0 /\ task[s].pair # held'
      BY <1>2, <2>1, <2>2, <3>1
    <3> QED BY <3>1, <3>2, <3>3, <3>4
  <2> USE DEF brings
  <2> QED BY <2>1, <2>2 DEF PairsAreNew, Brings, Browser!Refreshing
<1>9. Browser!HeldIsUnused'
  <2> SUFFICES ASSUME held' # 0, held' \notin live'
               PROVE  held' \in lost' \/ \E s \in Browser!Tasks : Browser!Exchanged(s)' /\ task'[s].sent = held'
    BY DEF Browser!HeldIsUnused
  <2>1. held' = held /\ ~Browser!Exchanged(t)
    BY <1>2 DEF GoesOn, TabsInv, PairsAreNew
  <2>2. \A s \in Browser!Tasks : Browser!Exchanged(s) => Browser!Exchanged(s)' /\ task'[s].sent = task[s].sent
    BY <1>3, <2>1 DEF Browser!Exchanged
  <2> QED BY <1>2, <2>1, <2>2 DEF TabsInv, Browser!HeldIsUnused
<1> QED BY <1>5, <1>6, <1>8, <1>9 DEF TabsInv

LEMMA DropsKeeps ==
  ASSUME PartsAssumptions, TabsInv, Drops, auth' \in [Tabs -> AuthTypes], reloads' \in 0..MaxReloads
  PROVE  TabsInv'
<1>1. /\ UNCHANGED <<pairOwner, live, made, task, lost>> /\ held' \in {0, held}
      /\ made \in 0..MaxPairs /\ MaxPairs \in Nat /\ held \in 0..made /\ live \subseteq 1..made
  BY TypeParts DEF TabsInv, PairsAreMade, PartsAssumptions, Browser!SessionAssumption, Drops
<1>2. held' \in 0..made /\ held' \in 0..MaxPairs
  BY <1>1
<1>3. Browser!TypeOK'
  BY <1>1, <1>2 DEF TabsInv, Browser!TypeOK, AuthTypes
<1>4. PairsAreMade'
  BY <1>1, <1>2 DEF TabsInv, PairsAreMade
<1>5. PairsAreNew'
  <2>1. \A t \in Browser!Tasks : Brings(t) => task[t].pair # held'
    BY <1>1 DEF TabsInv, PairsAreNew
  <2> QED BY <1>1, <2>1 DEF TabsInv, PairsAreNew, Brings, Browser!Refreshing
<1>6. Browser!HeldIsUnused'
  BY <1>1 DEF TabsInv, Browser!HeldIsUnused, Browser!Exchanged, Browser!Refreshing
<1> QED BY <1>3, <1>4, <1>5, <1>6 DEF TabsInv

LEMMA ReloadKeeps ==
  ASSUME PartsAssumptions, TabsInv, NEW tab \in Tabs, Browser!Reload(tab),
         auth' \in [Tabs -> AuthTypes], reloads' \in 0..MaxReloads
  PROVE  TabsInv'
<1> DEFINE brings(s) == task'[s].pc \in Browser!Refreshing \cup {"signIn"} /\ task'[s].answer = "ok"
<1>1. /\ task \in [Browser!Tasks -> TaskTypes] /\ made \in 0..MaxPairs /\ MaxPairs \in Nat
      /\ UNCHANGED <<held, pairOwner, live, made>>
      /\ \A s \in Browser!Tasks : task[s].sent \in 0..made /\ task[s].pair \in 0..made
  BY TypeParts DEF TabsInv, PairsAreMade, PartsAssumptions, Browser!SessionAssumption, Browser!Reload, Browser!server
<1>2. /\ task' = [t \in Browser!Tasks |-> IF t[1] # tab THEN task[t]
                                          ELSE [Browser!Idle EXCEPT !.pc = IF t[2] = "main" THEN "unmounted" ELSE "idle"]]
      /\ lost' = lost \cup {task[t].sent : t \in {t \in Browser!Tasks : t[1] = tab /\ Browser!Exchanged(t)}}
  BY DEF Browser!Reload
<1>3. \A t \in Browser!Tasks :
        \/ t[1] # tab /\ task'[t] = task[t]
        \/ /\ t[1] = tab /\ task'[t] \in TaskTypes /\ task'[t].pc \in {"unmounted", "idle"}
           /\ task'[t].sent = 0 /\ task'[t].pair = 0 /\ task'[t].answer = "none"
  <2> TAKE t \in Browser!Tasks
  <2>1. CASE t[1] # tab
    BY <1>2, <2>1
  <2>2. CASE t[1] = tab
    <3>1. 0 \in 0..MaxPairs
      BY <1>1
    <3>2. task'[t] = [Browser!Idle EXCEPT !.pc = IF t[2] = "main" THEN "unmounted" ELSE "idle"]
      BY <1>2, <2>2
    <3> QED BY <2>2, <3>1, <3>2 DEF Browser!Idle, TaskTypes, Browser!Answers
  <2> QED BY <2>1, <2>2
<1>4. Browser!TypeOK'
  <2>1. task' \in [Browser!Tasks -> TaskTypes]
    BY <1>1, <1>2, <1>3
  <2>2. lost' \subseteq 1..made
    <3> SUFFICES ASSUME NEW t \in Browser!Tasks, Browser!Exchanged(t) PROVE task[t].sent \in 1..made
      BY <1>2 DEF TabsInv, Browser!TypeOK
    <3>1. task[t].sent \in 0..made /\ task[t].sent # 0
      BY <1>1 DEF TabsInv, PairsAreMade, Browser!Exchanged, Browser!Asking, Browser!Refreshing
    <3> QED BY <1>1, <3>1
  <2> QED BY <1>1, <2>1, <2>2 DEF TabsInv, Browser!TypeOK, AuthTypes, TaskTypes
<1>5. PairsAreMade'
  BY <1>1, <1>3 DEF TabsInv, PairsAreMade, Browser!Asking, Browser!Refreshing
<1>6. \A t \in Browser!Tasks : brings(t) => Brings(t) /\ task'[t] = task[t]
  BY <1>3 DEF Brings
<1>7. PairsAreNew'
  <2> HIDE DEF brings
  <2>1. \A t \in Browser!Tasks : brings(t) =>
          /\ task'[t].pair \in live' /\ task'[t].pair # held'
          /\ \A u \in Browser!Tasks : task'[u].sent # task'[t].pair /\ ((brings(u) /\ u # t) => task'[u].pair # task'[t].pair)
    <3> SUFFICES ASSUME NEW t \in Browser!Tasks, brings(t), NEW u \in Browser!Tasks
                 PROVE  /\ task'[t].pair \in live' /\ task'[t].pair # held' /\ task'[u].sent # task'[t].pair
                        /\ (brings(u) /\ u # t) => task'[u].pair # task'[t].pair
      OBVIOUS
    <3>1. Brings(t) /\ task'[t] = task[t] /\ task[t].pair \in live /\ task[t].pair # held /\ task[u].sent # task[t].pair
      BY <1>6 DEF TabsInv, PairsAreNew
    <3>2. task'[u].sent \in {0, task[u].sent} /\ task[t].pair # 0
      BY <1>1, <1>3, <3>1 DEF TabsInv, Browser!TypeOK
    <3>3. (brings(u) /\ u # t) => task'[u].pair # task'[t].pair
      BY <1>6, <3>1 DEF TabsInv, PairsAreNew
    <3> QED BY <1>1, <3>1, <3>2, <3>3
  <2> USE DEF brings
  <2> QED BY <2>1 DEF PairsAreNew, Brings, Browser!Refreshing
<1>8. Browser!HeldIsUnused'
  <2> SUFFICES ASSUME held' # 0, held' \notin live', NEW t \in Browser!Tasks, Browser!Exchanged(t), task[t].sent = held
               PROVE  held' \in lost' \/ \E s \in Browser!Tasks : Browser!Exchanged(s)' /\ task'[s].sent = held'
    BY <1>1, <1>2 DEF TabsInv, Browser!HeldIsUnused
  <2>1. CASE t[1] = tab
    BY <1>1, <1>2, <2>1
  <2>2. CASE t[1] # tab
    BY <1>1, <1>3, <2>2 DEF Browser!Exchanged, Browser!Refreshing
  <2> QED BY <2>1, <2>2
<1> QED BY <1>4, <1>5, <1>7, <1>8 DEF TabsInv
-----------------------------------------------------------------------------
(***************************************************************************)
(* The theorem about the tabs.                                             *)
(***************************************************************************)

LEMMA TabsStart == ASSUME PartsAssumptions, Browser!Init PROVE TabsInv
<1>1. 0 \in 0..MaxPairs /\ 0 \in 0..MaxReloads /\ 0 \in 0..0
  BY DEF PartsAssumptions, Browser!SessionAssumption
<1>2. /\ held = 0 /\ live = {} /\ made = 0 /\ lost = {} /\ reloads = 0
      /\ pairOwner = [p \in 1..MaxPairs |-> NoUser]
      /\ auth = [tab \in Tabs |-> [user |-> NoUser, loading |-> TRUE, error |-> FALSE]]
      /\ task = [t \in Browser!Tasks |-> [Browser!Idle EXCEPT !.pc = IF t[2] = "main" THEN "unmounted" ELSE "idle"]]
  BY DEF Browser!Init
<1>3. \A t \in Browser!Tasks : /\ task[t] \in TaskTypes /\ task[t].pc \in {"unmounted", "idle"}
                               /\ task[t].sent = 0 /\ task[t].pair = 0 /\ task[t].answer = "none"
  BY <1>1, <1>2 DEF Browser!Idle, TaskTypes, Browser!Answers
<1>4. task \in [Browser!Tasks -> TaskTypes] /\ auth \in [Tabs -> AuthTypes]
  BY <1>2, <1>3 DEF AuthTypes
<1>5. Browser!TypeOK
  BY <1>1, <1>2, <1>4 DEF Browser!TypeOK, AuthTypes, TaskTypes
<1>6. PairsAreMade
  BY <1>1, <1>2, <1>3 DEF PairsAreMade, Browser!Asking, Browser!Refreshing
<1>7. PairsAreNew /\ Browser!HeldIsUnused
  BY <1>2, <1>3 DEF PairsAreNew, Brings, Browser!HeldIsUnused
<1> QED BY <1>5, <1>6, <1>7 DEF TabsInv

LEMMA TabsKeep == ASSUME PartsAssumptions, TabsInv, TabsNext PROVE TabsInv'
<1>1. Typing
  BY DEF TabsInv, Typing
<1>2. TabStep /\ auth' \in [Tabs -> AuthTypes] /\ reloads' \in 0..MaxReloads
  BY <1>1, TabSteps
<1> QED BY <1>2, RefusesKeeps, ExchangesKeeps, GoesOnKeeps, DropsKeeps, ReloadKeeps DEF TabStep

LEMMA TabsStutter == ASSUME TabsInv, UNCHANGED tabVars PROVE TabsInv'
  BY DEF TabsInv, tabVars, Browser!TypeOK, PairsAreMade, PairsAreNew, Brings, Browser!HeldIsUnused,
     Browser!Exchanged, Browser!Refreshing, Browser!Asking

LEMMA TabsInductive == ASSUME PartsAssumptions PROVE PartsSpec => []TabsInv
<1>1. PartsInit => TabsInv
  BY TabsStart DEF PartsInit
<1>2. TabsInv /\ [PartsNext]_<<tokenVars, tabVars, updateVars, part>> => TabsInv'
  <2> SUFFICES ASSUME TabsInv, [PartsNext]_<<tokenVars, tabVars, updateVars, part>> PROVE TabsInv'
    OBVIOUS
  <2>1. TabsNext \/ UNCHANGED tabVars
    BY DEF PartsNext, TabsNext
  <2> QED BY <2>1, TabsKeep, TabsStutter
<1> QED BY <1>1, <1>2, PTL DEF PartsSpec

\* A browser never goes on with a pair of tokens whose refresh token is used up, unless the
\* answer to the refresh that used it is still awaited or a reload has lost it, however many
\* tabs share the pair, and whether or not the server answers a login as the tabs expect.
THEOREM PairHeldIsUnused == ASSUME PartsAssumptions PROVE PartsSpec => []HeldIsUnused
<1>1. TabsInv => HeldIsUnused
  BY DEF TabsInv, HeldIsUnused
<1> QED BY <1>1, TabsInductive, PTL
-----------------------------------------------------------------------------
(***************************************************************************)
(* The invariant of what the tabs are told.                                *)
(***************************************************************************)

\* A call that is under way has something to announce, and a subscription asks for something.
Announcing == \A w \in Tabs : writer[w].ex # NoExecution => writer[w].todo \in 1..3

Subscribing == \A s \in Sockets : asking[s] = Updates!Silent \/ (asking[s].ex \in Executions /\ asking[s].status # "none")

About(q, e) == \E i \in DOMAIN q : q[i].ex = e

\* Of an execution that does not exist nobody says anything.
NothingOfNothing ==
  \A e \in Executions : row[e].status = "none" =>
    /\ ~Updates!Busy(e)
    /\ \A s \in Sockets : /\ ~About(pipe[s], e) /\ view[s][e] = "none"
                          /\ asking[s].ex = e => asking[s].status = "asked"

\* While announcements do not overlap, the one call has what it announces from the row.
OneAnnounces ==
  \A e \in Executions : e \notin crossed =>
    \A w \in Tabs : writer[w].ex = e =>
      writer[w].status = row[e].status /\ \A v \in Tabs : writer[v].ex = e => v = w

\* The last word about e is st: of what is on its way, and else of what is shown.
LastWord(q, shown, e, st) ==
  /\ \A i \in DOMAIN q : q[i].ex = e /\ (\A j \in DOMAIN q : j > i => q[j].ex # e) => q[i].status = st
  /\ ~About(q, e) => shown \in {"none", st}

\* A tab that has missed nothing of an execution reads while no call is under way, and the
\* last word it gets is the row's.
WordIsTrue(s, e) ==
  e \notin crossed /\ <<s, e>> \notin missed =>
    /\ asking[s].ex = e => ~Updates!Busy(e) /\ asking[s].status \in {"asked", row[e].status}
    /\ ~Updates!Busy(e) => LastWord(pipe[s], view[s][e], e, row[e].status)

WordsAreTrue == \A s \in Sockets, e \in Executions : WordIsTrue(s, e)

UpdatesInv ==
  Updates!TypeOK /\ Announcing /\ Subscribing /\ NothingOfNothing /\ OneAnnounces /\ WordsAreTrue
-----------------------------------------------------------------------------
(***************************************************************************)
(* The last word of a sequence of messages.                                *)
(***************************************************************************)

LEMMA LastWordAppend ==
  ASSUME NEW S, NEW q \in Seq(S), NEW m \in S, NEW shown, NEW e, NEW st
  PROVE  /\ About(Append(q, m), e) <=> About(q, e) \/ m.ex = e
         /\ m.ex # e /\ LastWord(q, shown, e, st) => LastWord(Append(q, m), shown, e, st)
         /\ m.ex = e /\ m.status = st => LastWord(Append(q, m), shown, e, st)
<1> DEFINE n == Len(q)
           r == Append(q, m)
<1>1. /\ n \in Nat /\ DOMAIN q = 1..n /\ DOMAIN r = 1..n+1 /\ r[n+1] = m
      /\ \A i \in 1..n : r[i] = q[i]
  BY AppendProperties, LenProperties
<1> HIDE DEF r, n
<1>2. /\ 1..n \subseteq 1..n+1 /\ n+1 \in 1..n+1
      /\ \A i \in 1..n+1 : i = n+1 \/ (i \in 1..n /\ n+1 > i)
      /\ \A i \in 1..n : n+1 > i
      /\ \A j \in 1..n+1 : ~(j > n+1)
  BY <1>1
<1>3. About(r, e) <=> About(q, e) \/ m.ex = e
  <2>1. ASSUME NEW i \in DOMAIN r, r[i].ex = e PROVE About(q, e) \/ m.ex = e
    BY <1>1, <1>2, <2>1 DEF About
  <2> QED BY <1>1, <1>2, <2>1 DEF About
<1>4. ASSUME m.ex # e, LastWord(q, shown, e, st) PROVE LastWord(r, shown, e, st)
  <2> SUFFICES ASSUME NEW i \in DOMAIN r, r[i].ex = e, \A j \in DOMAIN r : j > i => r[j].ex # e
               PROVE  r[i].status = st
    BY <1>3, <1>4 DEF LastWord
  <2>1. i \in 1..n /\ r[i] = q[i]
    BY <1>1, <1>2, <1>4
  <2>2. \A j \in DOMAIN q : j > i => q[j].ex # e
    BY <1>1, <1>2
  <2> QED BY <1>1, <1>4, <2>1, <2>2 DEF LastWord
<1>5. ASSUME m.ex = e, m.status = st PROVE LastWord(r, shown, e, st)
  <2>1. ASSUME NEW i \in DOMAIN r, \A j \in DOMAIN r : j > i => r[j].ex # e PROVE i = n+1
    BY <1>1, <1>2, <1>5, <2>1
  <2> QED BY <1>1, <1>3, <1>5, <2>1 DEF LastWord
<1> QED BY <1>3, <1>4, <1>5 DEF r

LEMMA LastWordReceived ==
  ASSUME NEW S, NEW q \in Seq(S), q # <<>>, NEW shown, NEW e, NEW st
  PROVE  /\ About(Tail(q), e) => About(q, e)
         /\ LastWord(q, shown, e, st)
              => LastWord(Tail(q), IF Head(q).ex = e THEN Head(q).status ELSE shown, e, st)
<1> DEFINE n == Len(q)
           r == Tail(q)
<1>1. /\ n \in Nat /\ n >= 1 /\ DOMAIN q = 1..n /\ DOMAIN r = 1..n-1 /\ Head(q) = q[1]
      /\ \A i \in 1..n-1 : r[i] = q[i+1]
  <2>1. Head(q) = q[1] /\ r \in Seq(S) /\ Len(r) = n - 1 /\ \A i \in 1..Len(r) : r[i] = q[i+1]
    BY HeadTailProperties
  <2>2. n \in Nat /\ DOMAIN q = 1..n /\ DOMAIN r = 1..Len(r)
    BY <2>1, LenProperties
  <2>3. n # 0
    BY <2>2, EmptySeq
  <2> HIDE DEF r, n
  <2> QED BY <2>1, <2>2, <2>3
<1> HIDE DEF r, n
<1>2. /\ \A i \in 1..n-1 : i+1 \in 1..n
      /\ \A i \in 1..n : i = 1 \/ (i-1 \in 1..n-1 /\ (i-1)+1 = i)
      /\ \A i, j \in 1..n-1 : j > i <=> j+1 > i+1
      /\ 1 \in 1..n /\ \A j \in 1..n : j > 1 => j-1 \in 1..n-1
  BY <1>1
<1>3. \A i \in DOMAIN q : i = 1 \/ (i-1 \in DOMAIN r /\ r[i-1] = q[i])
  BY <1>1, <1>2
<1>4. About(r, e) => About(q, e)
  BY <1>1, <1>2 DEF About
<1>5. ASSUME LastWord(q, shown, e, st)
      PROVE  LastWord(r, IF Head(q).ex = e THEN Head(q).status ELSE shown, e, st)
  <2>1. ASSUME NEW i \in DOMAIN r, r[i].ex = e, \A j \in DOMAIN r : j > i => r[j].ex # e
        PROVE  r[i].status = st
    <3>1. i+1 \in DOMAIN q /\ q[i+1] = r[i]
      BY <1>1, <1>2
    <3>2. ASSUME NEW j \in DOMAIN q, j > i+1 PROVE q[j].ex # e
      <4>1. j-1 \in DOMAIN r /\ j-1 > i /\ r[j-1] = q[j]
        BY <1>1, <1>3, <3>2
      <4> QED BY <2>1, <4>1
    <3> QED BY <1>5, <2>1, <3>1, <3>2 DEF LastWord
  <2>2. ASSUME ~About(r, e) PROVE (IF Head(q).ex = e THEN Head(q).status ELSE shown) \in {"none", st}
    <3>1. \A j \in DOMAIN q : j > 1 => q[j].ex # e
      BY <1>1, <1>3, <2>2 DEF About
    <3>2. CASE Head(q).ex = e
      BY <1>1, <1>2, <1>5, <3>1, <3>2 DEF LastWord
    <3>3. CASE Head(q).ex # e
      <4>1. ~About(q, e)
        BY <1>1, <1>3, <2>2, <3>3 DEF About
      <4> QED BY <1>5, <3>3, <4>1 DEF LastWord
    <3> QED BY <3>2, <3>3
  <2> QED BY <2>1, <2>2 DEF LastWord
<1> QED BY <1>4, <1>5 DEF r

LEMMA LastWordLost ==
  ASSUME NEW q, NEW shown, NEW e, NEW st, ~About(q, e), LastWord(q, shown, e, st)
  PROVE  LastWord(<<>>, shown, e, st)
  BY DEF LastWord, About
-----------------------------------------------------------------------------
(***************************************************************************)
(* The steps of the updates.                                               *)
(***************************************************************************)

RowTypes == [owner : People \cup {NoUser}, status : Updates!Statuses \cup {"none"}]
WriterTypes == [ex : Executions \cup {NoExecution}, status : Updates!Statuses, todo : 0..3]
AskingTypes == [ex : Executions \cup {NoExecution}, status : Updates!Statuses \cup {"none", "asked"}]
client == <<sock, rooms, asking, wants>>

UpdateTypes == Updates!TypeOK /\ Announcing /\ Subscribing

LEMMA UpdateTypeParts ==
  ASSUME UpdateTypes
  PROVE  /\ row \in [Executions -> RowTypes] /\ writer \in [Tabs -> WriterTypes]
         /\ sock \in [Sockets -> People \cup {NoUser}] /\ rooms \in [Sockets -> SUBSET Executions]
         /\ asking \in [Sockets -> AskingTypes]
         /\ pipe \in [Sockets -> Seq(Updates!Messages)]
         /\ view \in [Sockets -> [Executions -> Updates!Statuses \cup {"none"}]]
         /\ wants \in [Sockets -> SUBSET Executions]
         /\ crossed \subseteq Executions /\ missed \subseteq Sockets \X Executions
         /\ writes \in 0..MaxWrites /\ drops \in 0..MaxDrops
  BY DEF UpdateTypes, Updates!TypeOK, RowTypes, WriterTypes, AskingTypes

\* A call writes the status it will announce.
LEMMA WroteTypes ==
  ASSUME PartsAssumptions, UpdateTypes, NEW w \in Tabs, NEW e \in Executions,
         NEW st \in Updates!Statuses, NEW n \in 1..3, Updates!Wrote(w, e, st, n)
  PROVE  UpdateTypes'
<1>1. /\ row' = [row EXCEPT ![e].status = st] /\ writer' = [writer EXCEPT ![w] = [ex |-> e, status |-> st, todo |-> n]]
      /\ crossed' \subseteq crossed \cup {e} /\ missed' = missed \cup {<<t, e>> : t \in {t \in Sockets : asking[t].ex = e}}
      /\ writes < MaxWrites /\ writes' = writes + 1
      /\ UNCHANGED <<pipe, view, client, drops>>
  BY DEF Updates!Wrote, Updates!client, client
<1>2. row' \in [Executions -> RowTypes]
  <2>1. row \in [Executions -> RowTypes]
    BY UpdateTypeParts
  <2> QED BY <1>1, <2>1 DEF RowTypes
<1>3. writer' \in [Tabs -> WriterTypes]
  <2>1. [ex |-> e, status |-> st, todo |-> n] \in WriterTypes
    BY DEF WriterTypes
  <2> QED BY <1>1, <2>1, UpdateTypeParts
<1>4. writes' \in 0..MaxWrites
  BY <1>1, UpdateTypeParts DEF PartsAssumptions, Updates!LiveUpdatesAssumption
<1>5. crossed' \subseteq Executions /\ missed' \subseteq Sockets \X Executions
  BY <1>1, UpdateTypeParts
<1>6. Updates!TypeOK'
  BY <1>1, <1>2, <1>3, <1>4, <1>5 DEF UpdateTypes, Updates!TypeOK, RowTypes, WriterTypes, client
<1>7. Announcing'
  <2> SUFFICES ASSUME NEW v \in Tabs, writer'[v].ex # NoExecution PROVE writer'[v].todo \in 1..3
    BY DEF Announcing
  <2> QED BY <1>1, UpdateTypeParts DEF UpdateTypes, Announcing
<1>8. Subscribing'
  BY <1>1 DEF UpdateTypes, Subscribing, client, Updates!Silent
<1> QED BY <1>6, <1>7, <1>8 DEF UpdateTypes

\* A call has one event less to announce.
LEMMA RestedTypes ==
  ASSUME PartsAssumptions, UpdateTypes, NEW w \in Tabs, writer[w].ex # NoExecution, Updates!Rested(w)
  PROVE  /\ writer' \in [Tabs -> WriterTypes] /\ Announcing'
         /\ \A v \in Tabs : v # w => writer'[v] = writer[v]
         /\ \/ writer[w].todo = 1 /\ writer'[w] = Updates!Quiet
            \/ writer'[w].ex = writer[w].ex /\ writer'[w].status = writer[w].status
<1>1. /\ writer \in [Tabs -> WriterTypes] /\ writer[w] \in WriterTypes /\ writer[w].todo \in 1..3
      /\ \A v \in Tabs : writer[v].ex # NoExecution => writer[v].todo \in 1..3
  BY UpdateTypeParts DEF UpdateTypes, Announcing
<1>2. CASE writer[w].todo = 1
  <2>1. writer' = [writer EXCEPT ![w] = Updates!Quiet] /\ Updates!Quiet \in WriterTypes
    BY <1>2 DEF Updates!Rested, Updates!Quiet, WriterTypes, Updates!Statuses, Updates!Active
  <2>2. writer' \in [Tabs -> WriterTypes] /\ writer'[w] = Updates!Quiet /\ \A v \in Tabs : v # w => writer'[v] = writer[v]
    BY <1>1, <2>1
  <2>3. \A v \in Tabs : writer'[v].ex # NoExecution => writer'[v].todo \in 1..3
    BY <1>1, <2>2 DEF Updates!Quiet
  <2> QED BY <1>2, <2>2, <2>3 DEF Announcing
<1>3. CASE writer[w].todo # 1
  <2>1. /\ writer' = [writer EXCEPT ![w] = [writer[w] EXCEPT !.todo = writer[w].todo - 1]]
        /\ writer[w].todo - 1 \in 1..3 /\ writer[w].todo - 1 \in 0..3
    <3>1. writer' = [writer EXCEPT ![w] = [writer[w] EXCEPT !.todo = writer[w].todo - 1]]
      BY <1>1, <1>3 DEF Updates!Rested
    <3>2. writer[w].todo - 1 \in 1..3 /\ writer[w].todo - 1 \in 0..3
      BY <1>1, <1>3
    <3> QED BY <3>1, <3>2
  <2>2. /\ [writer[w] EXCEPT !.todo = writer[w].todo - 1] \in WriterTypes
        /\ [writer[w] EXCEPT !.todo = writer[w].todo - 1].todo \in 1..3
        /\ [writer[w] EXCEPT !.todo = writer[w].todo - 1].ex = writer[w].ex
        /\ [writer[w] EXCEPT !.todo = writer[w].todo - 1].status = writer[w].status
    BY <1>1, <2>1 DEF WriterTypes
  <2>3. /\ writer' \in [Tabs -> WriterTypes] /\ \A v \in Tabs : v # w => writer'[v] = writer[v]
        /\ writer'[w] = [writer[w] EXCEPT !.todo = writer[w].todo - 1]
    BY <1>1, <2>1, <2>2
  <2>4. \A v \in Tabs : writer'[v].ex # NoExecution => writer'[v].todo \in 1..3
    BY <1>1, <2>2, <2>3
  <2> QED BY <2>2, <2>3, <2>4 DEF Announcing
<1> QED BY <1>2, <1>3
\* Each of the other steps of the service leaves the types as they are.
LEMMA ServiceTypes ==
  ASSUME PartsAssumptions, UpdateTypes,
         \/ \E u \in People, e \in Executions : Updates!Create(u, e)
         \/ \E w \in Tabs : Updates!Emit(w) \/ Updates!EmitFailed(w)
  PROVE  UpdateTypes'
<1>1. ASSUME NEW u \in People, NEW e \in Executions, Updates!Create(u, e) PROVE UpdateTypes'
  <2>1. [owner |-> u, status |-> "PENDING"] \in RowTypes
    BY DEF RowTypes, Updates!Statuses, Updates!Active
  <2>2. row' \in [Executions -> RowTypes]
    BY <1>1, <2>1, UpdateTypeParts DEF Updates!Create
  <2>3. UNCHANGED <<writer, pipe, view, client, crossed, missed, writes, drops>>
    BY <1>1 DEF Updates!Create, Updates!client, client
  <2> QED BY <2>2, <2>3 DEF UpdateTypes, Updates!TypeOK, RowTypes, client, Announcing, Subscribing, Updates!Silent
<1>2. ASSUME NEW w \in Tabs, Updates!Emit(w) PROVE UpdateTypes'
  <2>1. /\ writer[w].ex # NoExecution /\ Updates!Rested(w)
        /\ UNCHANGED <<row, view, client, crossed, writes, drops>>
        /\ pipe' = [s \in Sockets |-> IF s \in Updates!Listeners(writer[w].ex) THEN Append(pipe[s], Updates!Announced(w))
                                      ELSE pipe[s]]
        /\ missed' = missed \cup {<<s, writer[w].ex>> : s \in Sockets \ Updates!Listeners(writer[w].ex)}
    BY <1>2 DEF Updates!Emit, Updates!client, client
  <2>2. writer[w].ex \in Executions /\ Updates!Announced(w) \in Updates!Messages
    BY <2>1, UpdateTypeParts DEF WriterTypes, Updates!Announced, Updates!Messages
  <2>3. pipe' \in [Sockets -> Seq(Updates!Messages)]
    BY <2>1, <2>2, UpdateTypeParts, AppendProperties
  <2>4. missed' \subseteq Sockets \X Executions
    BY <2>1, <2>2, UpdateTypeParts
  <2>5. writer' \in [Tabs -> WriterTypes] /\ Announcing'
    BY <2>1, RestedTypes
  <2> QED BY <2>1, <2>3, <2>4, <2>5 DEF UpdateTypes, Updates!TypeOK, WriterTypes, client, Subscribing, Updates!Silent
<1>3. ASSUME NEW w \in Tabs, Updates!EmitFailed(w) PROVE UpdateTypes'
  <2>1. /\ writer[w].ex # NoExecution /\ Updates!Rested(w) /\ drops < MaxDrops /\ drops' = drops + 1
        /\ UNCHANGED <<row, pipe, view, client, crossed, writes>>
        /\ missed' = missed \cup (Sockets \X {writer[w].ex})
    BY <1>3 DEF Updates!EmitFailed, Updates!client, client
  <2>2. writer[w].ex \in Executions /\ drops' \in 0..MaxDrops
    <3>1. drops \in 0..MaxDrops /\ MaxDrops \in Nat
      BY UpdateTypeParts DEF PartsAssumptions, Updates!LiveUpdatesAssumption
    <3> QED BY <2>1, <3>1, UpdateTypeParts DEF WriterTypes
  <2>3. missed' \subseteq Sockets \X Executions
    BY <2>1, <2>2, UpdateTypeParts
  <2>4. writer' \in [Tabs -> WriterTypes] /\ Announcing'
    BY <2>1, RestedTypes
  <2> QED BY <2>1, <2>2, <2>3, <2>4 DEF UpdateTypes, Updates!TypeOK, WriterTypes, client, Subscribing, Updates!Silent
<1> QED BY <1>1, <1>2, <1>3

\* Nor does a step of a socket change them.
LEMMA SocketTypes ==
  ASSUME PartsAssumptions, UpdateTypes, NEW s \in Sockets,
         \/ \E u \in People : Updates!Connect(s, u)
         \/ \E e \in Executions : Updates!Subscribe(s, e) \/ Updates!Unsubscribe(s, e)
         \/ Updates!Drop(s) \/ Updates!SubscribeRead(s) \/ Updates!SubscribeJoin(s) \/ Updates!Receive(s)
  PROVE  UpdateTypes'
<1>0. /\ asking[s] \in AskingTypes /\ asking \in [Sockets -> AskingTypes] /\ pipe[s] \in Seq(Updates!Messages)
      /\ wants \in [Sockets -> SUBSET Executions] /\ rooms \in [Sockets -> SUBSET Executions]
      /\ NoExecution \notin Executions /\ MaxDrops \in Nat /\ drops \in 0..MaxDrops
      /\ \A t \in Sockets : asking[t] = Updates!Silent \/ (asking[t].ex \in Executions /\ asking[t].status # "none")
      /\ Updates!Silent \in AskingTypes
  BY UpdateTypeParts DEF UpdateTypes, Subscribing, PartsAssumptions, Updates!LiveUpdatesAssumption,
     Updates!Silent, AskingTypes
<1>1. ASSUME NEW u \in People, Updates!Connect(s, u) PROVE UpdateTypes'
  <2>1. sock' \in [Sockets -> People \cup {NoUser}]
    BY <1>1, UpdateTypeParts DEF Updates!Connect
  <2> QED BY <1>1, <2>1 DEF Updates!Connect, UpdateTypes, Updates!TypeOK, Announcing, Subscribing, Updates!Silent
<1>2. ASSUME NEW e \in Executions, Updates!Subscribe(s, e) PROVE UpdateTypes'
  <2>1. /\ asking' = [asking EXCEPT ![s] = [ex |-> e, status |-> "asked"]]
        /\ wants' = [wants EXCEPT ![s] = @ \cup {e}] /\ missed' \subseteq missed \cup {<<s, e>>}
        /\ UNCHANGED <<row, writer, sock, rooms, pipe, view, crossed, writes, drops>>
    BY <1>2 DEF Updates!Subscribe
  <2>2. [ex |-> e, status |-> "asked"] \in AskingTypes
    BY DEF AskingTypes
  <2>3. asking' \in [Sockets -> AskingTypes] /\ wants' \in [Sockets -> SUBSET Executions]
        /\ missed' \subseteq Sockets \X Executions
    BY <1>0, <2>1, <2>2, UpdateTypeParts
  <2>4. Subscribing'
    BY <1>0, <2>1 DEF Subscribing, Updates!Silent
  <2> QED BY <2>1, <2>3, <2>4 DEF UpdateTypes, Updates!TypeOK, AskingTypes, Announcing
<1>3. ASSUME NEW e \in Executions, Updates!Unsubscribe(s, e) PROVE UpdateTypes'
  <2>1. rooms' \in [Sockets -> SUBSET Executions] /\ wants' \in [Sockets -> SUBSET Executions]
    BY <1>0, <1>3 DEF Updates!Unsubscribe
  <2> QED BY <1>3, <2>1 DEF Updates!Unsubscribe, UpdateTypes, Updates!TypeOK, Announcing, Subscribing, Updates!Silent
<1>4. CASE Updates!Drop(s)
  <2>1. /\ sock' = [sock EXCEPT ![s] = NoUser] /\ rooms' = [rooms EXCEPT ![s] = {}]
        /\ asking' = [asking EXCEPT ![s] = Updates!Silent] /\ wants' = [wants EXCEPT ![s] = {}]
        /\ pipe' = [pipe EXCEPT ![s] = <<>>] /\ missed' = missed \cup {<<s, pipe[s][i].ex>> : i \in DOMAIN pipe[s]}
        /\ drops < MaxDrops /\ drops' = drops + 1 /\ UNCHANGED <<row, writer, view, crossed, writes>>
    BY <1>4 DEF Updates!Drop
  <2>2. /\ sock' \in [Sockets -> People \cup {NoUser}] /\ rooms' \in [Sockets -> SUBSET Executions]
        /\ asking' \in [Sockets -> AskingTypes] /\ wants' \in [Sockets -> SUBSET Executions]
    BY <1>0, <2>1, UpdateTypeParts
  <2>3. drops' \in 0..MaxDrops
    BY <1>0, <2>1
  <2>4. pipe' \in [Sockets -> Seq(Updates!Messages)]
    BY <2>1, EmptySeq, UpdateTypeParts
  <2>5. missed' \subseteq Sockets \X Executions
    <3>1. \A i \in DOMAIN pipe[s] : pipe[s][i].ex \in Executions
      <4>1. \A i \in DOMAIN pipe[s] : pipe[s][i] \in Updates!Messages
        BY <1>0, LenProperties, ElementOfSeq
      <4> QED BY <4>1 DEF Updates!Messages
    <3> QED BY <2>1, <3>1, UpdateTypeParts
  <2>6. Subscribing'
    BY <1>0, <2>1 DEF Subscribing, Updates!Silent
  <2> QED BY <2>1, <2>2, <2>3, <2>4, <2>5, <2>6 DEF UpdateTypes, Updates!TypeOK, AskingTypes, Announcing
<1>5. CASE Updates!SubscribeRead(s)
  <2> DEFINE a == IF Updates!MayRead(s, asking[s].ex) THEN [asking[s] EXCEPT !.status = row[asking[s].ex].status]
                  ELSE Updates!Silent
  <2>1. /\ asking' = [asking EXCEPT ![s] = a] /\ asking[s].status = "asked"
        /\ \/ wants' = wants
           \/ wants' = [wants EXCEPT ![s] = @ \ {asking[s].ex}]
        /\ UNCHANGED <<row, writer, sock, rooms, pipe, view, crossed, missed, writes, drops>>
    BY <1>5 DEF Updates!SubscribeRead
  <2>2. asking[s].ex \in Executions
    BY <1>0, <2>1 DEF Updates!Silent
  <2>3. a \in AskingTypes /\ (a = Updates!Silent \/ (a.ex \in Executions /\ a.status # "none"))
    <3>1. row[asking[s].ex].status \in Updates!Statuses \cup {"none"}
      BY <2>2, UpdateTypeParts DEF RowTypes
    <3>2. CASE Updates!MayRead(s, asking[s].ex)
      <4>1. a = [asking[s] EXCEPT !.status = row[asking[s].ex].status] /\ row[asking[s].ex].status # "none"
        BY <3>2 DEF Updates!MayRead
      <4> QED BY <1>0, <2>2, <3>1, <4>1 DEF AskingTypes
    <3> QED BY <1>0, <3>2
  <2> HIDE DEF a
  <2>4. asking' \in [Sockets -> AskingTypes] /\ wants' \in [Sockets -> SUBSET Executions]
    BY <1>0, <2>1, <2>3
  <2>5. Subscribing'
    BY <1>0, <2>1, <2>3 DEF Subscribing, Updates!Silent
  <2> QED BY <2>1, <2>4, <2>5 DEF UpdateTypes, Updates!TypeOK, AskingTypes, Announcing
<1>6. CASE Updates!SubscribeJoin(s)
  <2>1. /\ asking[s].status \in Updates!Statuses
        /\ rooms' = [rooms EXCEPT ![s] = @ \cup {asking[s].ex}] /\ pipe' = [pipe EXCEPT ![s] = Append(pipe[s], asking[s])]
        /\ asking' = [asking EXCEPT ![s] = Updates!Silent]
        /\ UNCHANGED <<row, writer, sock, view, wants, crossed, missed, writes, drops>>
    BY <1>6 DEF Updates!SubscribeJoin
  <2>2. asking[s].ex \in Executions
    BY <1>0, <2>1 DEF Updates!Silent, Updates!Statuses, Updates!Active, Updates!Finished
  <2>3. asking[s] \in Updates!Messages
    BY <1>0, <2>1, <2>2 DEF AskingTypes, Updates!Messages
  <2>4. pipe' \in [Sockets -> Seq(Updates!Messages)]
    BY <1>0, <2>1, <2>3, AppendProperties, UpdateTypeParts
  <2>5. asking' \in [Sockets -> AskingTypes] /\ rooms' \in [Sockets -> SUBSET Executions]
    BY <1>0, <2>1, <2>2
  <2>6. Subscribing'
    BY <1>0, <2>1 DEF Subscribing, Updates!Silent
  <2> QED BY <2>1, <2>4, <2>5, <2>6 DEF UpdateTypes, Updates!TypeOK, AskingTypes, Announcing
<1>7. CASE Updates!Receive(s)
  <2>1. /\ pipe[s] # <<>> /\ view' = [view EXCEPT ![s][Head(pipe[s]).ex] = Head(pipe[s]).status]
        /\ pipe' = [pipe EXCEPT ![s] = Tail(pipe[s])]
        /\ UNCHANGED <<row, writer, client, crossed, missed, writes, drops>>
    BY <1>7 DEF Updates!Receive, Updates!client, client
  <2>2. Head(pipe[s]) \in Updates!Messages /\ Tail(pipe[s]) \in Seq(Updates!Messages)
    BY <1>0, <2>1, HeadTailProperties
  <2>3. pipe' \in [Sockets -> Seq(Updates!Messages)]
    BY <2>1, <2>2, UpdateTypeParts
  <2>4. view' \in [Sockets -> [Executions -> Updates!Statuses \cup {"none"}]]
    BY <2>1, <2>2, UpdateTypeParts DEF Updates!Messages
  <2> QED BY <2>1, <2>3, <2>4 DEF UpdateTypes, Updates!TypeOK, client, Announcing, Subscribing, Updates!Silent
<1> QED BY <1>1, <1>2, <1>3, <1>4, <1>5, <1>6, <1>7

LEMMA UpdateTypesKept == ASSUME PartsAssumptions, UpdateTypes, Updates!Next PROVE UpdateTypes'
<1>1. \A w \in Tabs, e \in Executions :
        Updates!Trigger(w, e) \/ Updates!UpdateStatus(w, e) \/ Updates!CancelExecution(w, e)
          => \E st \in Updates!Statuses, n \in 1..3 : Updates!Wrote(w, e, st, n)
  BY DEF Updates!Trigger, Updates!UpdateStatus, Updates!CancelExecution, Updates!Statuses, Updates!Active,
     Updates!Finished
<1> QED BY <1>1, WroteTypes, ServiceTypes, SocketTypes DEF Updates!Next
-----------------------------------------------------------------------------
(***************************************************************************)
(* Each step of the updates keeps the last words true.                     *)
(***************************************************************************)

\* The parts of the invariant that are not about types, of one execution and of one tab.
LEMMA UpdatesFacts ==
  ASSUME UpdatesInv, NEW e \in Executions
  PROVE  /\ row[e].status = "none" =>
              /\ \A v \in Tabs : writer[v].ex # e
              /\ \A s \in Sockets : /\ ~About(pipe[s], e) /\ view[s][e] = "none"
                                    /\ asking[s].ex = e => asking[s].status = "asked"
         /\ \A w \in Tabs : e \notin crossed /\ writer[w].ex = e =>
              writer[w].status = row[e].status /\ \A v \in Tabs : writer[v].ex = e => v = w
         /\ \A s \in Sockets : e \notin crossed /\ <<s, e>> \notin missed =>
              /\ asking[s].ex = e => (\A v \in Tabs : writer[v].ex # e) /\ asking[s].status \in {"asked", row[e].status}
              /\ (\A v \in Tabs : writer[v].ex # e) => LastWord(pipe[s], view[s][e], e, row[e].status)
<1>1. Updates!Busy(e) <=> ~(\A v \in Tabs : writer[v].ex # e)
  BY DEF Updates!Busy
<1>2. NothingOfNothing /\ OneAnnounces /\ WordsAreTrue
  BY DEF UpdatesInv
<1> QED BY <1>1, <1>2 DEF NothingOfNothing, OneAnnounces, WordsAreTrue, WordIsTrue

\* They suffice, after a step.
LEMMA UpdatesSuffice ==
  ASSUME UpdateTypes',
         \A e \in Executions :
           /\ row'[e].status = "none" =>
                /\ \A v \in Tabs : writer'[v].ex # e
                /\ \A s \in Sockets : /\ ~About(pipe'[s], e) /\ view'[s][e] = "none"
                                      /\ asking'[s].ex = e => asking'[s].status = "asked"
           /\ \A w \in Tabs : e \notin crossed' /\ writer'[w].ex = e =>
                writer'[w].status = row'[e].status /\ \A v \in Tabs : writer'[v].ex = e => v = w
           /\ \A s \in Sockets : e \notin crossed' /\ <<s, e>> \notin missed' =>
                /\ asking'[s].ex = e => (\A v \in Tabs : writer'[v].ex # e) /\ asking'[s].status \in {"asked", row'[e].status}
                /\ (\A v \in Tabs : writer'[v].ex # e) => LastWord(pipe'[s], view'[s][e], e, row'[e].status)
  PROVE  UpdatesInv'
<1>1. NothingOfNothing'
  BY DEF NothingOfNothing, About, Updates!Busy
<1>2. OneAnnounces'
  BY DEF OneAnnounces
<1>3. WordsAreTrue'
  BY DEF WordsAreTrue, WordIsTrue, LastWord, About, Updates!Busy
<1> QED BY <1>1, <1>2, <1>3 DEF UpdatesInv, UpdateTypes

LEMMA WroteKeeps ==
  ASSUME PartsAssumptions, UpdatesInv, UpdateTypes', NEW w \in Tabs, NEW e \in Executions,
         NEW st \in Updates!Statuses, NEW n \in 1..3,
         writer[w] = Updates!Quiet, row[e].status # "none", Updates!Wrote(w, e, st, n)
  PROVE  UpdatesInv'
<1>1. /\ row' = [row EXCEPT ![e].status = st] /\ writer' = [writer EXCEPT ![w] = [ex |-> e, status |-> st, todo |-> n]]
      /\ crossed' = (IF Updates!Busy(e) THEN crossed \cup {e} ELSE crossed)
      /\ missed' = missed \cup {<<t, e>> : t \in {t \in Sockets : asking[t].ex = e}}
      /\ UNCHANGED <<pipe, view, asking>>
  BY DEF Updates!Wrote, Updates!client
<1>2. row \in [Executions -> RowTypes] /\ writer \in [Tabs -> WriterTypes] /\ NoExecution \notin Executions
  BY UpdateTypeParts DEF UpdatesInv, UpdateTypes, PartsAssumptions, Updates!LiveUpdatesAssumption
<1>3. /\ row'[e].status = st /\ \A f \in Executions : f # e => row'[f] = row[f]
      /\ writer'[w].ex = e /\ writer'[w].status = st /\ \A v \in Tabs : v # w => writer'[v] = writer[v]
      /\ writer[w].ex = NoExecution
  BY <1>1, <1>2 DEF RowTypes, Updates!Quiet
<1>4. st # "none"
  BY DEF Updates!Statuses, Updates!Active, Updates!Finished
<1>5. ASSUME NEW f \in Executions, f # e
      PROVE  /\ row'[f] = row[f] /\ (\A v \in Tabs : writer'[v].ex = f <=> writer[v].ex = f)
             /\ (\A v \in Tabs : writer'[v].ex = f => writer'[v] = writer[v])
             /\ (f \in crossed' <=> f \in crossed) /\ \A s \in Sockets : <<s, f>> \in missed' <=> <<s, f>> \in missed
  BY <1>1, <1>2, <1>3, <1>5
<1>6. e \notin crossed' => \A v \in Tabs : writer'[v].ex = e => v = w
  BY <1>1, <1>3 DEF Updates!Busy
<1>7. \A s \in Sockets : asking[s].ex = e => <<s, e>> \in missed'
  BY <1>1
<1> HIDE DEF PartsAssumptions
<1>8. ASSUME NEW f \in Executions
      PROVE  /\ row'[f].status = "none" =>
                  /\ \A v \in Tabs : writer'[v].ex # f
                  /\ \A s \in Sockets : /\ ~About(pipe'[s], f) /\ view'[s][f] = "none"
                                        /\ asking'[s].ex = f => asking'[s].status = "asked"
             /\ \A x \in Tabs : f \notin crossed' /\ writer'[x].ex = f =>
                  writer'[x].status = row'[f].status /\ \A v \in Tabs : writer'[v].ex = f => v = x
             /\ \A s \in Sockets : f \notin crossed' /\ <<s, f>> \notin missed' =>
                  /\ asking'[s].ex = f => (\A v \in Tabs : writer'[v].ex # f) /\ asking'[s].status \in {"asked", row'[f].status}
                  /\ (\A v \in Tabs : writer'[v].ex # f) => LastWord(pipe'[s], view'[s][f], f, row'[f].status)
  <2>1. CASE f = e
    BY <1>1, <1>3, <1>4, <1>6, <1>7, <2>1
  <2>2. CASE f # e
    BY <1>1, <1>5, <2>2, UpdatesFacts
  <2> QED BY <2>1, <2>2
<1> QED BY <1>8, UpdatesSuffice
LEMMA CreateKeeps ==
  ASSUME UpdatesInv, UpdateTypes', NEW u \in People, NEW e \in Executions, Updates!Create(u, e)
  PROVE  UpdatesInv'
<1>1. /\ row[e].status = "none" /\ row' = [row EXCEPT ![e] = [owner |-> u, status |-> "PENDING"]]
      /\ UNCHANGED <<writer, pipe, view, asking, crossed, missed>>
  BY DEF Updates!Create, Updates!client
<1>2. row'[e].status = "PENDING" /\ \A f \in Executions : f # e => row'[f] = row[f]
  BY <1>1, UpdateTypeParts DEF UpdatesInv, UpdateTypes
<1>3. ASSUME NEW f \in Executions
      PROVE  /\ row'[f].status = "none" =>
                  /\ \A v \in Tabs : writer'[v].ex # f
                  /\ \A s \in Sockets : /\ ~About(pipe'[s], f) /\ view'[s][f] = "none"
                                        /\ asking'[s].ex = f => asking'[s].status = "asked"
             /\ \A x \in Tabs : f \notin crossed' /\ writer'[x].ex = f =>
                  writer'[x].status = row'[f].status /\ \A v \in Tabs : writer'[v].ex = f => v = x
             /\ \A s \in Sockets : f \notin crossed' /\ <<s, f>> \notin missed' =>
                  /\ asking'[s].ex = f => (\A v \in Tabs : writer'[v].ex # f) /\ asking'[s].status \in {"asked", row'[f].status}
                  /\ (\A v \in Tabs : writer'[v].ex # f) => LastWord(pipe'[s], view'[s][f], f, row'[f].status)
  <2>1. CASE f = e
    BY <1>1, <1>2, <2>1, UpdatesFacts DEF LastWord, About
  <2>2. CASE f # e
    BY <1>1, <1>2, <2>2, UpdatesFacts
  <2> QED BY <2>1, <2>2
<1> QED BY <1>3, UpdatesSuffice

\* An announcement is the last word to all who listen; the others have missed it, and so
\* has everybody when the lookup fails.
LEMMA EmitKeeps ==
  ASSUME PartsAssumptions, UpdatesInv, UpdateTypes', NEW w \in Tabs, Updates!Emit(w) \/ Updates!EmitFailed(w)
  PROVE  UpdatesInv'
<1> DEFINE e == writer[w].ex
           m == Updates!Announced(w)
<1>1. /\ e # NoExecution /\ Updates!Rested(w) /\ UNCHANGED <<row, view, asking, crossed>>
      /\ \A s \in Sockets : \/ pipe'[s] = Append(pipe[s], m) /\ \A f : <<s, f>> \in missed => <<s, f>> \in missed'
                            \/ pipe'[s] = pipe[s] /\ <<s, e>> \in missed' /\ \A f : <<s, f>> \in missed => <<s, f>> \in missed'
  BY DEF Updates!Emit, Updates!EmitFailed, Updates!client
<1>2. UpdateTypes
  BY DEF UpdatesInv, UpdateTypes
<1>3. /\ e \in Executions /\ m \in Updates!Messages /\ m.ex = e /\ m.status = writer[w].status
      /\ NoExecution \notin Executions /\ writer \in [Tabs -> WriterTypes] /\ pipe \in [Sockets -> Seq(Updates!Messages)]
  BY <1>1, <1>2, UpdateTypeParts DEF WriterTypes, Updates!Announced, Updates!Messages, PartsAssumptions,
     Updates!LiveUpdatesAssumption
<1>4. /\ \A v \in Tabs : v # w => writer'[v] = writer[v]
      /\ writer'[w].ex = NoExecution \/ (writer'[w].ex = e /\ writer'[w].status = writer[w].status)
  BY <1>1, <1>2, RestedTypes DEF Updates!Quiet
<1> HIDE DEF e, m
<1>5. ASSUME NEW f \in Executions, NEW v \in Tabs, writer'[v].ex = f
      PROVE  writer[v].ex = f /\ writer'[v].status = writer[v].status
  BY <1>3, <1>4, <1>5 DEF e
<1>6. ASSUME NEW f \in Executions, f # e
      PROVE  /\ (\A v \in Tabs : writer'[v].ex # f) => (\A v \in Tabs : writer[v].ex # f)
             /\ \A s \in Sockets : /\ About(pipe'[s], f) => About(pipe[s], f)
                                   /\ LastWord(pipe[s], view[s][f], f, row[f].status)
                                        => LastWord(pipe'[s], view[s][f], f, row[f].status)
  <2>1. \A v \in Tabs : writer[v].ex = f => writer'[v].ex = f
    BY <1>4, <1>6 DEF e
  <2>2. ASSUME NEW s \in Sockets
        PROVE  /\ About(pipe'[s], f) => About(pipe[s], f)
               /\ LastWord(pipe[s], view[s][f], f, row[f].status) => LastWord(pipe'[s], view[s][f], f, row[f].status)
    <3>1. CASE pipe'[s] = pipe[s]
      BY <3>1
    <3>2. CASE pipe'[s] = Append(pipe[s], m)
      <4>1. pipe[s] \in Seq(Updates!Messages) /\ m.ex # f
        BY <1>3, <1>6
      <4> QED BY <1>3, <3>2, <4>1, LastWordAppend
    <3> QED BY <1>1, <3>1, <3>2
  <2> QED BY <2>1, <2>2
<1>7. row[e].status # "none" /\ (e \notin crossed => m.status = row[e].status)
      /\ \A s \in Sockets : e \notin crossed /\ <<s, e>> \notin missed => asking[s].ex # e
  BY <1>3, UpdatesFacts DEF e
<1>8. ASSUME NEW f \in Executions
      PROVE  /\ row'[f].status = "none" =>
                  /\ \A v \in Tabs : writer'[v].ex # f
                  /\ \A s \in Sockets : /\ ~About(pipe'[s], f) /\ view'[s][f] = "none"
                                        /\ asking'[s].ex = f => asking'[s].status = "asked"
             /\ \A x \in Tabs : f \notin crossed' /\ writer'[x].ex = f =>
                  writer'[x].status = row'[f].status /\ \A v \in Tabs : writer'[v].ex = f => v = x
             /\ \A s \in Sockets : f \notin crossed' /\ <<s, f>> \notin missed' =>
                  /\ asking'[s].ex = f => (\A v \in Tabs : writer'[v].ex # f) /\ asking'[s].status \in {"asked", row'[f].status}
                  /\ (\A v \in Tabs : writer'[v].ex # f) => LastWord(pipe'[s], view'[s][f], f, row'[f].status)
  <2>1. CASE f = e
    <3>1. ASSUME NEW s \in Sockets, f \notin crossed', <<s, f>> \notin missed'
          PROVE  asking'[s].ex # f /\ LastWord(pipe'[s], view'[s][f], f, row'[f].status)
      <4>1. pipe'[s] = Append(pipe[s], m) /\ e \notin crossed /\ <<s, e>> \notin missed
        BY <1>1, <2>1, <3>1
      <4>2. pipe[s] \in Seq(Updates!Messages)
        BY <1>3
      <4>3. LastWord(Append(pipe[s], m), view[s][e], e, row[e].status)
        BY <1>3, <1>7, <4>1, <4>2, LastWordAppend
      <4> QED BY <1>1, <1>7, <2>1, <4>1, <4>3
    <3>2. row'[f].status # "none"
      BY <1>1, <1>7, <2>1
    <3>3. \A x \in Tabs : f \notin crossed' /\ writer'[x].ex = f =>
            writer'[x].status = row'[f].status /\ \A v \in Tabs : writer'[v].ex = f => v = x
      BY <1>1, <1>5, UpdatesFacts
    <3> QED BY <3>1, <3>2, <3>3
  <2>2. CASE f # e
    <3>1. \A s \in Sockets : <<s, f>> \notin missed' => <<s, f>> \notin missed
      BY <1>1
    <3>2. \A x \in Tabs : f \notin crossed' /\ writer'[x].ex = f =>
            writer'[x].status = row'[f].status /\ \A v \in Tabs : writer'[v].ex = f => v = x
      BY <1>1, <1>5, UpdatesFacts
    <3>3. row'[f].status = "none" =>
            /\ \A v \in Tabs : writer'[v].ex # f
            /\ \A s \in Sockets : /\ ~About(pipe'[s], f) /\ view'[s][f] = "none"
                                  /\ asking'[s].ex = f => asking'[s].status = "asked"
      BY <1>1, <1>5, <1>6, <2>2, UpdatesFacts
    <3>4. \A v \in Tabs : (\A x \in Tabs : writer[x].ex # f) => writer'[v].ex # f
      BY <1>5
    <3> QED BY <1>1, <1>6, <2>2, <3>1, <3>2, <3>3, <3>4, UpdatesFacts
  <2> QED BY <2>1, <2>2
<1> QED BY <1>8, UpdatesSuffice

\* Connections and rooms alone say nothing.
LEMMA RoomsKeep ==
  ASSUME UpdatesInv, UpdateTypes', UNCHANGED <<row, writer, asking, pipe, view, crossed, missed>>
  PROVE  UpdatesInv'
<1>1. ASSUME NEW f \in Executions
      PROVE  /\ row'[f].status = "none" =>
                  /\ \A v \in Tabs : writer'[v].ex # f
                  /\ \A s \in Sockets : /\ ~About(pipe'[s], f) /\ view'[s][f] = "none"
                                        /\ asking'[s].ex = f => asking'[s].status = "asked"
             /\ \A x \in Tabs : f \notin crossed' /\ writer'[x].ex = f =>
                  writer'[x].status = row'[f].status /\ \A v \in Tabs : writer'[v].ex = f => v = x
             /\ \A s \in Sockets : f \notin crossed' /\ <<s, f>> \notin missed' =>
                  /\ asking'[s].ex = f => (\A v \in Tabs : writer'[v].ex # f) /\ asking'[s].status \in {"asked", row'[f].status}
                  /\ (\A v \in Tabs : writer'[v].ex # f) => LastWord(pipe'[s], view'[s][f], f, row'[f].status)
  BY UpdatesFacts
<1> QED BY <1>1, UpdatesSuffice
\* A step of one tab: what it is told, and what it has asked.
LEMMA TabSuffices ==
  ASSUME UpdatesInv, UpdateTypes', NEW s \in Sockets, UNCHANGED <<row, writer, crossed>>, missed \subseteq missed',
         \A t \in Sockets : t # s => asking'[t] = asking[t] /\ pipe'[t] = pipe[t] /\ view'[t] = view[t],
         \A f \in Executions :
           /\ row[f].status = "none" =>
                /\ ~About(pipe'[s], f) /\ view'[s][f] = "none"
                /\ asking'[s].ex = f => asking'[s].status = "asked"
           /\ f \notin crossed /\ <<s, f>> \notin missed' =>
                /\ asking'[s].ex = f => (\A v \in Tabs : writer[v].ex # f) /\ asking'[s].status \in {"asked", row[f].status}
                /\ (\A v \in Tabs : writer[v].ex # f) => LastWord(pipe'[s], view'[s][f], f, row[f].status)
  PROVE  UpdatesInv'
<1>1. ASSUME NEW f \in Executions, NEW t \in Sockets
      PROVE  /\ row[f].status = "none" =>
                  /\ ~About(pipe'[t], f) /\ view'[t][f] = "none"
                  /\ asking'[t].ex = f => asking'[t].status = "asked"
             /\ f \notin crossed /\ <<t, f>> \notin missed' =>
                  /\ asking'[t].ex = f => (\A v \in Tabs : writer[v].ex # f) /\ asking'[t].status \in {"asked", row[f].status}
                  /\ (\A v \in Tabs : writer[v].ex # f) => LastWord(pipe'[t], view'[t][f], f, row[f].status)
  <2>1. CASE t = s
    BY <2>1
  <2>2. CASE t # s
    BY <2>2, UpdatesFacts
  <2> QED BY <2>1, <2>2
<1>2. ASSUME NEW f \in Executions
      PROVE  /\ row'[f].status = "none" =>
                  /\ \A v \in Tabs : writer'[v].ex # f
                  /\ \A t \in Sockets : /\ ~About(pipe'[t], f) /\ view'[t][f] = "none"
                                        /\ asking'[t].ex = f => asking'[t].status = "asked"
             /\ \A x \in Tabs : f \notin crossed' /\ writer'[x].ex = f =>
                  writer'[x].status = row'[f].status /\ \A v \in Tabs : writer'[v].ex = f => v = x
             /\ \A t \in Sockets : f \notin crossed' /\ <<t, f>> \notin missed' =>
                  /\ asking'[t].ex = f => (\A v \in Tabs : writer'[v].ex # f) /\ asking'[t].status \in {"asked", row'[f].status}
                  /\ (\A v \in Tabs : writer'[v].ex # f) => LastWord(pipe'[t], view'[t][f], f, row'[f].status)
  <2>1. row'[f].status = "none" => \A v \in Tabs : writer'[v].ex # f
    BY UpdatesFacts
  <2>2. \A x \in Tabs : f \notin crossed' /\ writer'[x].ex = f =>
          writer'[x].status = row'[f].status /\ \A v \in Tabs : writer'[v].ex = f => v = x
    BY UpdatesFacts
  <2>3. row'[f].status = "none" =>
          \A t \in Sockets : /\ ~About(pipe'[t], f) /\ view'[t][f] = "none"
                             /\ asking'[t].ex = f => asking'[t].status = "asked"
    BY <1>1
  <2>4. \A t \in Sockets : f \notin crossed' /\ <<t, f>> \notin missed' =>
          /\ asking'[t].ex = f => (\A v \in Tabs : writer'[v].ex # f) /\ asking'[t].status \in {"asked", row'[f].status}
          /\ (\A v \in Tabs : writer'[v].ex # f) => LastWord(pipe'[t], view'[t][f], f, row'[f].status)
    <3> HIDE DEF LastWord
    <3> QED BY <1>1
  <2> HIDE DEF LastWord, About
  <2> QED BY <2>1, <2>2, <2>3, <2>4
<1> QED BY <1>2, UpdatesSuffice

LEMMA NoSuchExecution == \A f \in Executions : f # NoExecution
  BY PartsAssumptions DEF Updates!LiveUpdatesAssumption

LEMMA SubscribeKeeps ==
  ASSUME UpdatesInv, UpdateTypes', NEW s \in Sockets, NEW e \in Executions, Updates!Subscribe(s, e)
  PROVE  UpdatesInv'
<1>1. /\ asking' = [asking EXCEPT ![s] = [ex |-> e, status |-> "asked"]]
      /\ UNCHANGED <<row, writer, pipe, view, crossed>>
      /\ missed \subseteq missed' /\ (<<s, e>> \notin missed' => \A v \in Tabs : writer[v].ex # e)
  BY DEF Updates!Subscribe, Updates!Busy
<1>2. asking'[s].ex = e /\ asking'[s].status = "asked" /\ \A t \in Sockets : t # s => asking'[t] = asking[t]
  BY <1>1, UpdateTypeParts DEF UpdatesInv, UpdateTypes
<1>3. ASSUME NEW f \in Executions
      PROVE  /\ row[f].status = "none" =>
                  /\ ~About(pipe'[s], f) /\ view'[s][f] = "none"
                  /\ asking'[s].ex = f => asking'[s].status = "asked"
             /\ f \notin crossed /\ <<s, f>> \notin missed' =>
                  /\ asking'[s].ex = f => (\A v \in Tabs : writer[v].ex # f) /\ asking'[s].status \in {"asked", row[f].status}
                  /\ (\A v \in Tabs : writer[v].ex # f) => LastWord(pipe'[s], view'[s][f], f, row[f].status)
  BY <1>1, <1>2, UpdatesFacts
<1> QED BY <1>1, <1>2, <1>3, TabSuffices

\* The answer to a subscription is read while no call is under way, or it is missed.
LEMMA ReadKeeps ==
  ASSUME UpdatesInv, UpdateTypes', NEW s \in Sockets, Updates!SubscribeRead(s)
  PROVE  UpdatesInv'
<1>1. /\ asking[s].status = "asked" /\ asking' = [asking EXCEPT ![s] =
           IF Updates!MayRead(s, asking[s].ex) THEN [asking[s] EXCEPT !.status = row[asking[s].ex].status] ELSE Updates!Silent]
      /\ UNCHANGED <<row, writer, pipe, view, crossed, missed>>
  BY DEF Updates!SubscribeRead
<1>2. asking \in [Sockets -> AskingTypes] /\ asking[s].ex \in Executions
  BY <1>1, UpdateTypeParts DEF UpdatesInv, UpdateTypes, Subscribing, Updates!Silent
<1>3. \A t \in Sockets : t # s => asking'[t] = asking[t]
  BY <1>1, <1>2
<1>4. \/ /\ asking'[s].ex = asking[s].ex /\ asking'[s].status = row[asking[s].ex].status
         /\ row[asking[s].ex].status # "none"
      \/ asking'[s].ex = NoExecution
  <2>1. asking[s] \in AskingTypes
    BY <1>2
  <2>2. CASE Updates!MayRead(s, asking[s].ex)
    <3>1. asking'[s] = [asking[s] EXCEPT !.status = row[asking[s].ex].status]
      BY <1>1, <1>2, <2>2
    <3> QED BY <2>1, <2>2, <3>1 DEF Updates!MayRead, AskingTypes
  <2>3. CASE ~Updates!MayRead(s, asking[s].ex)
    <3>1. asking'[s] = Updates!Silent
      BY <1>1, <1>2, <2>3
    <3> QED BY <3>1 DEF Updates!Silent
  <2> QED BY <2>2, <2>3
<1>5. ASSUME NEW f \in Executions
      PROVE  /\ row[f].status = "none" =>
                  /\ ~About(pipe'[s], f) /\ view'[s][f] = "none"
                  /\ asking'[s].ex = f => asking'[s].status = "asked"
             /\ f \notin crossed /\ <<s, f>> \notin missed' =>
                  /\ asking'[s].ex = f => (\A v \in Tabs : writer[v].ex # f) /\ asking'[s].status \in {"asked", row[f].status}
                  /\ (\A v \in Tabs : writer[v].ex # f) => LastWord(pipe'[s], view'[s][f], f, row[f].status)
  <2>1. asking'[s].ex = f => asking[s].ex = f /\ asking'[s].status = row[f].status /\ row[f].status # "none"
    BY <1>4, NoSuchExecution
  <2> QED BY <1>1, <2>1, UpdatesFacts
<1> QED BY <1>1, <1>3, <1>5, TabSuffices

LEMMA JoinKeeps ==
  ASSUME UpdatesInv, UpdateTypes', NEW s \in Sockets, Updates!SubscribeJoin(s)
  PROVE  UpdatesInv'
<1>1. /\ asking[s].status \in Updates!Statuses /\ pipe' = [pipe EXCEPT ![s] = Append(pipe[s], asking[s])]
      /\ asking' = [asking EXCEPT ![s] = Updates!Silent]
      /\ UNCHANGED <<row, writer, view, crossed, missed>>
  BY DEF Updates!SubscribeJoin
<1>2. /\ asking \in [Sockets -> AskingTypes] /\ asking[s].ex \in Executions
      /\ pipe \in [Sockets -> Seq(Updates!Messages)]
      /\ asking[s].status # "asked"
  BY <1>1, UpdateTypeParts DEF UpdatesInv, UpdateTypes, Subscribing, Updates!Silent, Updates!Statuses,
     Updates!Active, Updates!Finished
<1>3. /\ \A t \in Sockets : t # s => asking'[t] = asking[t] /\ pipe'[t] = pipe[t]
      /\ asking'[s].ex = NoExecution /\ pipe'[s] = Append(pipe[s], asking[s])
  BY <1>1, <1>2 DEF Updates!Silent
<1>4. asking[s] \in Updates!Messages /\ pipe[s] \in Seq(Updates!Messages)
  BY <1>1, <1>2 DEF AskingTypes, Updates!Messages
<1>5. ASSUME NEW f \in Executions
      PROVE  /\ row[f].status = "none" =>
                  /\ ~About(pipe'[s], f) /\ view'[s][f] = "none"
                  /\ asking'[s].ex = f => asking'[s].status = "asked"
             /\ f \notin crossed /\ <<s, f>> \notin missed' =>
                  /\ asking'[s].ex = f => (\A v \in Tabs : writer[v].ex # f) /\ asking'[s].status \in {"asked", row[f].status}
                  /\ (\A v \in Tabs : writer[v].ex # f) => LastWord(pipe'[s], view'[s][f], f, row[f].status)
  <2>1. CASE asking[s].ex = f
    <3>1. row[f].status # "none"
      BY <1>2, <2>1, UpdatesFacts
    <3>2. f \notin crossed /\ <<s, f>> \notin missed' => LastWord(pipe'[s], view[s][f], f, row[f].status)
      BY <1>1, <1>2, <1>3, <1>4, <2>1, UpdatesFacts, LastWordAppend
    <3> QED BY <1>1, <1>3, <3>1, <3>2, NoSuchExecution
  <2>2. CASE asking[s].ex # f
    <3>1. /\ About(pipe'[s], f) => About(pipe[s], f)
          /\ LastWord(pipe[s], view[s][f], f, row[f].status) => LastWord(pipe'[s], view[s][f], f, row[f].status)
      BY <1>3, <1>4, <2>2, LastWordAppend
    <3> QED BY <1>1, <1>3, <3>1, NoSuchExecution, UpdatesFacts
  <2> QED BY <2>1, <2>2
<1> QED BY <1>1, <1>3, <1>5, TabSuffices

LEMMA ReceiveKeeps ==
  ASSUME UpdatesInv, UpdateTypes', NEW s \in Sockets, Updates!Receive(s)
  PROVE  UpdatesInv'
<1>1. /\ pipe[s] # <<>> /\ pipe' = [pipe EXCEPT ![s] = Tail(pipe[s])]
      /\ view' = [view EXCEPT ![s][Head(pipe[s]).ex] = Head(pipe[s]).status]
      /\ UNCHANGED <<row, writer, asking, crossed, missed>>
  BY DEF Updates!Receive, Updates!client
<1>2. /\ pipe \in [Sockets -> Seq(Updates!Messages)]
      /\ view \in [Sockets -> [Executions -> Updates!Statuses \cup {"none"}]]
  BY UpdateTypeParts DEF UpdatesInv, UpdateTypes
<1>3. /\ \A t \in Sockets : t # s => view'[t] = view[t] /\ pipe'[t] = pipe[t]
      /\ pipe'[s] = Tail(pipe[s])
      /\ \A f \in Executions :
           view'[s][f] = IF Head(pipe[s]).ex = f THEN Head(pipe[s]).status ELSE view[s][f]
  BY <1>1, <1>2
<1>4. Head(pipe[s]) \in Updates!Messages /\ pipe[s] \in Seq(Updates!Messages)
  BY <1>1, <1>2, HeadTailProperties
<1>5. ASSUME NEW f \in Executions
      PROVE  /\ row[f].status = "none" =>
                  /\ ~About(pipe'[s], f) /\ view'[s][f] = "none"
                  /\ asking'[s].ex = f => asking'[s].status = "asked"
             /\ f \notin crossed /\ <<s, f>> \notin missed' =>
                  /\ asking'[s].ex = f => (\A v \in Tabs : writer[v].ex # f) /\ asking'[s].status \in {"asked", row[f].status}
                  /\ (\A v \in Tabs : writer[v].ex # f) => LastWord(pipe'[s], view'[s][f], f, row[f].status)
  <2>1. /\ About(pipe'[s], f) => About(pipe[s], f)
        /\ LastWord(pipe[s], view[s][f], f, row[f].status) => LastWord(pipe'[s], view'[s][f], f, row[f].status)
    <3>1. /\ About(Tail(pipe[s]), f) => About(pipe[s], f)
          /\ LastWord(pipe[s], view[s][f], f, row[f].status)
               => LastWord(Tail(pipe[s]), IF Head(pipe[s]).ex = f THEN Head(pipe[s]).status ELSE view[s][f], f, row[f].status)
      BY <1>1, <1>4, LastWordReceived
    <3>2. view'[s][f] = IF Head(pipe[s]).ex = f THEN Head(pipe[s]).status ELSE view[s][f]
      BY <1>3
    <3> QED BY <1>3, <3>1, <3>2
  <2>2. ~About(pipe[s], f) => view'[s][f] = view[s][f]
    <3>1. 1 \in DOMAIN pipe[s] /\ Head(pipe[s]) = pipe[s][1]
      <4>1. Len(pipe[s]) \in Nat /\ DOMAIN pipe[s] = 1..Len(pipe[s]) /\ Len(pipe[s]) # 0 /\ Head(pipe[s]) = pipe[s][1]
        BY <1>1, <1>4, LenProperties, EmptySeq, HeadTailProperties
      <4> QED BY <4>1
    <3> QED BY <1>3, <3>1 DEF About
  <2> QED BY <1>1, <2>1, <2>2, UpdatesFacts
<1> QED BY <1>1, <1>3, <1>5, TabSuffices

\* What was on its way to a tab that goes away is missed.
LEMMA DropKeeps ==
  ASSUME UpdatesInv, UpdateTypes', NEW s \in Sockets, Updates!Drop(s)
  PROVE  UpdatesInv'
<1>1. /\ asking' = [asking EXCEPT ![s] = Updates!Silent] /\ pipe' = [pipe EXCEPT ![s] = <<>>]
      /\ missed' = missed \cup {<<s, pipe[s][i].ex>> : i \in DOMAIN pipe[s]}
      /\ UNCHANGED <<row, writer, view, crossed>>
  BY DEF Updates!Drop
<1>2. pipe \in [Sockets -> Seq(Updates!Messages)] /\ asking \in [Sockets -> AskingTypes]
  BY UpdateTypeParts DEF UpdatesInv, UpdateTypes
<1>3. /\ \A t \in Sockets : t # s => asking'[t] = asking[t] /\ pipe'[t] = pipe[t]
      /\ asking'[s].ex = NoExecution /\ pipe'[s] = <<>>
  BY <1>1, <1>2 DEF Updates!Silent
<1>4. ASSUME NEW f \in Executions
      PROVE  /\ row[f].status = "none" =>
                  /\ ~About(pipe'[s], f) /\ view'[s][f] = "none"
                  /\ asking'[s].ex = f => asking'[s].status = "asked"
             /\ f \notin crossed /\ <<s, f>> \notin missed' =>
                  /\ asking'[s].ex = f => (\A v \in Tabs : writer[v].ex # f) /\ asking'[s].status \in {"asked", row[f].status}
                  /\ (\A v \in Tabs : writer[v].ex # f) => LastWord(pipe'[s], view'[s][f], f, row[f].status)
  <2>1. ~About(pipe'[s], f)
    BY <1>3 DEF About
  <2>2. ASSUME <<s, f>> \notin missed', LastWord(pipe[s], view[s][f], f, row[f].status)
        PROVE  LastWord(pipe'[s], view'[s][f], f, row[f].status)
    <3>1. ~About(pipe[s], f)
      BY <1>1, <2>2 DEF About
    <3> QED BY <1>1, <1>3, <2>2, <3>1, LastWordLost
  <2> QED BY <1>1, <1>3, <2>1, <2>2, NoSuchExecution, UpdatesFacts
<1> QED BY <1>1, <1>3, <1>4, TabSuffices
-----------------------------------------------------------------------------
(***************************************************************************)
(* The theorem about what the tabs show.                                   *)
(***************************************************************************)

LEMMA UpdatesStart == ASSUME PartsAssumptions, Updates!Init PROVE UpdatesInv
<1>1. /\ row = [e \in Executions |-> [owner |-> NoUser, status |-> "none"]]
      /\ writer = [w \in Tabs |-> Updates!Quiet] /\ sock = [s \in Sockets |-> NoUser]
      /\ rooms = [s \in Sockets |-> {}] /\ asking = [s \in Sockets |-> Updates!Silent]
      /\ pipe = [s \in Sockets |-> <<>>] /\ view = [s \in Sockets |-> [e \in Executions |-> "none"]]
      /\ wants = [s \in Sockets |-> {}] /\ crossed = {} /\ missed = {} /\ writes = 0 /\ drops = 0
  BY DEF Updates!Init
<1>2. /\ MaxWrites \in Nat /\ MaxDrops \in Nat /\ NoExecution \notin Executions
      /\ \A e \in Executions : e # NoExecution
  BY DEF PartsAssumptions, Updates!LiveUpdatesAssumption
<1>3. Updates!TypeOK
  <2>1. 0 \in 0..MaxWrites /\ 0 \in 0..MaxDrops /\ 0 \in 0..3
    BY <1>2
  <2>2. Updates!Quiet \in WriterTypes /\ Updates!Silent \in AskingTypes
    BY <2>1 DEF Updates!Quiet, Updates!Silent, WriterTypes, AskingTypes, Updates!Statuses, Updates!Active
  <2>3. [owner |-> NoUser, status |-> "none"] \in RowTypes
    BY DEF RowTypes
  <2>4. /\ row \in [Executions -> RowTypes] /\ writer \in [Tabs -> WriterTypes] /\ asking \in [Sockets -> AskingTypes]
        /\ view \in [Sockets -> [Executions -> Updates!Statuses \cup {"none"}]]
    BY <1>1, <2>2, <2>3
  <2>5. pipe \in [Sockets -> Seq(Updates!Messages)]
    BY <1>1, EmptySeq
  <2> QED BY <1>1, <2>1, <2>4, <2>5 DEF Updates!TypeOK, RowTypes, WriterTypes, AskingTypes
<1>4. Announcing /\ Subscribing
  BY <1>1 DEF Announcing, Subscribing, Updates!Quiet
<1>5. NothingOfNothing /\ OneAnnounces
  BY <1>1, <1>2 DEF NothingOfNothing, OneAnnounces, Updates!Busy, About, Updates!Quiet, Updates!Silent
<1>6. WordsAreTrue
  BY <1>1, <1>2 DEF WordsAreTrue, WordIsTrue, LastWord, About, Updates!Silent
<1> QED BY <1>3, <1>4, <1>5, <1>6 DEF UpdatesInv

LEMMA UpdatesKeep == ASSUME PartsAssumptions, UpdatesInv, Updates!Next PROVE UpdatesInv'
<1>1. UpdateTypes'
  BY UpdateTypesKept DEF UpdatesInv, UpdateTypes
<1>2. ASSUME NEW w \in Tabs, NEW e \in Executions,
             Updates!Trigger(w, e) \/ Updates!UpdateStatus(w, e) \/ Updates!CancelExecution(w, e)
      PROVE  UpdatesInv'
  <2>1. /\ writer[w] = Updates!Quiet /\ row[e].status # "none"
        /\ \E st \in Updates!Statuses, n \in 1..3 : Updates!Wrote(w, e, st, n)
    BY <1>2 DEF Updates!Trigger, Updates!UpdateStatus, Updates!CancelExecution, Updates!Statuses, Updates!Active,
       Updates!Finished
  <2> QED BY <1>1, <2>1, WroteKeeps
<1>3. ASSUME NEW s \in Sockets, NEW u \in People, Updates!Connect(s, u) PROVE UpdatesInv'
  BY <1>1, <1>3, RoomsKeep DEF Updates!Connect
<1>4. ASSUME NEW s \in Sockets, NEW e \in Executions, Updates!Unsubscribe(s, e) PROVE UpdatesInv'
  BY <1>1, <1>4, RoomsKeep DEF Updates!Unsubscribe
<1> QED BY <1>1, <1>2, <1>3, <1>4, CreateKeeps, EmitKeeps, SubscribeKeeps, ReadKeeps, JoinKeeps, ReceiveKeeps,
           DropKeeps DEF Updates!Next

LEMMA UpdatesStutter == ASSUME UpdatesInv, UNCHANGED updateVars PROVE UpdatesInv'
<1>1. UpdateTypes'
  BY DEF UpdatesInv, updateVars, UpdateTypes, Updates!TypeOK, Announcing, Subscribing, Updates!Silent
<1> QED BY <1>1, RoomsKeep DEF updateVars

LEMMA UpdatesInductive == ASSUME PartsAssumptions PROVE PartsSpec => []UpdatesInv
<1>1. PartsInit => UpdatesInv
  BY UpdatesStart DEF PartsInit
<1>2. UpdatesInv /\ [PartsNext]_<<tokenVars, tabVars, updateVars, part>> => UpdatesInv'
  <2> SUFFICES ASSUME UpdatesInv, [PartsNext]_<<tokenVars, tabVars, updateVars, part>> PROVE UpdatesInv'
    OBVIOUS
  <2>1. Updates!Next \/ UNCHANGED updateVars
    BY DEF PartsNext
  <2> QED BY <2>1, UpdatesKeep, UpdatesStutter
<1> QED BY <1>1, <1>2, PTL DEF PartsSpec

\* When the announcements of an execution did not overlap and a connected tab has missed
\* none of them, what it shows once all has arrived is what the row says, for any number of
\* tabs, subscriptions, executions and calls of the service, in whatever order the lookups,
\* the reads and the deliveries come.
THEOREM ViewsConvergeAlways == ASSUME PartsAssumptions PROVE PartsSpec => []ViewsConverge
<1>1. UpdatesInv => Updates!ViewsConverge
  <2> SUFFICES ASSUME UpdatesInv, NEW s \in Sockets, NEW e \in Executions,
                      view[s][e] # "none", Updates!Settled(s, e), e \notin crossed, <<s, e>> \notin missed
               PROVE  view[s][e] = row[e].status
    BY DEF Updates!ViewsConverge
  <2>1. (\A v \in Tabs : writer[v].ex # e) /\ ~About(pipe[s], e)
    BY DEF Updates!Settled, Updates!Busy, About
  <2>2. LastWord(pipe[s], view[s][e], e, row[e].status)
    BY <2>1, UpdatesFacts
  <2> QED BY <2>1, <2>2 DEF LastWord
<1>2. UpdatesInv => ViewsConverge
  BY <1>1 DEF ViewsConverge
<1> QED BY <1>2, UpdatesInductive, PTL
-----------------------------------------------------------------------------
\* The types of the variables of all three models, a behaviour of which is one of each.
THEOREM SessionTypes == ASSUME PartsAssumptions PROVE PartsSpec => []Typed
<1>1. PartsSpec => []TypeOK
  <2>1. TokenAssumption
    BY DEF PartsAssumptions
  <2>2. PartsInit => Init
    BY DEF PartsInit
  <2>3. [PartsNext]_<<tokenVars, tabVars, updateVars, part>> => [Next]_vars
    BY DEF PartsNext, tokenVars
  <2>4. PartsSpec => Spec
    BY <2>2, <2>3, PTL DEF PartsSpec, Spec
  <2>5. Spec => []TypeOK
    BY <2>1, TypeCorrect
  <2> QED BY <2>4, <2>5, PTL
<1>2. TabsInv /\ UpdatesInv /\ TypeOK => Typed
  BY DEF TabsInv, UpdatesInv, Typed
<1> QED BY <1>1, <1>2, TabsInductive, UpdatesInductive, PTL

=============================================================================
