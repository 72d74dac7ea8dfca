------------------------------- MODULE ApiCache -------------------------------
(***************************************************************************)
(* services/api.ts in one browser tab: a cache of GET answers, the map of  *)
(* pending requests that merges calls with the same key, and mutations     *)
(* that clear the cache of their resource before they are sent.  The       *)
(* server answers with what it holds when the request reaches it.          *)
(***************************************************************************)
EXTENDS Naturals, FiniteSets

CONSTANTS
  Users, Endpoints, Callers,
  Clears,    \* entries whose key names the resource of a mutation's endpoint
  Changes,   \* what a mutation of an endpoint changes on the server
  None,
  MaxVersion, MaxLogins   \* bounds: mutations applied, sign-ins of the tab

\* Of an answer: a mutation of what it holds was under way with its request (raced), or was
\* applied while it was cached and does not clear it (missed).
Answers == [user : Users, version : 0..MaxVersion, raced : BOOLEAN, missed : BOOLEAN]

CacheAssumption ==
  /\ None \notin Users \cup Callers \cup Answers
  /\ Clears \in [Endpoints -> SUBSET Endpoints] /\ Changes \in [Endpoints -> SUBSET Endpoints]
  /\ MaxVersion \in Nat /\ MaxLogins \in Nat

VARIABLES
  version,   \* of each endpoint's data on the server
  token,     \* whose access token localStorage holds
  signedIn,  \* isAuthenticated of the auth slice
  cache, pending,
  flight,    \* the request each caller has sent
  call,      \* what each caller waits for
  logins

vars == <<version, token, signedIn, cache, pending, flight, call, logins>>
session == <<token, signedIn, logins>>

Keys == {"GET", "PUT"} \X Endpoints
Statuses == {"ok", "unauthorized", "failed"}

NoFlight == [stage |-> "none"]
NoCall == [pc |-> "idle"]

TypeOK ==
  /\ version \in [Endpoints -> 0..MaxVersion]
  /\ token \in Users \cup {None} /\ signedIn \in BOOLEAN
  /\ cache \in [Endpoints -> Answers \cup {None}]
  /\ pending \in [Keys -> Callers \cup {None}]
  /\ \A c \in Callers :
       /\ flight[c] = NoFlight \/ flight[c] \in
            [stage : {"sent"}, key : Keys, user : Users, keep : BOOLEAN, raced : BOOLEAN] \cup
            [stage : {"answered"}, key : Keys, user : Users, keep : BOOLEAN, raced : BOOLEAN,
             status : Statuses, version : 0..MaxVersion]
       /\ call[c] = NoCall \/ call[c] \in
            [pc : {"waiting"}, user : Users, on : Callers, key : Keys] \cup
            [pc : {"returned"}, user : Users, answer : Answers] \cup
            [pc : {"failed", "refreshing"}, code : {"UNAUTHORIZED", "OTHER", "NO_TOKEN"}]
  /\ logins \in 0..MaxLogins

Init ==
  /\ version = [e \in Endpoints |-> 0]
  /\ token = None /\ signedIn = FALSE /\ logins = 0
  /\ cache = [e \in Endpoints |-> None]
  /\ pending = [k \in Keys |-> None]
  /\ flight = [c \in Callers |-> NoFlight]
  /\ call = [c \in Callers |-> NoCall]

UnderWay(c) == flight[c].stage # "none"

\* Two requests, one of them a mutation of what the other reads.
Overlap(k, l) == k[1] = "GET" /\ l[1] = "PUT" /\ k[2] \in Changes[l[2]]

-----------------------------------------------------------------------------
\* Mutant: a mutation leaves the cache alone.
MutantCleared(k) == cache

Cleared(k) ==
  [e \in Endpoints |-> IF k[1] = "PUT" /\ e \in Clears[k[2]] THEN None ELSE cache[e]]

\* A request for this key is under way: its promise is shared, whoever made it.
Joined(c, k) ==
  /\ pending[k] # None
  /\ call' = [call EXCEPT ![c] = [pc |-> "waiting", user |-> token, on |-> pending[k], key |-> k]]
  /\ UNCHANGED <<pending, flight>>

Sent(c, k, keep) ==
  /\ pending[k] = None
  /\ pending' = [pending EXCEPT ![k] = c]
  /\ call' = [call EXCEPT ![c] = [pc |-> "waiting", user |-> token, on |-> c, key |-> k]]
  /\ flight' = [d \in Callers |->
       IF d = c
       THEN [stage |-> "sent", key |-> k, user |-> token, keep |-> keep,
             raced |-> \E b \in Callers : UnderWay(b) /\ Overlap(k, flight[b].key)]
       ELSE IF UnderWay(d) /\ Overlap(flight[d].key, k)
       THEN [flight[d] EXCEPT !.raced = TRUE]
       ELSE flight[d]]

\* One call of getAuthenticated (keep: with the cache option) or of a mutation, up to its
\* first await.
Call(c, k, keep) ==
  /\ call[c].pc = "idle" /\ (keep => k[1] = "GET")
  /\ cache' = Cleared(k)
  /\ \/ /\ token = None
        /\ call' = [call EXCEPT ![c] = [pc |-> "failed", code |-> "NO_TOKEN"]]
        /\ UNCHANGED <<pending, flight>>
     \/ /\ token # None /\ keep /\ cache[k[2]] # None
        /\ call' = [call EXCEPT ![c] = [pc |-> "returned", user |-> token, answer |-> cache[k[2]]]]
        /\ UNCHANGED <<pending, flight>>
     \/ /\ token # None /\ ~(keep /\ cache[k[2]] # None)
        /\ Joined(c, k) \/ Sent(c, k, keep)
  /\ UNCHANGED <<version, session>>

\* An expired entry is no hit, and goes.
CacheExpires(e) ==
  /\ cache[e] # None
  /\ cache' = [cache EXCEPT ![e] = None]
  /\ UNCHANGED <<version, session, pending, flight, call>>

-----------------------------------------------------------------------------
\* A mutation is applied: what it changes and does not clear may be cached, and is now old.
Overlooked(k) ==
  [e \in Endpoints |-> IF e \in Changes[k[2]] \ Clears[k[2]] /\ cache[e] # None
                       THEN [cache[e] EXCEPT !.missed = TRUE] ELSE cache[e]]

\* The server, and the network: a request is handled once, or lost, or its answer is lost;
\* its access token may have expired by then.
Serve(c) ==
  LET f == flight[c]
      Answer(status, v) ==
        flight' = [flight EXCEPT ![c] = [stage |-> "answered", key |-> f.key, user |-> f.user,
                                         keep |-> f.keep, raced |-> f.raced,
                                         status |-> status, version |-> v]]
      changed == Changes[f.key[2]]
  IN /\ f.stage = "sent"
     /\ \/ Answer("failed", 0) /\ UNCHANGED <<version, cache>>
        \/ Answer("unauthorized", 0) /\ UNCHANGED <<version, cache>>
        \/ f.key[1] = "GET" /\ Answer("ok", version[f.key[2]]) /\ UNCHANGED <<version, cache>>
        \/ /\ f.key[1] = "PUT" /\ \A e \in changed : version[e] < MaxVersion
           /\ version' = [e \in Endpoints |-> IF e \in changed THEN version[e] + 1 ELSE version[e]]
           /\ cache' = Overlooked(f.key)
           /\ Answer("ok", version'[f.key[2]]) \/ Answer("failed", 0)
     /\ UNCHANGED <<session, pending, call>>

\* ApiErrorHandler.handle: every failure leaves request() as a plain object.
Handle(status) ==
  [code |-> IF status = "unauthorized" THEN "UNAUTHORIZED" ELSE "OTHER", isError |-> FALSE]

\* authenticatedRequest refreshes the token after an Error that mentions 401.
Refreshes(error) == error.isError /\ error.code = "UNAUTHORIZED"

\* Mutant: the caller that sent the request is the only one told.
MutantWaiters(c) == {c}

Waiters(c) == {d \in Callers : call[d].pc = "waiting" /\ call[d].on = c}

\* Mutant: a failed request stays in the map.
MutantForget(k, ok) == pending' = IF ok THEN [pending EXCEPT ![k] = None] ELSE pending

Forget(k, ok) == pending' = [pending EXCEPT ![k] = None]

\* The answer arrives: cached if it was asked to be, forgotten, handed to everyone waiting.
Settle(c) ==
  LET f == flight[c]
      ok == f.status = "ok"
      answer == [user |-> f.user, version |-> f.version, raced |-> f.raced, missed |-> FALSE]
      error == Handle(f.status)
  IN /\ f.stage = "answered"
     /\ flight' = [flight EXCEPT ![c] = NoFlight]
     /\ Forget(f.key, ok)
     /\ cache' = IF ok /\ f.keep THEN [cache EXCEPT ![f.key[2]] = answer] ELSE cache
     /\ signedIn' = (signedIn /\ f.status # "unauthorized")
     /\ call' = [d \in Callers |->
          IF d \notin Waiters(c) THEN call[d]
          ELSE IF ok THEN [pc |-> "returned", user |-> call[d].user, answer |-> answer]
          ELSE [pc |-> IF Refreshes(error) THEN "refreshing" ELSE "failed", code |-> error.code]]
     /\ UNCHANGED <<version, token, logins>>

Return(c) ==
  /\ call[c].pc \in {"returned", "failed"}
  /\ call' = [call EXCEPT ![c] = NoCall]
  /\ UNCHANGED <<version, session, cache, pending, flight>>

-----------------------------------------------------------------------------
\* Sign-in and sign-out write the token and the slice; neither comes near the cache.
Login(u) ==
  /\ token = None /\ logins < MaxLogins /\ logins' = logins + 1
  /\ token' = u /\ signedIn' = TRUE
  /\ UNCHANGED <<version, cache, pending, flight, call>>

Logout ==
  /\ token # None
  /\ token' = None /\ signedIn' = FALSE
  /\ UNCHANGED <<version, cache, pending, flight, call, logins>>

Next ==
  \/ \E c \in Callers :
       \/ \E k \in Keys, keep \in BOOLEAN : Call(c, k, keep)
       \/ Serve(c) \/ Settle(c) \/ Return(c)
  \/ \E e \in Endpoints : CacheExpires(e)
  \/ \E u \in Users : Login(u)
  \/ Logout

Spec == Init /\ [][Next]_vars

\* fetch settles in the end, and the event loop runs what it wakes.
FairSpec == Spec /\ \A c \in Callers : WF_vars(Serve(c)) /\ WF_vars(Settle(c))

-----------------------------------------------------------------------------
\* A request is in the map of pending requests exactly while it is under way: no two
\* requests share a key, and nobody joins one whose promise has settled.
PendingIsUnderWay ==
  \A c \in Callers, k \in Keys : pending[k] = c <=> UnderWay(c) /\ flight[c].key = k

\* An entry older than the server's data has one of two reasons: its GET overlapped a mutation
\* of it, or a mutation that does not clear it was applied while it was cached.
StaleHasReason ==
  \A e \in Endpoints :
    cache[e] # None /\ cache[e].version < version[e] => cache[e].raced \/ cache[e].missed

\* Every call returns, however many share the request.
CallsReturn == \A c \in Callers : call[c].pc = "waiting" ~> call[c].pc # "waiting"
=============================================================================
