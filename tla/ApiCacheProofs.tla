----------------------------- MODULE ApiCacheProofs -----------------------------
(***************************************************************************)
(* Proofs about ApiCache, for all sets of users, endpoints and callers,    *)
(* whatever mutations change and clear.                                    *)
(*                                                                         *)
(* That the map of pending requests is exact rests on each request's own   *)
(* caller still waiting for it.  That a stale entry has a reason rests on  *)
(* two facts about a mutation under way: the reads that overlap it are     *)
(* marked, and what is cached meanwhile of the data it has cleared comes   *)
(* of such a read.                                                         *)
(***************************************************************************)
EXTENDS ApiCache, TLAPS

Sents == [stage : {"sent"}, key : Keys, user : Users, keep : BOOLEAN, raced : BOOLEAN]
Answereds == [stage : {"answered"}, key : Keys, user : Users, keep : BOOLEAN, raced : BOOLEAN,
              status : Statuses, version : 0..MaxVersion]
Waitings == [pc : {"waiting"}, user : Users, on : Callers, key : Keys]
Returneds == [pc : {"returned"}, user : Users, answer : Answers]
Faileds == [pc : {"failed", "refreshing"}, code : {"UNAUTHORIZED", "OTHER", "NO_TOKEN"}]

Tables ==
  /\ flight \in [Callers -> {NoFlight} \cup Sents \cup Answereds]
  /\ call \in [Callers -> {NoCall} \cup Waitings \cup Returneds \cup Faileds]

\* Whoever sent a request waits for it.
OwnCall == \A c \in Callers : UnderWay(c) => call[c].pc = "waiting" /\ call[c].on = c

\* Whoever waits, waits for a request that is under way, with the key that was asked for.
WaitIsAnswerable ==
  \A d \in Callers : call[d].pc = "waiting" =>
    \E c \in Callers : call[d].on = c /\ UnderWay(c) /\ flight[c].key = call[d].key

\* A read knows of every mutation of its data that was under way with it.
OverlapsAreRaced ==
  \A c, d \in Callers :
    UnderWay(c) /\ UnderWay(d) /\ Overlap(flight[c].key, flight[d].key) => flight[c].raced

\* So does an answer that the server's data have left behind.
OldAnswersAreRaced ==
  \A c \in Callers :
    flight[c].stage = "answered" /\ flight[c].key[1] = "GET" /\ flight[c].status = "ok"
      => (flight[c].version < version[flight[c].key[2]] => flight[c].raced)

\* And what was cached while a mutation that has cleared it is under way.
CachedMeanwhile ==
  \A d \in Callers, e \in Endpoints :
    /\ UnderWay(d) /\ flight[d].key[1] = "PUT" /\ cache[e] # None
    /\ e \in Changes[flight[d].key[2]] \cap Clears[flight[d].key[2]]
    => cache[e].raced

\* What is cached was read.
KeptIsRead == \A c \in Callers : UnderWay(c) /\ flight[c].keep => flight[c].key[1] = "GET"

PInv == TypeOK /\ Tables /\ PendingIsUnderWay /\ OwnCall /\ WaitIsAnswerable

RInv == KeptIsRead /\ OverlapsAreRaced /\ OldAnswersAreRaced /\ CachedMeanwhile /\ StaleHasReason

IInv == PInv /\ RInv
-----------------------------------------------------------------------------
(***************************************************************************)
(* What the tables hold.                                                   *)
(***************************************************************************)

LEMMA UnderWayFlight ==
  ASSUME Tables, NEW c \in Callers
  PROVE  /\ UnderWay(c) <=> flight[c] \in Sents \cup Answereds
         /\ UnderWay(c) <=> flight[c] # NoFlight
         /\ flight[c].stage = "sent" <=> flight[c] \in Sents
         /\ flight[c].stage = "answered" <=> flight[c] \in Answereds
         /\ UnderWay(c) => /\ flight[c].key \in Keys /\ flight[c].user \in Users
                           /\ flight[c].keep \in BOOLEAN /\ flight[c].raced \in BOOLEAN
<1>1. flight[c] \in {NoFlight} \cup Sents \cup Answereds
  BY DEF Tables
<1> QED BY <1>1 DEF UnderWay, NoFlight, Sents, Answereds

LEMMA CallStates ==
  ASSUME Tables, NEW c \in Callers
  PROVE  /\ call[c].pc = "waiting" <=> call[c] \in Waitings
         /\ call[c] \in Waitings => call[c].on \in Callers /\ call[c].user \in Users /\ call[c].key \in Keys
<1>1. call[c] \in {NoCall} \cup Waitings \cup Returneds \cup Faileds
  BY DEF Tables
<1> QED BY <1>1 DEF NoCall, Waitings, Returneds, Faileds

LEMMA KeyParts == ASSUME NEW k \in Keys PROVE k[1] \in {"GET", "PUT"} /\ k[2] \in Endpoints
  BY DEF Keys

\* The type invariant names the same records, one by one.
Rest ==
  /\ version \in [Endpoints -> 0..MaxVersion]
  /\ token \in Users \cup {None} /\ signedIn \in BOOLEAN
  /\ cache \in [Endpoints -> Answers \cup {None}]
  /\ pending \in [Keys -> Callers \cup {None}]
  /\ logins \in 0..MaxLogins

LEMMA TypeSplit ==
  /\ TypeOK => Rest
  /\ Rest /\ Tables => TypeOK
  /\ Rest' /\ Tables' => TypeOK'
<1>1. TypeOK => Rest
  BY DEF TypeOK, Rest
<1>2. Rest /\ Tables => TypeOK
  BY DEF TypeOK, Rest, Tables, Sents, Answereds, Waitings, Returneds, Faileds
<1>3. Rest' /\ Tables' => TypeOK'
  BY DEF TypeOK, Rest, Tables, Sents, Answereds, Waitings, Returneds, Faileds
<1> QED BY <1>1, <1>2, <1>3

LEMMA InitInv == ASSUME CacheAssumption, Init PROVE IInv
<1>1. \A c \in Callers : ~UnderWay(c) /\ flight[c].stage = "none" /\ call[c].pc = "idle"
  BY DEF Init, UnderWay, NoFlight, NoCall
<1>2. TypeOK /\ Tables
  <2>1. Rest
    <3>1. 0 \in 0..MaxVersion /\ 0 \in 0..MaxLogins
      BY DEF CacheAssumption
    <3> QED BY <3>1 DEF Init, Rest
  <2>2. Tables
    BY DEF Init, Tables
  <2> QED BY <2>1, <2>2, TypeSplit
<1>3. PendingIsUnderWay
  BY <1>1 DEF Init, PendingIsUnderWay, CacheAssumption
<1>4. OwnCall /\ WaitIsAnswerable
  BY <1>1 DEF OwnCall, WaitIsAnswerable
<1>5. RInv
  BY <1>1 DEF Init, RInv, KeptIsRead, OverlapsAreRaced, OldAnswersAreRaced, CachedMeanwhile, StaleHasReason
<1> QED BY <1>2, <1>3, <1>4, <1>5 DEF IInv, PInv

-----------------------------------------------------------------------------
(***************************************************************************)
(* The map of pending requests.                                            *)
(***************************************************************************)

\* A step that leaves the requests alone, and changes neither who waits nor for what.
LEMMA AsidePInv ==
  ASSUME PInv, Rest', UNCHANGED <<pending, flight>>,
         call' \in [Callers -> {NoCall} \cup Waitings \cup Returneds \cup Faileds],
         \A c \in Callers : call[c].pc = "waiting" \/ call'[c].pc = "waiting" => call'[c] = call[c]
  PROVE  PInv'
<1>1. TypeOK' /\ Tables'
  BY TypeSplit DEF PInv, Tables
<1>2. \A c \in Callers : UnderWay(c)' <=> UnderWay(c)
  BY DEF UnderWay
<1>3. PendingIsUnderWay'
  BY <1>2 DEF PInv, PendingIsUnderWay
<1>4. OwnCall' /\ WaitIsAnswerable'
  <2>1. \A d \in Callers : call[d].pc = "waiting" => call[d].on \in Callers
    BY CallStates DEF PInv
  <2> QED BY <1>2, <2>1 DEF PInv, OwnCall, WaitIsAnswerable
<1> QED BY <1>1, <1>3, <1>4 DEF PInv

\* One entry of the table of calls changes.
LEMMA OneCallPInv ==
  ASSUME PInv, Rest', UNCHANGED <<pending, flight>>, NEW c \in Callers,
         NEW x \in {NoCall} \cup Returneds \cup Faileds,
         call[c].pc # "waiting", call' = [call EXCEPT ![c] = x]
  PROVE  PInv'
<1>1. x.pc # "waiting" /\ x \in {NoCall} \cup Waitings \cup Returneds \cup Faileds
  BY DEF NoCall, Returneds, Faileds
<1>2. call' \in [Callers -> {NoCall} \cup Waitings \cup Returneds \cup Faileds]
  BY <1>1 DEF PInv, Tables
<1>3. \A d \in Callers : call[d].pc = "waiting" \/ call'[d].pc = "waiting" => call'[d] = call[d]
  BY <1>1 DEF PInv, Tables
<1> QED BY <1>2, <1>3, AsidePInv

\* What becomes of the requests when one more is sent.
Raced(k) == \E b \in Callers : UnderWay(b) /\ Overlap(k, flight[b].key)

SentAs(c, k, keep) ==
  [stage |-> "sent", key |-> k, user |-> token, keep |-> keep, raced |-> Raced(k)]

LEMMA SentFlights ==
  ASSUME PInv, NEW c \in Callers, NEW k \in Keys, NEW keep \in BOOLEAN, token \in Users, Sent(c, k, keep)
  PROVE  /\ flight' \in [Callers -> {NoFlight} \cup Sents \cup Answereds]
         /\ flight'[c] = SentAs(c, k, keep) /\ flight'[c] \in Sents /\ UnderWay(c)'
         /\ \A d \in Callers \ {c} :
              /\ UnderWay(d)' <=> UnderWay(d)
              /\ ~UnderWay(d) => flight'[d] = flight[d]
              /\ UnderWay(d) =>
                   /\ flight'[d].stage = flight[d].stage /\ flight'[d].key = flight[d].key
                   /\ flight'[d].keep = flight[d].keep
                   /\ flight'[d].raced = (flight[d].raced \/ Overlap(flight[d].key, k))
                   /\ flight[d].stage = "answered" =>
                        flight'[d].status = flight[d].status /\ flight'[d].version = flight[d].version
<1>1. flight' = [d \in Callers |->
         IF d = c THEN SentAs(c, k, keep)
         ELSE IF UnderWay(d) /\ Overlap(flight[d].key, k) THEN [flight[d] EXCEPT !.raced = TRUE]
         ELSE flight[d]]
  BY DEF Sent, SentAs, Raced
<1>2. Raced(k) \in BOOLEAN
  BY DEF Raced
<1>3. SentAs(c, k, keep) \in Sents
  BY <1>2 DEF SentAs, Sents
<1>4. flight'[c] = SentAs(c, k, keep) /\ UnderWay(c)'
  BY <1>1 DEF UnderWay, SentAs
<1>5. ASSUME NEW d \in Callers \ {c}
      PROVE  /\ flight'[d] \in {NoFlight} \cup Sents \cup Answereds
             /\ UnderWay(d)' <=> UnderWay(d)
             /\ ~UnderWay(d) => flight'[d] = flight[d]
             /\ UnderWay(d) =>
                  /\ flight'[d].stage = flight[d].stage /\ flight'[d].key = flight[d].key
                  /\ flight'[d].keep = flight[d].keep
                  /\ flight'[d].raced = (flight[d].raced \/ Overlap(flight[d].key, k))
                  /\ flight[d].stage = "answered" =>
                       flight'[d].status = flight[d].status /\ flight'[d].version = flight[d].version
  <2>1. CASE ~UnderWay(d)
    <3>1. flight'[d] = flight[d]
      BY <1>1, <2>1
    <3> QED BY <2>1, <3>1 DEF UnderWay, PInv, Tables
  <2>2. CASE UnderWay(d) /\ ~Overlap(flight[d].key, k)
    <3>1. flight'[d] = flight[d]
      BY <1>1, <2>2
    <3>2. flight[d].raced \in BOOLEAN
      BY <2>2, UnderWayFlight DEF PInv
    <3> QED BY <2>2, <3>1, <3>2 DEF UnderWay, PInv, Tables
  <2>3. CASE UnderWay(d) /\ Overlap(flight[d].key, k)
    <3>1. flight'[d] = [flight[d] EXCEPT !.raced = TRUE]
      BY <1>1, <2>3
    <3>2. flight[d] \in Sents \cup Answereds
      BY <2>3, UnderWayFlight DEF PInv
    <3>3. CASE flight[d] \in Sents
      <4>1. flight'[d] \in Sents /\ flight'[d].raced = TRUE /\ flight'[d].stage = "sent" /\ flight[d].stage = "sent"
            /\ flight'[d].key = flight[d].key /\ flight'[d].keep = flight[d].keep
        BY <3>1, <3>3 DEF Sents
      <4> QED BY <2>3, <4>1 DEF UnderWay
    <3>4. CASE flight[d] \in Answereds
      <4>1. flight'[d] \in Answereds /\ flight'[d].raced = TRUE
            /\ flight'[d].stage = "answered" /\ flight[d].stage = "answered"
            /\ flight'[d].key = flight[d].key /\ flight'[d].keep = flight[d].keep
            /\ flight'[d].status = flight[d].status /\ flight'[d].version = flight[d].version
        BY <3>1, <3>4 DEF Answereds
      <4> QED BY <2>3, <4>1 DEF UnderWay
    <3> QED BY <3>2, <3>3, <3>4
  <2> QED BY <2>1, <2>2, <2>3
<1>6. flight' \in [Callers -> {NoFlight} \cup Sents \cup Answereds]
  <2> HIDE DEF SentAs
  <2>1. \A d \in Callers : flight'[d] \in {NoFlight} \cup Sents \cup Answereds
    BY <1>3, <1>4, <1>5
  <2> QED BY <1>1, <2>1
<1> QED BY <1>3, <1>4, <1>5, <1>6

\* A caller that is idle has no request, so it may send one.
LEMMA IdleHasNone == ASSUME PInv, NEW c \in Callers, call[c].pc # "waiting" PROVE ~UnderWay(c)
  BY DEF PInv, OwnCall

\* A caller's entry that becomes a wait for some request.
LEMMA WaitingCall ==
  ASSUME PInv, NEW c \in Callers, NEW d \in Callers, NEW k \in Keys, token \in Users,
         call' = [call EXCEPT ![c] = [pc |-> "waiting", user |-> token, on |-> d, key |-> k]]
  PROVE  /\ call' \in [Callers -> {NoCall} \cup Waitings \cup Returneds \cup Faileds]
         /\ call'[c].pc = "waiting" /\ call'[c].on = d /\ call'[c].key = k
         /\ \A b \in Callers \ {c} : call'[b] = call[b]
<1> DEFINE x == [pc |-> "waiting", user |-> token, on |-> d, key |-> k]
<1>1. x \in Waitings /\ x.pc = "waiting" /\ x.on = d /\ x.key = k
  BY DEF Waitings
<1>2. call' = [call EXCEPT ![c] = x]
  OBVIOUS
<1> HIDE DEF x
<1> QED BY <1>1, <1>2 DEF PInv, Tables

LEMMA SentPInv ==
  ASSUME CacheAssumption, PInv, Rest', NEW c \in Callers, NEW k \in Keys, NEW keep \in BOOLEAN,
         token \in Users, call[c].pc # "waiting", Sent(c, k, keep)
  PROVE  PInv'
<1>1. /\ pending[k] = None /\ pending' = [pending EXCEPT ![k] = c]
      /\ call' = [call EXCEPT ![c] = [pc |-> "waiting", user |-> token, on |-> c, key |-> k]]
      /\ None \notin Callers
  BY DEF Sent, CacheAssumption
<1>2. /\ flight' \in [Callers -> {NoFlight} \cup Sents \cup Answereds]
      /\ UnderWay(c)' /\ flight'[c].key = k
      /\ \A d \in Callers \ {c} : /\ UnderWay(d)' <=> UnderWay(d)
                                  /\ UnderWay(d) => flight'[d].key = flight[d].key
  <2>1. SentAs(c, k, keep).key = k
    BY DEF SentAs
  <2> QED BY <2>1, SentFlights
<1>3. /\ call' \in [Callers -> {NoCall} \cup Waitings \cup Returneds \cup Faileds]
      /\ call'[c].pc = "waiting" /\ call'[c].on = c /\ call'[c].key = k
      /\ \A d \in Callers \ {c} : call'[d] = call[d]
  BY <1>1, WaitingCall
<1>4. TypeOK' /\ Tables'
  BY <1>2, <1>3, TypeSplit DEF Tables
<1>5. ~UnderWay(c)
  BY IdleHasNone
<1>6. PendingIsUnderWay'
  <2> SUFFICES ASSUME NEW d \in Callers, NEW l \in Keys
               PROVE  pending'[l] = d <=> UnderWay(d)' /\ flight'[d].key = l
    BY DEF PendingIsUnderWay
  <2>1. pending[l] = d <=> UnderWay(d) /\ flight[d].key = l
    BY DEF PInv, PendingIsUnderWay
  <2>2. pending'[l] = IF l = k THEN c ELSE pending[l]
    BY <1>1, TypeSplit DEF PInv, Rest
  <2>3. CASE d = c
    BY <1>2, <1>5, <2>1, <2>2, <2>3
  <2>4. CASE d # c
    <3>1. ~(UnderWay(d) /\ flight[d].key = k)
      BY <1>1 DEF PInv, PendingIsUnderWay
    <3> QED BY <1>2, <2>1, <2>2, <2>4, <3>1
  <2> QED BY <2>3, <2>4
<1>7. OwnCall'
  BY <1>2, <1>3 DEF PInv, OwnCall
<1>8. WaitIsAnswerable'
  <2> SUFFICES ASSUME NEW d \in Callers, call'[d].pc = "waiting"
               PROVE  \E b \in Callers : call'[d].on = b /\ UnderWay(b)' /\ flight'[b].key = call'[d].key
    BY DEF WaitIsAnswerable
  <2>1. CASE d = c
    BY <1>2, <1>3, <2>1
  <2>2. CASE d # c
    <3>1. call[d].pc = "waiting" /\ call'[d] = call[d]
      BY <1>3, <2>2
    <3>2. PICK b \in Callers : call[d].on = b /\ UnderWay(b) /\ flight[b].key = call[d].key
      BY <3>1 DEF PInv, WaitIsAnswerable
    <3> QED BY <1>2, <1>5, <3>1, <3>2
  <2> QED BY <2>1, <2>2
<1> QED BY <1>4, <1>6, <1>7, <1>8 DEF PInv

LEMMA JoinedPInv ==
  ASSUME CacheAssumption, PInv, Rest', NEW c \in Callers, NEW k \in Keys, token \in Users,
         call[c].pc # "waiting", Joined(c, k)
  PROVE  PInv'
<1>1. /\ pending[k] \in Callers /\ UNCHANGED <<pending, flight>>
      /\ call' = [call EXCEPT ![c] = [pc |-> "waiting", user |-> token, on |-> pending[k], key |-> k]]
  BY TypeSplit DEF Joined, PInv, Rest
<1>2. /\ call' \in [Callers -> {NoCall} \cup Waitings \cup Returneds \cup Faileds]
      /\ call'[c].pc = "waiting" /\ call'[c].on = pending[k] /\ call'[c].key = k
      /\ \A d \in Callers \ {c} : call'[d] = call[d]
  BY <1>1, WaitingCall
<1>3. TypeOK' /\ Tables'
  BY <1>1, <1>2, TypeSplit DEF Tables, PInv
<1>4. \A d \in Callers : UnderWay(d)' <=> UnderWay(d)
  BY <1>1 DEF UnderWay
<1>5. PendingIsUnderWay'
  BY <1>1, <1>4 DEF PInv, PendingIsUnderWay
<1>6. ~UnderWay(c) /\ UnderWay(pending[k]) /\ flight[pending[k]].key = k
  BY <1>1, IdleHasNone DEF PInv, PendingIsUnderWay
<1>7. OwnCall'
  BY <1>2, <1>4, <1>6 DEF PInv, OwnCall
<1>8. WaitIsAnswerable'
  <2> SUFFICES ASSUME NEW d \in Callers, call'[d].pc = "waiting"
               PROVE  \E b \in Callers : call'[d].on = b /\ UnderWay(b)' /\ flight'[b].key = call'[d].key
    BY DEF WaitIsAnswerable
  <2>1. CASE d = c
    BY <1>1, <1>2, <1>4, <1>6, <2>1
  <2>2. CASE d # c
    <3>1. call[d].pc = "waiting" /\ call'[d] = call[d]
      BY <1>2, <2>2
    <3> QED BY <1>1, <1>4, <3>1 DEF PInv, WaitIsAnswerable
  <2> QED BY <2>1, <2>2
<1> QED BY <1>3, <1>5, <1>7, <1>8 DEF PInv

\* A mutation that is applied leaves what is cached as it is, but for the mark.
LEMMA OverlookedKeeps ==
  ASSUME cache \in [Endpoints -> Answers \cup {None}], None \notin Answers, NEW k
  PROVE  /\ Overlooked(k) \in [Endpoints -> Answers \cup {None}]
         /\ \A e \in Endpoints :
              /\ Overlooked(k)[e] = None <=> cache[e] = None
              /\ cache[e] # None =>
                   /\ Overlooked(k)[e].raced = cache[e].raced /\ Overlooked(k)[e].version = cache[e].version
                   /\ Overlooked(k)[e].missed = (cache[e].missed \/ e \in Changes[k[2]] \ Clears[k[2]])
<1>1. ASSUME NEW e \in Endpoints, cache[e] # None, e \in Changes[k[2]] \ Clears[k[2]]
      PROVE  /\ Overlooked(k)[e] \in Answers /\ Overlooked(k)[e].missed = TRUE
             /\ Overlooked(k)[e].raced = cache[e].raced /\ Overlooked(k)[e].version = cache[e].version
  <2>1. Overlooked(k)[e] = [cache[e] EXCEPT !.missed = TRUE] /\ cache[e] \in Answers
    BY <1>1 DEF Overlooked
  <2> QED BY <2>1 DEF Answers
<1>2. ASSUME NEW e \in Endpoints, ~(cache[e] # None /\ e \in Changes[k[2]] \ Clears[k[2]])
      PROVE  Overlooked(k)[e] = cache[e]
  BY <1>2 DEF Overlooked
<1>3. \A e \in Endpoints : cache[e] # None => cache[e].missed \in BOOLEAN
  BY DEF Answers
<1>4. Overlooked(k) \in [Endpoints -> Answers \cup {None}]
  <2>1. Overlooked(k) = [e \in Endpoints |-> Overlooked(k)[e]]
    BY DEF Overlooked
  <2>2. \A e \in Endpoints : Overlooked(k)[e] \in Answers \cup {None}
    BY <1>1, <1>2
  <2> QED BY <2>1, <2>2
<1>5. ASSUME NEW e \in Endpoints
      PROVE  /\ Overlooked(k)[e] = None <=> cache[e] = None
             /\ cache[e] # None =>
                  /\ Overlooked(k)[e].raced = cache[e].raced /\ Overlooked(k)[e].version = cache[e].version
                  /\ Overlooked(k)[e].missed = (cache[e].missed \/ e \in Changes[k[2]] \ Clears[k[2]])
  <2>1. CASE cache[e] # None /\ e \in Changes[k[2]] \ Clears[k[2]]
    BY <1>1, <1>3, <2>1
  <2>2. CASE ~(cache[e] # None /\ e \in Changes[k[2]] \ Clears[k[2]])
    BY <1>2, <1>3, <2>2
  <2> QED BY <2>1, <2>2
<1> QED BY <1>4, <1>5

\* The server handles a request, which goes on as one that is answered.
AnswerTo(f, status, v) ==
  [stage |-> "answered", key |-> f.key, user |-> f.user, keep |-> f.keep, raced |-> f.raced,
   status |-> status, version |-> v]

LEMMA ServeFlight ==
  ASSUME CacheAssumption, PInv, NEW c \in Callers, Serve(c)
  PROVE  \E status \in Statuses, v \in 0..MaxVersion :
           /\ flight' = [flight EXCEPT ![c] = AnswerTo(flight[c], status, v)]
           /\ AnswerTo(flight[c], status, v) \in Answereds
           /\ status = "ok" /\ flight[c].key[1] = "GET" => v = version[flight[c].key[2]]
           /\ \/ UNCHANGED <<version, cache>>
              \/ /\ flight[c].key[1] = "PUT"
                 /\ version' = [e \in Endpoints |-> IF e \in Changes[flight[c].key[2]] THEN version[e] + 1 ELSE version[e]]
                 /\ version' \in [Endpoints -> 0..MaxVersion]
                 /\ cache' = Overlooked(flight[c].key)
<1> DEFINE f == flight[c]
           changed == Changes[f.key[2]]
           bumped == [e \in Endpoints |-> IF e \in changed THEN version[e] + 1 ELSE version[e]]
<1>1. f \in Sents /\ f.key \in Keys /\ f.key[1] \in {"GET", "PUT"} /\ f.key[2] \in Endpoints
  BY UnderWayFlight, KeyParts DEF Serve, PInv, Sents
<1>2. version \in [Endpoints -> 0..MaxVersion] /\ 0 \in 0..MaxVersion
  BY TypeSplit DEF PInv, Rest, CacheAssumption
<1>3. ASSUME NEW status \in Statuses, NEW v \in 0..MaxVersion
      PROVE  AnswerTo(f, status, v) \in Answereds
  BY <1>1 DEF AnswerTo, Answereds, Sents
<1>4. \A status \in {"ok", "unauthorized", "failed"} : status \in Statuses
  BY DEF Statuses
<1>5. \/ flight' = [flight EXCEPT ![c] = AnswerTo(f, "failed", 0)] /\ UNCHANGED <<version, cache>>
      \/ flight' = [flight EXCEPT ![c] = AnswerTo(f, "unauthorized", 0)] /\ UNCHANGED <<version, cache>>
      \/ f.key[1] = "GET" /\ flight' = [flight EXCEPT ![c] = AnswerTo(f, "ok", version[f.key[2]])] /\ UNCHANGED <<version, cache>>
      \/ /\ f.key[1] = "PUT" /\ \A e \in changed : version[e] < MaxVersion
         /\ version' = bumped /\ cache' = Overlooked(f.key)
         /\ \/ flight' = [flight EXCEPT ![c] = AnswerTo(f, "ok", version'[f.key[2]])]
            \/ flight' = [flight EXCEPT ![c] = AnswerTo(f, "failed", 0)]
  BY DEF Serve, AnswerTo
<1>6. CASE \/ flight' = [flight EXCEPT ![c] = AnswerTo(f, "failed", 0)] /\ UNCHANGED <<version, cache>>
           \/ flight' = [flight EXCEPT ![c] = AnswerTo(f, "unauthorized", 0)] /\ UNCHANGED <<version, cache>>
  BY <1>2, <1>3, <1>4, <1>6
<1>7. CASE f.key[1] = "GET" /\ flight' = [flight EXCEPT ![c] = AnswerTo(f, "ok", version[f.key[2]])] /\ UNCHANGED <<version, cache>>
  <2>1. version[f.key[2]] \in 0..MaxVersion
    BY <1>1, <1>2
  <2> QED BY <1>3, <1>4, <1>7, <2>1
<1>8. CASE /\ f.key[1] = "PUT" /\ \A e \in changed : version[e] < MaxVersion
           /\ version' = bumped /\ cache' = Overlooked(f.key)
           /\ \/ flight' = [flight EXCEPT ![c] = AnswerTo(f, "ok", version'[f.key[2]])]
              \/ flight' = [flight EXCEPT ![c] = AnswerTo(f, "failed", 0)]
  <2>1. version' \in [Endpoints -> 0..MaxVersion]
    BY <1>2, <1>8 DEF CacheAssumption
  <2>2. version'[f.key[2]] \in 0..MaxVersion /\ f.key[1] # "GET"
    BY <1>1, <1>8, <2>1
  <2> HIDE DEF bumped
  <2>3. \A status \in Statuses, v \in 0..MaxVersion : ~(status = "ok" /\ f.key[1] = "GET")
    BY <2>2
  <2>4. f.key[1] = "PUT" /\ version' = bumped /\ cache' = Overlooked(f.key)
    BY <1>8
  <2>5. \E status \in Statuses, v \in 0..MaxVersion : flight' = [flight EXCEPT ![c] = AnswerTo(f, status, v)]
    BY <1>2, <1>4, <1>8, <2>2
  <2> QED BY <1>3, <2>1, <2>3, <2>4, <2>5 DEF bumped
<1> QED BY <1>5, <1>6, <1>7, <1>8

LEMMA ServePInv == ASSUME CacheAssumption, PInv, NEW c \in Callers, Serve(c) PROVE PInv'
<1>1. PICK status \in Statuses, v \in 0..MaxVersion :
        /\ flight' = [flight EXCEPT ![c] = AnswerTo(flight[c], status, v)]
        /\ AnswerTo(flight[c], status, v) \in Answereds
        /\ \/ UNCHANGED <<version, cache>>
           \/ version' \in [Endpoints -> 0..MaxVersion] /\ cache' = Overlooked(flight[c].key)
  BY ServeFlight
<1>2. UNCHANGED <<token, signedIn, logins, pending, call>> /\ UnderWay(c)
  BY DEF Serve, session, UnderWay
<1>3. Rest'
  <2>1. Rest
    BY TypeSplit DEF PInv
  <2>2. cache' \in [Endpoints -> Answers \cup {None}]
    BY <1>1, <2>1, OverlookedKeeps DEF Rest, CacheAssumption
  <2> QED BY <1>1, <1>2, <2>1, <2>2 DEF Rest
<1>4. AnswerTo(flight[c], status, v).key = flight[c].key /\ AnswerTo(flight[c], status, v).stage = "answered"
  BY DEF AnswerTo
<1>5. /\ flight' \in [Callers -> {NoFlight} \cup Sents \cup Answereds]
      /\ flight'[c].key = flight[c].key /\ flight'[c].stage = "answered"
      /\ \A d \in Callers \ {c} : flight'[d] = flight[d]
  BY <1>1, <1>4 DEF PInv, Tables
<1>6. \A d \in Callers : (UnderWay(d)' <=> UnderWay(d)) /\ flight'[d].key = flight[d].key
  BY <1>2, <1>5 DEF UnderWay
<1>7. TypeOK' /\ Tables'
  BY <1>2, <1>3, <1>5, TypeSplit DEF PInv, Tables
<1>8. PendingIsUnderWay'
  BY <1>2, <1>6 DEF PInv, PendingIsUnderWay
<1>9. OwnCall' /\ WaitIsAnswerable'
  BY <1>2, <1>6 DEF PInv, OwnCall, WaitIsAnswerable
<1> QED BY <1>7, <1>8, <1>9 DEF PInv

\* The answer arrives.
LEMMA SettleFlights ==
  ASSUME PInv, NEW c \in Callers, Settle(c)
  PROVE  /\ flight[c] \in Answereds /\ UnderWay(c)
         /\ flight' \in [Callers -> {NoFlight} \cup Sents \cup Answereds]
         /\ flight'[c] = NoFlight /\ ~UnderWay(c)'
         /\ \A d \in Callers \ {c} : flight'[d] = flight[d] /\ (UnderWay(d)' <=> UnderWay(d))
<1>1. flight[c].stage = "answered" /\ flight' = [flight EXCEPT ![c] = NoFlight]
  BY DEF Settle
<1>2. flight[c] \in Answereds /\ UnderWay(c)
  BY <1>1, UnderWayFlight DEF PInv, UnderWay
<1>3. /\ flight' \in [Callers -> {NoFlight} \cup Sents \cup Answereds] /\ flight'[c] = NoFlight
      /\ \A d \in Callers \ {c} : flight'[d] = flight[d]
  BY <1>1 DEF PInv, Tables
<1> QED BY <1>2, <1>3 DEF UnderWay, NoFlight

LEMMA SettleCalls ==
  ASSUME PInv, NEW c \in Callers, Settle(c)
  PROVE  /\ call' \in [Callers -> {NoCall} \cup Waitings \cup Returneds \cup Faileds]
         /\ \A d \in Callers :
              IF call[d].pc = "waiting" /\ call[d].on = c THEN call'[d].pc # "waiting" ELSE call'[d] = call[d]
<1> DEFINE f == flight[c]
           ok == f.status = "ok"
           answer == [user |-> f.user, version |-> f.version, raced |-> f.raced, missed |-> FALSE]
           error == Handle(f.status)
           next(d) == IF ok THEN [pc |-> "returned", user |-> call[d].user, answer |-> answer]
                      ELSE [pc |-> IF Refreshes(error) THEN "refreshing" ELSE "failed", code |-> error.code]
<1>1. call' = [d \in Callers |-> IF d \notin Waiters(c) THEN call[d] ELSE next(d)]
  BY DEF Settle
<1>2. f \in Answereds
  BY SettleFlights
<1>3. answer \in Answers
  BY <1>2 DEF Answereds, Answers
<1>4. error.code \in {"UNAUTHORIZED", "OTHER"}
  BY DEF Handle
<1>5. ASSUME NEW d \in Waiters(c) PROVE next(d) \in Returneds \cup Faileds /\ next(d).pc # "waiting"
  <2>1. call[d].user \in Users /\ d \in Callers
    BY CallStates DEF Waiters, PInv
  <2>2. CASE ok
    <3> HIDE DEF answer, ok
    <3>1. next(d) = [pc |-> "returned", user |-> call[d].user, answer |-> answer]
      BY <2>2
    <3>2. next(d) \in Returneds /\ next(d).pc = "returned"
      BY <1>3, <2>1, <3>1 DEF Returneds
    <3> QED BY <3>2
  <2>3. CASE ~ok
    <3> HIDE DEF error, ok
    <3>1. \E pc \in {"refreshing", "failed"} : next(d) = [pc |-> pc, code |-> error.code]
      BY <2>3
    <3>2. next(d) \in Faileds /\ next(d).pc \in {"refreshing", "failed"}
      BY <1>4, <3>1 DEF Faileds
    <3> QED BY <3>2
  <2> QED BY <2>2, <2>3
<1> HIDE DEF next
<1>6. \A d \in Callers : call[d] \in {NoCall} \cup Waitings \cup Returneds \cup Faileds
  BY DEF PInv, Tables
<1>7. call' \in [Callers -> {NoCall} \cup Waitings \cup Returneds \cup Faileds]
  BY <1>1, <1>5, <1>6
<1> QED BY <1>1, <1>5, <1>7 DEF Waiters

LEMMA SettleRest == ASSUME PInv, NEW c \in Callers, Settle(c) PROVE Rest'
<1> DEFINE f == flight[c]
           answer == [user |-> f.user, version |-> f.version, raced |-> f.raced, missed |-> FALSE]
<1>1. f \in Answereds /\ f.key \in Keys /\ f.key[2] \in Endpoints
  BY SettleFlights, KeyParts DEF Answereds
<1>2. answer \in Answers
  BY <1>1 DEF Answereds, Answers
<1>3. /\ cache' = cache \/ cache' = [cache EXCEPT ![f.key[2]] = answer]
      /\ pending' = [pending EXCEPT ![f.key] = None]
      /\ signedIn' \in BOOLEAN /\ UNCHANGED <<version, token, logins>>
  BY DEF Settle, Forget
<1>4. Rest
  BY TypeSplit DEF PInv
<1> HIDE DEF answer
<1>5. cache' \in [Endpoints -> Answers \cup {None}]
  BY <1>2, <1>3, <1>4 DEF Rest
<1> QED BY <1>3, <1>4, <1>5 DEF Rest

LEMMA SettlePInv == ASSUME CacheAssumption, PInv, NEW c \in Callers, Settle(c) PROVE PInv'
<1>1. /\ flight[c].key \in Keys /\ UnderWay(c)
      /\ flight' \in [Callers -> {NoFlight} \cup Sents \cup Answereds] /\ ~UnderWay(c)'
      /\ \A d \in Callers \ {c} : flight'[d] = flight[d] /\ (UnderWay(d)' <=> UnderWay(d))
  BY SettleFlights, UnderWayFlight DEF PInv
<1>2. pending' = [pending EXCEPT ![flight[c].key] = None] /\ pending[flight[c].key] = c /\ None \notin Callers
  BY <1>1 DEF Settle, Forget, PInv, PendingIsUnderWay, CacheAssumption
<1>3. /\ call' \in [Callers -> {NoCall} \cup Waitings \cup Returneds \cup Faileds]
      /\ \A d \in Callers :
           IF call[d].pc = "waiting" /\ call[d].on = c THEN call'[d].pc # "waiting" ELSE call'[d] = call[d]
  BY SettleCalls
<1>4. TypeOK' /\ Tables'
  BY <1>1, <1>3, SettleRest, TypeSplit DEF Tables
<1>5. PendingIsUnderWay'
  <2> SUFFICES ASSUME NEW d \in Callers, NEW k \in Keys
               PROVE  pending'[k] = d <=> UnderWay(d)' /\ flight'[d].key = k
    BY DEF PendingIsUnderWay
  <2>1. pending[k] = d <=> UnderWay(d) /\ flight[d].key = k
    BY DEF PInv, PendingIsUnderWay
  <2>2. pending'[k] = IF k = flight[c].key THEN None ELSE pending[k]
    BY <1>2, TypeSplit DEF PInv, Rest
  <2> QED BY <1>1, <1>2, <2>1, <2>2
<1>6. OwnCall'
  BY <1>1, <1>3 DEF PInv, OwnCall
<1>7. WaitIsAnswerable'
  <2> SUFFICES ASSUME NEW d \in Callers, call'[d].pc = "waiting"
               PROVE  \E b \in Callers : call'[d].on = b /\ UnderWay(b)' /\ flight'[b].key = call'[d].key
    BY DEF WaitIsAnswerable
  <2>1. call'[d] = call[d] /\ call[d].on # c
    BY <1>3
  <2>2. PICK b \in Callers : call[d].on = b /\ UnderWay(b) /\ flight[b].key = call[d].key
    BY <2>1 DEF PInv, WaitIsAnswerable
  <2> QED BY <1>1, <2>1, <2>2
<1> QED BY <1>4, <1>5, <1>6, <1>7 DEF PInv

\* What a call does before its first await, but for the cache it may clear.
LEMMA CallCases ==
  ASSUME CacheAssumption, PInv, NEW c \in Callers, NEW k \in Keys, NEW keep \in BOOLEAN, Call(c, k, keep)
  PROVE  /\ call[c].pc # "waiting" /\ cache' = Cleared(k) /\ Rest' /\ UNCHANGED <<version, session>>
         /\ \/ /\ \E x \in Returneds \cup Faileds : call' = [call EXCEPT ![c] = x]
               /\ UNCHANGED <<pending, flight>>
            \/ token \in Users /\ Joined(c, k)
            \/ token \in Users /\ Sent(c, k, keep)
<1>1. /\ call[c].pc = "idle" /\ cache' = Cleared(k) /\ UNCHANGED <<version, token, signedIn, logins>>
      /\ Rest /\ k[2] \in Endpoints
  BY TypeSplit, KeyParts DEF Call, PInv, session
<1>2. cache' \in [Endpoints -> Answers \cup {None}]
  BY <1>1 DEF Cleared, Rest
<1>3. CASE token = None /\ call' = [call EXCEPT ![c] = [pc |-> "failed", code |-> "NO_TOKEN"]]
           /\ UNCHANGED <<pending, flight>>
  <2>1. [pc |-> "failed", code |-> "NO_TOKEN"] \in Faileds
    BY DEF Faileds
  <2> QED BY <1>1, <1>2, <1>3, <2>1 DEF Rest, session
<1>4. CASE /\ token # None /\ cache[k[2]] # None
           /\ call' = [call EXCEPT ![c] = [pc |-> "returned", user |-> token, answer |-> cache[k[2]]]]
           /\ UNCHANGED <<pending, flight>>
  <2>1. token \in Users /\ cache[k[2]] \in Answers
    BY <1>1, <1>4 DEF Rest
  <2>2. [pc |-> "returned", user |-> token, answer |-> cache[k[2]]] \in Returneds
    BY <2>1 DEF Returneds
  <2> QED BY <1>1, <1>2, <1>4, <2>2 DEF Rest, session
<1>5. CASE token # None /\ (Joined(c, k) \/ Sent(c, k, keep))
  <2>1. token \in Users
    BY <1>1, <1>5 DEF Rest
  <2>2. pending' \in [Keys -> Callers \cup {None}]
    BY <1>1, <1>5 DEF Rest, Joined, Sent
  <2> QED BY <1>1, <1>2, <1>5, <2>1, <2>2 DEF Rest, session
<1> QED BY <1>3, <1>4, <1>5 DEF Call

LEMMA NextPInv == ASSUME CacheAssumption, PInv, [Next]_vars PROVE PInv'
<1>0. Rest /\ call \in [Callers -> {NoCall} \cup Waitings \cup Returneds \cup Faileds]
  BY TypeSplit DEF PInv, Tables
<1>1. ASSUME NEW c \in Callers, NEW k \in Keys, NEW keep \in BOOLEAN, Call(c, k, keep) PROVE PInv'
  <2>1. CASE /\ \E x \in Returneds \cup Faileds : call' = [call EXCEPT ![c] = x]
             /\ UNCHANGED <<pending, flight>>
    BY <1>1, <2>1, CallCases, OneCallPInv
  <2>2. CASE token \in Users /\ Joined(c, k)
    BY <1>1, <2>2, CallCases, JoinedPInv
  <2>3. CASE token \in Users /\ Sent(c, k, keep)
    BY <1>1, <2>3, CallCases, SentPInv
  <2> QED BY <1>1, <2>1, <2>2, <2>3, CallCases
<1>2. ASSUME NEW c \in Callers, Return(c) PROVE PInv'
  <2>1. call[c].pc # "waiting" /\ call' = [call EXCEPT ![c] = NoCall]
        /\ UNCHANGED <<version, token, signedIn, logins, cache, pending, flight>>
    BY <1>2 DEF Return, session
  <2>2. Rest'
    BY <1>0, <2>1 DEF Rest
  <2> QED BY <2>1, <2>2, OneCallPInv
<1>3. ASSUME NEW e \in Endpoints, CacheExpires(e) PROVE PInv'
  <2>1. Rest' /\ UNCHANGED <<pending, flight, call>>
    BY <1>0, <1>3 DEF Rest, CacheExpires, session
  <2> QED BY <1>0, <2>1, AsidePInv
<1>4. ASSUME (\E u \in Users : Login(u)) \/ Logout PROVE PInv'
  <2>1. UNCHANGED <<version, cache, pending, flight, call>>
    BY <1>4 DEF Login, Logout
  <2>2. token' \in Users \cup {None} /\ signedIn' \in BOOLEAN
    BY <1>4 DEF Login, Logout
  <2>3. logins' \in 0..MaxLogins
    <3>1. logins \in 0..MaxLogins /\ MaxLogins \in Nat
      BY <1>0 DEF Rest, CacheAssumption
    <3> QED BY <1>4, <3>1 DEF Login, Logout
  <2>4. Rest'
    BY <1>0, <2>1, <2>2, <2>3 DEF Rest
  <2> QED BY <1>0, <2>1, <2>4, AsidePInv
<1>5. CASE UNCHANGED vars
  <2>1. Rest' /\ UNCHANGED <<pending, flight, call>>
    BY <1>0, <1>5 DEF Rest, vars
  <2> QED BY <1>0, <2>1, AsidePInv
<1> QED BY <1>1, <1>2, <1>3, <1>4, <1>5, ServePInv, SettlePInv DEF Next

-----------------------------------------------------------------------------
(***************************************************************************)
(* The age of what is cached.                                              *)
(***************************************************************************)

\* A step that sends nothing and hears nothing.
LEMMA AsideRInv ==
  ASSUME RInv, UNCHANGED <<version, flight>>, \A e \in Endpoints : cache'[e] \in {cache[e], None}
  PROVE  RInv'
<1>1. \A c \in Callers : UnderWay(c)' <=> UnderWay(c)
  BY DEF UnderWay
<1>2. KeptIsRead' /\ OverlapsAreRaced' /\ OldAnswersAreRaced'
  BY <1>1 DEF RInv, KeptIsRead, OverlapsAreRaced, OldAnswersAreRaced, Overlap
<1>3. CachedMeanwhile' /\ StaleHasReason'
  BY <1>1 DEF RInv, CachedMeanwhile, StaleHasReason
<1> QED BY <1>2, <1>3 DEF RInv

\* A mutation clears what it changes before it is sent, and marks the reads under way.
LEMMA SentRInv ==
  ASSUME PInv, RInv, NEW c \in Callers, NEW k \in Keys, NEW keep \in BOOLEAN, keep => k[1] = "GET",
         token \in Users, call[c].pc # "waiting", Sent(c, k, keep), cache' = Cleared(k), version' = version
  PROVE  RInv'
<1>1. /\ flight'[c].stage = "sent" /\ flight'[c].key = k /\ flight'[c].keep = keep
      /\ flight'[c].raced = Raced(k) /\ UnderWay(c)' /\ ~UnderWay(c)
  <2>1. SentAs(c, k, keep).stage = "sent" /\ SentAs(c, k, keep).key = k /\ SentAs(c, k, keep).keep = keep
        /\ SentAs(c, k, keep).raced = Raced(k)
    BY DEF SentAs
  <2> QED BY <2>1, SentFlights, IdleHasNone
<1>2. ASSUME NEW d \in Callers \ {c}
      PROVE  /\ UnderWay(d)' <=> UnderWay(d)
             /\ ~UnderWay(d) => flight'[d] = flight[d]
             /\ UnderWay(d) =>
                  /\ flight'[d].stage = flight[d].stage /\ flight'[d].key = flight[d].key
                  /\ flight'[d].keep = flight[d].keep
                  /\ flight'[d].raced = (flight[d].raced \/ Overlap(flight[d].key, k))
                  /\ flight[d].stage = "answered" =>
                       flight'[d].status = flight[d].status /\ flight'[d].version = flight[d].version
  BY SentFlights
<1>3. /\ k[2] \in Endpoints /\ \A e \in Endpoints : cache'[e] \in {cache[e], None}
      /\ \A e \in Endpoints : k[1] = "PUT" /\ e \in Clears[k[2]] => cache'[e] = None
  BY KeyParts DEF Cleared
<1>4. KeptIsRead'
  BY <1>1, <1>2 DEF RInv, KeptIsRead
<1>5. OverlapsAreRaced'
  <2> SUFFICES ASSUME NEW a \in Callers, NEW b \in Callers, UnderWay(a)', UnderWay(b)',
                      Overlap(flight'[a].key, flight'[b].key)
               PROVE  flight'[a].raced
    BY DEF OverlapsAreRaced, Overlap
  <2>1. CASE a # c /\ b # c
    <3>1. /\ UnderWay(a) /\ UnderWay(b)
          /\ flight'[a].key = flight[a].key /\ flight'[b].key = flight[b].key
          /\ flight'[a].raced = (flight[a].raced \/ Overlap(flight[a].key, k))
      BY <1>2, <2>1
    <3>2. Overlap(flight[a].key, flight[b].key)
      BY <3>1
    <3>3. flight[a].raced
      BY <3>1, <3>2 DEF RInv, OverlapsAreRaced
    <3> QED BY <3>1, <3>3
  <2>2. CASE a # c /\ b = c
    BY <1>1, <1>2, <2>2
  <2>3. CASE a = c /\ b # c
    BY <1>1, <1>2, <2>3 DEF Raced
  <2>4. CASE a = c /\ b = c
    BY <1>1, <2>4 DEF Overlap
  <2> QED BY <2>1, <2>2, <2>3, <2>4
<1>6. OldAnswersAreRaced'
  <2> SUFFICES ASSUME NEW d \in Callers, flight'[d].stage = "answered", flight'[d].key[1] = "GET",
                      flight'[d].status = "ok", flight'[d].version < version[flight'[d].key[2]]
               PROVE  flight'[d].raced
    BY DEF OldAnswersAreRaced
  <2>1. d # c
    BY <1>1
  <2>2. UnderWay(d) /\ flight[d].stage = "answered"
    BY <1>2, <2>1 DEF UnderWay
  <2>3. flight[d].raced
    BY <1>2, <2>1, <2>2 DEF RInv, OldAnswersAreRaced
  <2> QED BY <1>2, <2>1, <2>2, <2>3
<1>7. CachedMeanwhile'
  <2> SUFFICES ASSUME NEW d \in Callers, NEW e \in Endpoints, UnderWay(d)', flight'[d].key[1] = "PUT",
                      e \in Changes[flight'[d].key[2]] \cap Clears[flight'[d].key[2]], cache'[e] # None
               PROVE  cache'[e].raced
    BY DEF CachedMeanwhile
  <2>1. d # c
    BY <1>1, <1>3
  <2> QED BY <1>2, <1>3, <2>1 DEF RInv, CachedMeanwhile
<1>8. StaleHasReason'
  BY <1>3 DEF RInv, StaleHasReason
<1> QED BY <1>4, <1>5, <1>6, <1>7, <1>8 DEF RInv

\* The server applies a mutation: all it leaves behind was raced by it.
LEMMA ServeRInv ==
  ASSUME CacheAssumption, PInv, RInv, NEW c \in Callers, Serve(c)
  PROVE  RInv'
<1>1. PICK status \in Statuses, v \in 0..MaxVersion :
        /\ flight' = [flight EXCEPT ![c] = AnswerTo(flight[c], status, v)]
        /\ status = "ok" /\ flight[c].key[1] = "GET" => v = version[flight[c].key[2]]
        /\ \/ UNCHANGED <<version, cache>>
           \/ /\ flight[c].key[1] = "PUT"
              /\ version' = [e \in Endpoints |-> IF e \in Changes[flight[c].key[2]] THEN version[e] + 1 ELSE version[e]]
              /\ cache' = Overlooked(flight[c].key)
  BY ServeFlight
<1>2. UnderWay(c) /\ flight[c].stage = "sent" /\ flight[c].key \in Keys
  BY UnderWayFlight DEF Serve, UnderWay, PInv
<1>3. /\ flight'[c].key = flight[c].key /\ flight'[c].keep = flight[c].keep /\ flight'[c].raced = flight[c].raced
      /\ flight'[c].stage = "answered" /\ flight'[c].status = status /\ flight'[c].version = v
      /\ \A d \in Callers \ {c} : flight'[d] = flight[d]
  BY <1>1 DEF AnswerTo, PInv, Tables
<1>4. \A d \in Callers : /\ UnderWay(d)' <=> UnderWay(d)
                         /\ flight'[d].key = flight[d].key /\ flight'[d].keep = flight[d].keep
                         /\ flight'[d].raced = flight[d].raced
  BY <1>2, <1>3 DEF UnderWay
<1>0. \A e \in Endpoints :
        /\ cache'[e] = None <=> cache[e] = None
        /\ cache[e] # None =>
             /\ cache'[e].raced = cache[e].raced /\ cache'[e].version = cache[e].version
             /\ cache[e].missed => cache'[e].missed
             /\ version'[e] # version[e] /\ e \notin Clears[flight[c].key[2]] => cache'[e].missed
  <2>1. cache \in [Endpoints -> Answers \cup {None}] /\ version \in [Endpoints -> 0..MaxVersion]
    BY TypeSplit DEF PInv, Rest
  <2>2. CASE UNCHANGED <<version, cache>>
    BY <2>2
  <2>3. CASE /\ version' = [e \in Endpoints |-> IF e \in Changes[flight[c].key[2]] THEN version[e] + 1 ELSE version[e]]
             /\ cache' = Overlooked(flight[c].key)
    BY <2>1, <2>3, OverlookedKeeps DEF CacheAssumption
  <2> QED BY <1>1, <2>2, <2>3
<1>5. KeptIsRead'
  BY <1>4 DEF RInv, KeptIsRead
<1>6. OverlapsAreRaced' /\ CachedMeanwhile'
  BY <1>0, <1>2, <1>4 DEF RInv, OverlapsAreRaced, CachedMeanwhile, Overlap
<1>7. \A e \in Endpoints :
        version'[e] = version[e] \/ (flight[c].key[1] = "PUT" /\ e \in Changes[flight[c].key[2]])
  BY <1>1
<1>8. OldAnswersAreRaced'
  <2> SUFFICES ASSUME NEW d \in Callers, flight'[d].stage = "answered", flight'[d].key[1] = "GET",
                      flight'[d].status = "ok", flight'[d].version < version'[flight'[d].key[2]]
               PROVE  flight[d].raced
    BY <1>4 DEF OldAnswersAreRaced
  <2>1. UnderWay(d) /\ flight[d].key[1] = "GET" /\ flight[d].key[2] \in Endpoints
    BY <1>4, UnderWayFlight, KeyParts DEF UnderWay, PInv
  <2>2. CASE flight[c].key[1] = "PUT" /\ flight[d].key[2] \in Changes[flight[c].key[2]]
    BY <1>2, <2>1, <2>2 DEF RInv, OverlapsAreRaced, Overlap
  <2>3. CASE version'[flight[d].key[2]] = version[flight[d].key[2]] /\ d # c
    BY <1>3, <1>4, <2>3 DEF RInv, OldAnswersAreRaced
  <2>4. CASE version'[flight[d].key[2]] = version[flight[d].key[2]] /\ d = c
    <3>1. v = version[flight[c].key[2]] /\ v < version[flight[c].key[2]]
      BY <1>1, <1>3, <1>4, <2>1, <2>4
    <3> QED BY <3>1
  <2> QED BY <1>7, <2>1, <2>2, <2>3, <2>4
<1>9. StaleHasReason'
  <2> SUFFICES ASSUME NEW e \in Endpoints, cache'[e] # None, cache'[e].version < version'[e]
               PROVE  cache'[e].raced \/ cache'[e].missed
    BY DEF StaleHasReason
  <2>1. CASE version'[e] = version[e]
    BY <1>0, <2>1 DEF RInv, StaleHasReason
  <2>2. CASE version'[e] # version[e] /\ e \notin Clears[flight[c].key[2]]
    BY <1>0, <2>2
  <2>3. CASE version'[e] # version[e] /\ e \in Clears[flight[c].key[2]]
    <3>1. flight[c].key[1] = "PUT" /\ e \in Changes[flight[c].key[2]] \cap Clears[flight[c].key[2]]
      BY <1>7, <2>3
    <3> QED BY <1>0, <1>2, <3>1 DEF RInv, CachedMeanwhile
  <2> QED BY <2>1, <2>2, <2>3
<1> QED BY <1>5, <1>6, <1>8, <1>9 DEF RInv

\* An answer is cached: of a read, which any mutation of its data under way has marked.
LEMMA SettleRInv ==
  ASSUME CacheAssumption, PInv, RInv, NEW c \in Callers, Settle(c)
  PROVE  RInv'
<1> DEFINE f == flight[c]
           answer == [user |-> f.user, version |-> f.version, raced |-> f.raced, missed |-> FALSE]
<1>1. /\ f.stage = "answered" /\ f.key \in Keys /\ UnderWay(c) /\ ~UnderWay(c)' /\ flight'[c].stage = "none"
      /\ \A d \in Callers \ {c} : flight'[d] = flight[d] /\ (UnderWay(d)' <=> UnderWay(d))
  BY SettleFlights, UnderWayFlight DEF PInv, Settle, UnderWay
<1>2. /\ version' = version
      /\ \/ cache' = cache
         \/ f.status = "ok" /\ f.keep /\ cache' = [cache EXCEPT ![f.key[2]] = answer]
  BY DEF Settle
<1>3. cache \in [Endpoints -> Answers \cup {None}]
  BY TypeSplit DEF PInv, Rest
<1>4. \A e \in Endpoints :
        \/ cache'[e] = cache[e]
        \/ /\ f.status = "ok" /\ f.key[1] = "GET" /\ f.key[2] = e
           /\ cache'[e].raced = f.raced /\ cache'[e].version = f.version
  <2>1. answer.raced = f.raced /\ answer.version = f.version
    OBVIOUS
  <2>2. f.keep => f.key[1] = "GET"
    BY <1>1 DEF RInv, KeptIsRead
  <2> HIDE DEF answer, f
  <2> QED BY <1>2, <1>3, <2>1, <2>2
<1> HIDE DEF answer
<1>5. KeptIsRead' /\ OverlapsAreRaced' /\ OldAnswersAreRaced'
  <2>1. KeptIsRead'
    BY <1>1 DEF RInv, KeptIsRead
  <2>2. OverlapsAreRaced'
    BY <1>1 DEF RInv, OverlapsAreRaced, Overlap
  <2>3. OldAnswersAreRaced'
    BY <1>1, <1>2 DEF RInv, OldAnswersAreRaced
  <2> QED BY <2>1, <2>2, <2>3
<1>6. CachedMeanwhile'
  <2> SUFFICES ASSUME NEW d \in Callers, NEW e \in Endpoints, UnderWay(d)', flight'[d].key[1] = "PUT",
                      e \in Changes[flight'[d].key[2]] \cap Clears[flight'[d].key[2]], cache'[e] # None
               PROVE  cache'[e].raced
    BY DEF CachedMeanwhile
  <2>1. d # c /\ flight'[d] = flight[d] /\ UnderWay(d)
    BY <1>1
  <2>2. CASE cache'[e] = cache[e]
    BY <2>1, <2>2 DEF RInv, CachedMeanwhile
  <2>3. CASE f.key[1] = "GET" /\ f.key[2] = e /\ cache'[e].raced = f.raced
    BY <1>1, <2>1, <2>3 DEF RInv, OverlapsAreRaced, Overlap
  <2> QED BY <1>4, <2>2, <2>3
<1>7. StaleHasReason'
  <2> SUFFICES ASSUME NEW e \in Endpoints, cache'[e] # None, cache'[e].version < version[e]
               PROVE  cache'[e].raced \/ cache'[e].missed
    BY <1>2 DEF StaleHasReason
  <2>1. CASE cache'[e] = cache[e]
    BY <2>1 DEF RInv, StaleHasReason
  <2>2. CASE /\ f.status = "ok" /\ f.key[1] = "GET" /\ f.key[2] = e
             /\ cache'[e].raced = f.raced /\ cache'[e].version = f.version
    BY <1>1, <2>2 DEF RInv, OldAnswersAreRaced
  <2> QED BY <1>4, <2>1, <2>2
<1> QED BY <1>5, <1>6, <1>7 DEF RInv

LEMMA NextRInv ==
  ASSUME CacheAssumption, PInv, RInv, [Next]_vars
  PROVE  RInv'
<1>1. ASSUME NEW c \in Callers, NEW k \in Keys, NEW keep \in BOOLEAN, Call(c, k, keep) PROVE RInv'
  <2>1. \A e \in Endpoints : Cleared(k)[e] \in {cache[e], None}
    BY DEF Cleared
  <2>2. /\ call[c].pc # "waiting" /\ cache' = Cleared(k) /\ version' = version
        /\ \/ UNCHANGED flight
           \/ token \in Users /\ Sent(c, k, keep)
    BY <1>1, CallCases DEF Joined
  <2>3. keep => k[1] = "GET"
    BY <1>1 DEF Call
  <2>4. CASE UNCHANGED flight
    BY <2>1, <2>2, <2>4, AsideRInv
  <2>5. CASE token \in Users /\ Sent(c, k, keep)
    BY <2>2, <2>3, <2>5, SentRInv
  <2> QED BY <2>2, <2>4, <2>5
<1>2. ASSUME NEW e \in Endpoints, CacheExpires(e) PROVE RInv'
  <2>1. \A d \in Endpoints : cache'[d] \in {cache[d], None}
    BY <1>2, TypeSplit DEF CacheExpires, PInv, Rest
  <2> QED BY <1>2, <2>1, AsideRInv DEF CacheExpires
<1>3. CASE \/ \E c \in Callers : Return(c)
           \/ \E u \in Users : Login(u)
           \/ Logout
           \/ UNCHANGED vars
  <2>1. UNCHANGED <<version, flight, cache>>
    BY <1>3 DEF Return, Login, Logout, vars
  <2> QED BY <2>1, AsideRInv
<1> QED BY <1>1, <1>2, <1>3, ServeRInv, SettleRInv DEF Next

-----------------------------------------------------------------------------
(***************************************************************************)
(* The theorems.                                                           *)
(***************************************************************************)

\* The invariant about pending requests holds throughout, whatever mutations clear.
THEOREM PendingInductive == ASSUME CacheAssumption PROVE Spec => []PInv
<1>1. Init => PInv
  BY InitInv DEF IInv
<1>2. PInv /\ [Next]_vars => PInv'
  BY NextPInv
<1> QED BY <1>1, <1>2, PTL DEF Spec

\* Every variable of the tab, the network and the server keeps its type.
THEOREM TypeCorrect == ASSUME CacheAssumption PROVE Spec => []TypeOK
<1>1. PInv => TypeOK
  BY DEF PInv
<1> QED BY <1>1, PendingInductive, PTL

\* pendingRequests holds exactly the requests under way, each under its key: no two
\* requests share a key, and no call joins a promise that has settled.
THEOREM PendingIsExact == ASSUME CacheAssumption PROVE Spec => []PendingIsUnderWay
<1>1. PInv => PendingIsUnderWay
  BY DEF PInv
<1> QED BY <1>1, PendingInductive, PTL

\* A call that waits has a request to wait for, which is under way and for what it asked:
\* the promise it shares will be settled by that request's answer, and by no other.
THEOREM EveryWaiterHasRequest == ASSUME CacheAssumption PROVE Spec => []WaitIsAnswerable
<1>1. PInv => WaitIsAnswerable
  BY DEF PInv
<1> QED BY <1>1, PendingInductive, PTL

\* A cached answer older than the server's data is one whose request overlapped a mutation, or
\* that a mutation overlooked, one that does not clear all it changes.  Nothing else leaves a
\* stale entry: no merge of requests, no loss, no order of answers, no sign-out between them.
THEOREM StaleEntriesHaveReason ==
  ASSUME CacheAssumption PROVE Spec => []StaleHasReason
<1>1. Init => PInv /\ RInv
  BY InitInv DEF IInv
<1>2. (PInv /\ RInv) /\ [Next]_vars => (PInv /\ RInv)'
  BY NextPInv, NextRInv
<1>3. PInv /\ RInv => StaleHasReason
  BY DEF RInv
<1> QED BY <1>1, <1>2, <1>3, PTL DEF Spec
=============================================================================
