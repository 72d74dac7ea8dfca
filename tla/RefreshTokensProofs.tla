-------------------------- MODULE RefreshTokensProofs --------------------------
(***************************************************************************)
(* Proofs about RefreshTokens, for all sets of users, tokens and requests. *)
(*                                                                         *)
(* That a token has one successor rests on who removes its row: a token    *)
(* that was given out has a parent whose row is gone, and rows never come  *)
(* back.  That an ended session is over rests on which row it has: but for *)
(* the tokens that requests have created and not yet handed out, that of   *)
(* the newest token handed out and no other, unless a refresh of it failed *)
(* half way.                                                               *)
(***************************************************************************)
EXTENDS RefreshTokens, TLAPS

\* Tokens drawn so far.
Known == {t \in Tokens : owner[t] # NoUser}

\* What the tables say of each other.
RowsAreKnown ==
  /\ db \subseteq Known /\ given \subseteq Known /\ loggedOut \subseteq Known
  /\ \A t \in Known : /\ root[t] \in Known /\ owner[root[t]] = owner[t]
                      /\ parent[t] # NoToken => parent[t] \in given

Presents(r) == req[r].pc \in {"expiring", "rotating", "removing"}
Rotates(r) == req[r].pc \in {"rotating", "removing"}
Removes(r) == req[r].pc = "removing"

\* What a request remembers of the rows it has read.
RequestIsTrue(r) ==
  /\ req[r].pc # "idle" => req[r].user \in Users
  /\ req[r].pc = "changing" => req[r].pw \in Passwords
  /\ Presents(r) => req[r].old \in given /\ req[r].user = owner[req[r].old]
  /\ Rotates(r) => (root[req[r].old] \in loggedOut => root[req[r].old] \in raced)
  /\ Removes(r) =>
       /\ req[r].new \in Known /\ req[r].new \notin given
       /\ parent[req[r].new] = req[r].old /\ root[req[r].new] = root[req[r].old]

RequestsAreTrue == \A r \in Requests : RequestIsTrue(r)

\* Each creates a token of its own.
NewIsOwn == \A r, q \in Requests : Removes(r) /\ Removes(q) /\ req[r].new = req[q].new => r = q

\* A token that was exchanged with success is gone.
ParentIsGone == \A t \in given : parent[t] # NoToken => parent[t] \notin db

\* Tokens that are stored and not handed out yet.
Pending == {req[r].new : r \in {r \in Requests : Removes(r)}}

\* A session has one row, but for those that are pending: of its newest token.
NewestHasRow ==
  \A s \in db \ Pending : root[s] \notin raced =>
    s \in given /\ \A t \in given : root[t] = root[s] => t = s \/ Exchanged(t)

IInv ==
  /\ TypeOK
  /\ RowsAreKnown
  /\ RequestsAreTrue
  /\ NewIsOwn
  /\ ParentIsGone
  /\ NewestHasRow
  /\ EndedIsOver
  /\ ExchangedOnce
-----------------------------------------------------------------------------
(***************************************************************************)
(* Types.                                                                  *)
(***************************************************************************)

Request == [pc : Pcs, user : Users \cup {NoUser}, old : Tokens \cup {NoToken},
            new : Tokens \cup {NoToken}, seen : Passwords \cup {NoPassword},
            pw : Passwords \cup {NoPassword}]

LEMMA IdleType == Idle \in Request
  BY DEF Idle, Request, Pcs

\* A request that goes on as another keeps the table of requests well typed.
LEMMA RequestType ==
  ASSUME TypeOK, NEW r \in Requests, NEW x \in Request, req' = [req EXCEPT ![r] = x]
  PROVE  req' \in [Requests -> Request]
  BY DEF TypeOK, Request

LEMMA StoredType ==
  ASSUME TypeOK, RowsAreKnown, NEW t \in Drawn, NEW u \in Users, NEW p \in Known \cup {NoToken}, Stored(t, u, p)
  PROVE  /\ db' \subseteq Tokens
         /\ owner' \in [Tokens -> Users \cup {NoUser}]
         /\ parent' \in [Tokens -> Tokens \cup {NoToken}] /\ root' \in [Tokens -> Tokens \cup {NoToken}]
  BY DEF TypeOK, Stored, Drawn, Known, RowsAreKnown

LEMMA RotatingType == ASSUME TypeOK, RowsAreKnown, RequestsAreTrue PROVE Rotating \subseteq Known
  BY DEF TypeOK, RowsAreKnown, RequestsAreTrue, RequestIsTrue, Rotating, Presents, Rotates

LEMMA TypeStep == ASSUME TokenAssumption, IInv, [Next]_vars PROVE TypeOK'
<1>0. /\ TypeOK /\ RowsAreKnown /\ RequestsAreTrue /\ req \in [Requests -> Request]
      /\ \A r \in Requests : req[r] \in Request
  BY DEF IInv, TypeOK, Request
<1>1. SUFFICES ASSUME Next PROVE TypeOK'
  BY <1>0 DEF vars, TypeOK
<1>2. ASSUME NEW r \in Requests, NEW u \in Users, LoginFound(r, u) \/ DeleteFound(r, u) PROVE TypeOK'
  <2>1. PICK pc \in {"issuing", "deleting"} : req' = [req EXCEPT ![r] = [Idle EXCEPT !.pc = pc, !.user = u]]
    BY <1>2 DEF LoginFound, DeleteFound
  <2>2. [Idle EXCEPT !.pc = pc, !.user = u] \in Request
    BY DEF Idle, Request, Pcs
  <2> QED BY <1>0, <1>2, <2>1, <2>2, RequestType DEF LoginFound, DeleteFound, TypeOK, rows, Request
<1>3. ASSUME NEW r \in Requests, NEW u \in Users, NEW p \in Passwords, ChangeVerified(r, u, p) PROVE TypeOK'
  <2> DEFINE x == [Idle EXCEPT !.pc = "changing", !.user = u, !.seen = password[u], !.pw = p]
  <2>1. x \in Request
    BY <1>3 DEF ChangeVerified, Exists, Idle, Request, Pcs
  <2> QED BY <1>0, <1>3, <2>1, RequestType DEF ChangeVerified, TypeOK, rows, Request
<1>4. ASSUME NEW r \in Requests, NEW t \in Tokens, RefreshFound(r, t) PROVE TypeOK'
  <2>1. PICK pc \in {"expiring", "rotating"} :
          req' = [req EXCEPT ![r] = [Idle EXCEPT !.pc = pc, !.user = owner[t], !.old = t]]
    BY <1>4 DEF RefreshFound
  <2>2. [Idle EXCEPT !.pc = pc, !.user = owner[t], !.old = t] \in Request
    BY <1>0 DEF Idle, Request, Pcs, TypeOK
  <2> QED BY <1>0, <1>4, <2>1, <2>2, RequestType DEF RefreshFound, TypeOK, rows, Request
<1>5. ASSUME NEW r \in Requests, LoginIssue(r) PROVE TypeOK'
  <2>1. req' \in [Requests -> Request]
    BY <1>0, <1>5, IdleType, RequestType DEF LoginIssue, Return
  <2>2. req[r].user \in Users
    BY <1>0, <1>5 DEF LoginIssue, At, RequestsAreTrue, RequestIsTrue
  <2>3. CASE \E t \in Drawn : Stored(t, req[r].user, NoToken) /\ given' = given \cup {t}
    <3>1. PICK t \in Drawn : Stored(t, req[r].user, NoToken) /\ given' = given \cup {t}
      BY <2>3
    <3> QED BY <1>0, <1>5, <2>1, <2>2, <3>1, StoredType DEF LoginIssue, TypeOK, Request, Drawn
  <2>4. CASE UNCHANGED <<rows, given>>
    BY <1>0, <1>5, <2>1, <2>4 DEF LoginIssue, TypeOK, rows, Request
  <2> QED BY <1>5, <2>3, <2>4 DEF LoginIssue
<1>6. ASSUME NEW r \in Requests, RefreshExpired(r) \/ RefreshRemove(r) PROVE TypeOK'
  <2>1. req' \in [Requests -> Request]
    BY <1>0, <1>6, IdleType, RequestType DEF RefreshExpired, RefreshRemove, Return
  <2>2. Removes(r) => req[r].new \in Tokens /\ req[r].old \in Known /\ root[req[r].old] \in Tokens
    BY <1>0 DEF RequestsAreTrue, RequestIsTrue, RowsAreKnown, Known, Presents, Removes
  <2> QED BY <1>0, <1>6, <2>1, <2>2 DEF RefreshExpired, RefreshRemove, TypeOK, Request, At, Removes
<1>7. ASSUME NEW r \in Requests, RefreshIssue(r) PROVE TypeOK'
  <2>1. req[r].user \in Users /\ req[r].old \in Known
    BY <1>0, <1>7 DEF RefreshIssue, At, RequestsAreTrue, RequestIsTrue, RowsAreKnown, Presents
  <2>2. CASE \E t \in Drawn : Stored(t, req[r].user, req[r].old)
                               /\ req' = [req EXCEPT ![r].pc = "removing", ![r].new = t]
    <3>1. PICK t \in Drawn : Stored(t, req[r].user, req[r].old)
                               /\ req' = [req EXCEPT ![r].pc = "removing", ![r].new = t]
      BY <2>2
    <3>2. [req[r] EXCEPT !.pc = "removing", !.new = t] \in Request
      BY <1>0 DEF Request, Pcs, Drawn
    <3>3. req' \in [Requests -> Request]
      BY <1>0, <3>1, <3>2
    <3> QED BY <1>0, <1>7, <2>1, <3>1, <3>3, StoredType DEF RefreshIssue, TypeOK, Request
  <2>3. CASE Return(r) /\ UNCHANGED rows
    <3>1. req' \in [Requests -> Request]
      BY <1>0, <2>3, IdleType, RequestType DEF Return
    <3> QED BY <1>0, <1>7, <2>3, <3>1 DEF RefreshIssue, TypeOK, rows, Request
  <2> QED BY <1>7, <2>2, <2>3 DEF RefreshIssue
<1>8. ASSUME NEW r \in Requests, ChangePassword(r) \/ DeleteAccount(r) PROVE TypeOK'
  <2>1. req' \in [Requests -> Request]
    BY <1>0, <1>8, IdleType, RequestType DEF ChangePassword, DeleteAccount, Return
  <2>2. req[r].user \in Users /\ (ChangePassword(r) => req[r].pw \in Passwords)
    BY <1>0, <1>8 DEF ChangePassword, DeleteAccount, At, RequestsAreTrue, RequestIsTrue
  <2> QED BY <1>0, <1>8, <2>1, <2>2 DEF ChangePassword, DeleteAccount, TypeOK, rows, Request
<1>9. ASSUME NEW t \in Tokens, Logout(t) PROVE TypeOK'
  <2>1. root[t] \in Tokens
    BY <1>0, <1>9 DEF Logout, RowsAreKnown, Known
  <2> QED BY <1>0, <1>9, <2>1 DEF Logout, Revoked, TypeOK
<1>10. ASSUME NEW t \in Tokens, Expire(t) PROVE TypeOK'
  BY <1>0, <1>10 DEF Expire, TypeOK, rows
<1>11. ASSUME NEW u \in Users, Register(u) PROVE TypeOK'
  BY <1>0, <1>11 DEF Register, TypeOK, rows
<1>12. ASSUME NEW u \in Users, LogoutAll(u) PROVE TypeOK'
  <2>1. {root[t] : t \in {t \in Tokens : owner[t] = u}} \subseteq Tokens
    BY <1>0 DEF RowsAreKnown, Known, TokenAssumption
  <2> QED BY <1>0, <1>12, <2>1, RotatingType DEF LogoutAll, Revoked, TypeOK
<1>13. ASSUME Crash PROVE TypeOK'
  <2>1. faults' \in 0 .. MaxFaults
    BY <1>0, <1>13 DEF Crash, TypeOK, TokenAssumption
  <2>2. raced' \subseteq Tokens
    BY <1>0, <1>13, RotatingType DEF Crash, TypeOK, Known
  <2> QED BY <1>0, <1>13, <2>1, <2>2, IdleType DEF Crash, TypeOK, rows, Request
<1> QED BY <1>1, <1>2, <1>3, <1>4, <1>5, <1>6, <1>7, <1>8, <1>9, <1>10, <1>11, <1>12, <1>13 DEF Next
-----------------------------------------------------------------------------
(***************************************************************************)
(* The invariant.                                                          *)
(***************************************************************************)

LEMMA InitInv == ASSUME TokenAssumption, Init PROVE IInv
<1>1. TypeOK
  BY IdleType DEF TokenAssumption, Init, TypeOK, Request
<1>2. \A r \in Requests : req[r].pc = "idle"
  BY DEF Init, Idle
<1>3. RequestsAreTrue /\ NewIsOwn
  BY <1>2 DEF RequestsAreTrue, RequestIsTrue, NewIsOwn, Presents, Rotates, Removes
<1> QED BY <1>1, <1>3
     DEF Init, IInv, RowsAreKnown, Known, ParentIsGone, NewestHasRow, EndedIsOver, ExchangedOnce

\* A step that moves requests without creating or handing out a token, and takes rows away
\* at most: no session can be worse off.
LEMMA AsideInv ==
  ASSUME TokenAssumption, IInv, TypeOK', UNCHANGED <<owner, parent, root, given, loggedOut, raced>>,
         db' \subseteq db, \A t \in db' : Exists(owner[t])',
         \A q \in Requests : req'[q] = req[q] \/ (~Removes(q) /\ ~Removes(q)' /\ RequestIsTrue(q)')
  PROVE  IInv'
<1>1. RowsAreKnown' /\ Known' = Known
  BY DEF IInv, RowsAreKnown, Known
<1>2. RequestsAreTrue'
  <2> SUFFICES ASSUME NEW q \in Requests, req'[q] = req[q] PROVE RequestIsTrue(q)'
    BY DEF RequestsAreTrue
  <2> QED BY <1>1 DEF IInv, RequestsAreTrue, RequestIsTrue, Presents, Rotates, Removes
<1>3. \A q \in Requests : (Removes(q)' <=> Removes(q)) /\ (Removes(q) => req'[q] = req[q])
  BY DEF Removes
<1>4. NewIsOwn' /\ Pending' = Pending
  BY <1>3 DEF IInv, NewIsOwn, Pending
<1>5. ParentIsGone' /\ NewestHasRow' /\ EndedIsOver' /\ ExchangedOnce'
  BY <1>4 DEF IInv, ParentIsGone, NewestHasRow, Exchanged, EndedIsOver, ExchangedOnce
<1> QED BY <1>1, <1>2, <1>4, <1>5 DEF IInv

\* A request that has not rotated anything ends, or an idle one begins.
LEMMA MovesInv ==
  ASSUME TokenAssumption, IInv, TypeOK', UNCHANGED <<owner, parent, root, given, loggedOut, raced>>,
         db' \subseteq db, \A t \in db' : Exists(owner[t])',
         NEW r \in Requests, ~Removes(r), NEW x, req' = [req EXCEPT ![r] = x],
         x.pc # "removing", RequestIsTrue(r)'
  PROVE  IInv'
<1>1. req'[r] = x /\ \A q \in Requests \ {r} : req'[q] = req[q]
  BY DEF IInv, TypeOK
<1>2. ~Removes(r)'
  BY <1>1 DEF Removes
<1> QED BY <1>1, <1>2, AsideInv

LEMMA ReturnInv ==
  ASSUME TokenAssumption, IInv, TypeOK', UNCHANGED <<owner, parent, root, given, loggedOut, raced>>,
         db' \subseteq db, \A t \in db' : Exists(owner[t])',
         NEW r \in Requests, ~Removes(r), Return(r)
  PROVE  IInv'
<1>1. req'[r] = Idle
  BY DEF IInv, TypeOK, Return
<1>2. RequestIsTrue(r)'
  BY <1>1 DEF RequestIsTrue, Idle, Presents, Rotates, Removes
<1>3. Idle.pc # "removing"
  BY DEF Idle
<1> QED BY <1>2, <1>3, MovesInv DEF Return
\* generateTokens draws a token that nothing refers to yet.
LEMMA StoredRows ==
  ASSUME TokenAssumption, IInv, NEW t \in Drawn, NEW u \in Users, NEW p \in given \cup {NoToken},
         p # NoToken => owner[p] = u, Stored(t, u, p), loggedOut' = loggedOut,
         given \subseteq given', given' \subseteq given \cup {t}
  PROVE  /\ t \notin Known /\ Known' = Known \cup {t} /\ owner'[t] = u /\ parent'[t] = p
         /\ root'[t] = (IF p = NoToken THEN t ELSE root[p])
         /\ \A s \in Known : owner'[s] = owner[s] /\ parent'[s] = parent[s] /\ root'[s] = root[s]
         /\ RowsAreKnown'
<1>1. t \in Tokens /\ owner[t] = NoUser /\ t \notin Known
  BY DEF Drawn, Known
<1>2. owner'[t] = u /\ parent'[t] = p /\ root'[t] = (IF p = NoToken THEN t ELSE root[p])
  BY <1>1 DEF Stored, IInv, TypeOK
<1>3. /\ Known' = Known \cup {t}
      /\ \A s \in Known : owner'[s] = owner[s] /\ parent'[s] = parent[s] /\ root'[s] = root[s]
  BY <1>1 DEF Stored, Known, IInv, TypeOK, TokenAssumption
<1>4. /\ db \subseteq Known /\ given \subseteq Known /\ loggedOut \subseteq Known
      /\ \A s \in Known : /\ root[s] \in Known /\ owner[root[s]] = owner[s]
                          /\ parent[s] # NoToken => parent[s] \in given
  BY DEF IInv, RowsAreKnown
<1>5. RowsAreKnown'
  <2>1. db' \subseteq Known' /\ given' \subseteq Known' /\ loggedOut' \subseteq Known'
    BY <1>3, <1>4 DEF Stored
  <2>2. ASSUME NEW s \in Known'
        PROVE  /\ root'[s] \in Known' /\ owner'[root'[s]] = owner'[s]
               /\ parent'[s] # NoToken => parent'[s] \in given'
    <3>1. CASE s \in Known
      BY <1>3, <1>4, <3>1
    <3>2. CASE s = t
      BY <1>2, <1>3, <1>4, <3>2
    <3> QED BY <1>3, <3>1, <3>2
  <2> QED BY <2>1, <2>2 DEF RowsAreKnown
<1> QED BY <1>1, <1>2, <1>3, <1>5

\* What the requests in the middle of a refresh remember is still true when a row is added.
LEMMA StoredRequests ==
  ASSUME TokenAssumption, IInv, NEW t, t \notin Known, Known \subseteq Known',
         \A s \in Known : owner'[s] = owner[s] /\ parent'[s] = parent[s] /\ root'[s] = root[s],
         given \subseteq given', given' \subseteq given \cup {t}, UNCHANGED <<loggedOut, raced>>,
         NEW q \in Requests, req'[q] = req[q]
  PROVE  RequestIsTrue(q)' /\ (Removes(q) => req[q].new # t)
<1>1. RequestIsTrue(q) /\ given \subseteq Known
  BY DEF IInv, RequestsAreTrue, RowsAreKnown
<1> QED BY <1>1 DEF RequestIsTrue, Presents, Rotates, Removes

LEMMA LoginIssueInv ==
  ASSUME TokenAssumption, IInv, TypeOK', NEW r \in Requests, LoginIssue(r) PROVE IInv'
<1>1. At(r, "issuing") /\ Return(r) /\ UNCHANGED <<password, expired, loggedOut, raced, faults>>
  BY DEF LoginIssue
<1>2. req[r].user \in Users /\ ~Removes(r)
  BY <1>1 DEF IInv, RequestsAreTrue, RequestIsTrue, At, Removes
<1>3. CASE UNCHANGED <<rows, given>>
  <2>1. \A t \in db' : Exists(owner[t])'
    BY <1>1, <1>3 DEF IInv, EndedIsOver, Exists, rows
  <2> QED BY <1>1, <1>2, <1>3, <2>1, ReturnInv DEF rows
<1>4. CASE Storable(req[r].user)
           /\ \E t \in Drawn : Stored(t, req[r].user, NoToken) /\ given' = given \cup {t}
  <2> DEFINE u == req[r].user
  <2>1. PICK t \in Drawn : Stored(t, u, NoToken) /\ given' = given \cup {t}
    BY <1>4
  <2>2. /\ t \notin Known /\ Known' = Known \cup {t} /\ owner'[t] = u /\ parent'[t] = NoToken /\ root'[t] = t
        /\ \A s \in Known : owner'[s] = owner[s] /\ parent'[s] = parent[s] /\ root'[s] = root[s]
        /\ RowsAreKnown' /\ db' = db \cup {t}
    <3>1. /\ db' = db \cup {t} /\ loggedOut' = loggedOut
            /\ given \subseteq given' /\ given' \subseteq given \cup {t}
      BY <1>1, <2>1 DEF Stored
    <3> QED BY <1>2, <2>1, <3>1, StoredRows
  <2>3. /\ db \subseteq Known /\ given \subseteq Known /\ loggedOut \subseteq Known
        /\ \A s \in Known : root[s] \in Known /\ (parent[s] # NoToken => parent[s] \in Known)
    BY DEF IInv, RowsAreKnown
  <2>4. req'[r] = Idle /\ \A q \in Requests \ {r} : req'[q] = req[q]
    BY <1>1 DEF Return, IInv, TypeOK
  <2>5. ~Removes(r)' /\ RequestIsTrue(r)'
    BY <2>4 DEF Removes, RequestIsTrue, Idle, Presents, Rotates
  <2>6. \A q \in Requests \ {r} : RequestIsTrue(q)' /\ (Removes(q) => req[q].new # t) /\ (Removes(q)' <=> Removes(q))
    BY <1>1, <2>1, <2>2, <2>4, StoredRequests DEF Removes
  <2>7. RequestsAreTrue' /\ NewIsOwn' /\ Pending' = Pending
    BY <1>2, <2>4, <2>5, <2>6 DEF RequestsAreTrue, NewIsOwn, Pending, IInv
  <2>8. ParentIsGone'
    BY <2>1, <2>2, <2>3 DEF ParentIsGone, IInv
  <2>11. ExchangedOnce'
    BY <2>1, <2>2, <2>3 DEF ExchangedOnce, IInv, Known, TokenAssumption
  <2>9. NewestHasRow'
    <3> SUFFICES ASSUME NEW s \in db', s \notin Pending, root'[s] \notin raced
                 PROVE  s \in given' /\ \A n \in given' : root'[n] = root'[s] => n = s \/ Exchanged(n)'
      BY <1>1, <2>7 DEF NewestHasRow
    <3>1. \A n \in given : Exchanged(n) => Exchanged(n)'
      BY <2>1, <2>2, <2>3 DEF Exchanged
    <3>2. CASE s = t
      BY <2>1, <2>2, <2>3, <3>2
    <3>3. CASE s # t
      <4>1. s \in given /\ \A n \in given : root[n] = root[s] => n = s \/ Exchanged(n)
        BY <2>2, <2>3, <3>3 DEF NewestHasRow, IInv
      <4> QED BY <2>1, <2>2, <2>3, <3>1, <3>3, <4>1
    <3> QED BY <3>2, <3>3
  <2>10. EndedIsOver'
    BY <1>1, <1>4, <2>2, <2>3 DEF EndedIsOver, IInv, Exists, Storable
  <2> QED BY <2>2, <2>7, <2>8, <2>9, <2>10, <2>11 DEF IInv
<1> QED BY <1>3, <1>4 DEF LoginIssue

LEMMA RefreshIssueInv ==
  ASSUME TokenAssumption, IInv, TypeOK', NEW r \in Requests, RefreshIssue(r) PROVE IInv'
<1> DEFINE u == req[r].user
           p == req[r].old
<1>1. At(r, "rotating") /\ UNCHANGED <<password, expired, given, loggedOut, raced, faults>>
  BY DEF RefreshIssue
<1>2. /\ u \in Users /\ ~Removes(r) /\ p \in given /\ p \in Known /\ owner[p] = u
      /\ p # NoToken /\ (root[p] \in loggedOut => root[p] \in raced)
  BY <1>1 DEF IInv, RequestsAreTrue, RequestIsTrue, RowsAreKnown, At, Presents, Rotates, Removes,
              Known, TokenAssumption
<1>3. CASE Return(r) /\ UNCHANGED rows
  <2>1. \A t \in db' : Exists(owner[t])'
    BY <1>1, <1>3 DEF IInv, EndedIsOver, Exists, rows
  <2> QED BY <1>1, <1>2, <1>3, <2>1, ReturnInv DEF rows
<1>4. CASE Storable(u)
           /\ \E t \in Drawn : Stored(t, u, p) /\ req' = [req EXCEPT ![r].pc = "removing", ![r].new = t]
  <2>1. PICK t \in Drawn : Stored(t, u, p) /\ req' = [req EXCEPT ![r].pc = "removing", ![r].new = t]
    BY <1>4
  <2>2. /\ t \notin Known /\ Known' = Known \cup {t} /\ owner'[t] = u /\ parent'[t] = p /\ root'[t] = root[p]
        /\ \A s \in Known : owner'[s] = owner[s] /\ parent'[s] = parent[s] /\ root'[s] = root[s]
        /\ RowsAreKnown' /\ db' = db \cup {t}
    <3>1. /\ db' = db \cup {t} /\ loggedOut' = loggedOut
            /\ given \subseteq given' /\ given' \subseteq given \cup {t}
      BY <1>1, <2>1 DEF Stored
    <3> QED BY <1>2, <2>1, <3>1, StoredRows
  <2>3. /\ db \subseteq Known /\ given \subseteq Known
        /\ \A s \in Known : root[s] \in Known /\ (parent[s] # NoToken => parent[s] \in Known)
    BY DEF IInv, RowsAreKnown
  <2>4. /\ req'[r].pc = "removing" /\ req'[r].new = t /\ req'[r].old = p /\ req'[r].user = u
        /\ \A q \in Requests \ {r} : req'[q] = req[q]
    BY <2>1 DEF IInv, TypeOK
  <2>5. Removes(r)' /\ RequestIsTrue(r)'
    BY <1>1, <1>2, <2>2, <2>3, <2>4 DEF Removes, RequestIsTrue, Presents, Rotates
  <2>6. \A q \in Requests \ {r} : RequestIsTrue(q)' /\ (Removes(q) => req[q].new # t) /\ (Removes(q)' <=> Removes(q))
    BY <1>1, <2>2, <2>4, StoredRequests DEF Removes
  <2>7. RequestsAreTrue' /\ NewIsOwn'
    BY <2>4, <2>5, <2>6 DEF RequestsAreTrue, NewIsOwn, IInv
  <2>8. Pending' = Pending \cup {t}
    BY <1>2, <2>4, <2>5, <2>6 DEF Pending
  <2>9. ParentIsGone' /\ ExchangedOnce'
    BY <1>1, <2>2, <2>3 DEF ParentIsGone, ExchangedOnce, IInv
  <2>10. NewestHasRow'
    BY <1>1, <2>2, <2>3, <2>8 DEF NewestHasRow, Exchanged, IInv
  <2>11. EndedIsOver'
    BY <1>1, <1>2, <1>4, <2>2, <2>3 DEF EndedIsOver, IInv, Exists, Storable
  <2> QED BY <2>2, <2>7, <2>9, <2>10, <2>11 DEF IInv
<1> QED BY <1>3, <1>4 DEF RefreshIssue
\* deleteByToken: the successor is handed out when the row was there.
LEMMA RefreshRemoveInv ==
  ASSUME TokenAssumption, IInv, TypeOK', NEW r \in Requests, RefreshRemove(r) PROVE IInv'
<1> DEFINE old == req[r].old
           new == req[r].new
<1>1. /\ Removes(r) /\ db' = db \ {old} /\ Return(r)
      /\ UNCHANGED <<password, owner, parent, root, expired, loggedOut, faults>>
      /\ \/ old \in db /\ given' = given \cup {new} /\ raced' = raced
         \/ old \notin db /\ given' = given /\ raced' = raced \cup {root[old]}
  BY DEF RefreshRemove, At, Removes
<1>2. /\ old \in given /\ old \in Known /\ new \in Known /\ new \notin given /\ new # old
      /\ parent[new] = old /\ root[new] = root[old] /\ old # NoToken
  BY <1>1 DEF IInv, RequestsAreTrue, RequestIsTrue, RowsAreKnown, Presents, Removes, Known, TokenAssumption
<1>3. req'[r] = Idle /\ \A q \in Requests \ {r} : req'[q] = req[q]
  BY <1>1 DEF Return, IInv, TypeOK
<1>4. ~Removes(r)' /\ \A q \in Requests \ {r} : Removes(q)' <=> Removes(q)
  BY <1>3 DEF Removes, Idle
<1>5. Known' = Known /\ RowsAreKnown'
  BY <1>1, <1>2 DEF IInv, RowsAreKnown, Known
<1>6. RequestsAreTrue'
  <2>1. RequestIsTrue(r)'
    BY <1>3 DEF RequestIsTrue, Idle, Presents, Rotates, Removes
  <2>2. ASSUME NEW q \in Requests \ {r} PROVE RequestIsTrue(q)'
    <3>1. RequestIsTrue(q) /\ (Removes(q) => req[q].new # new)
      BY <1>1 DEF IInv, RequestsAreTrue, NewIsOwn
    <3> QED BY <1>1, <1>3, <1>5, <3>1 DEF RequestIsTrue, Presents, Rotates, Removes
  <2> QED BY <2>1, <2>2 DEF RequestsAreTrue
<1>7. NewIsOwn'
  BY <1>3, <1>4 DEF NewIsOwn, IInv
<1>8. ParentIsGone'
  BY <1>1, <1>2 DEF ParentIsGone, IInv
<1>9. ExchangedOnce'
  <2>1. CASE old \notin db
    BY <1>1, <2>1 DEF ExchangedOnce, IInv
  <2>2. CASE old \in db
    <3>1. given' = given \cup {new} /\ \A n \in given : parent[n] # old
      BY <1>1, <1>2, <2>2 DEF ParentIsGone, IInv
    <3>2. parent' = parent
      BY <1>1
    <3> SUFFICES ASSUME NEW t \in given', NEW n \in given', NEW m \in given', parent[n] = t, parent[m] = t
                 PROVE  n = m
      BY <3>2 DEF ExchangedOnce
    <3>3. CASE t = old
      BY <1>2, <3>1, <3>3
    <3>4. CASE t # old
      <4>1. n \in given /\ m \in given
        BY <1>2, <3>1, <3>4
      <4>2. t \in given
        <5>1. t # NoToken /\ n \in Known
          BY <4>1 DEF IInv, RowsAreKnown, TypeOK, TokenAssumption
        <5> QED BY <5>1 DEF IInv, RowsAreKnown
      <4> QED BY <4>1, <4>2 DEF ExchangedOnce, IInv
    <3> QED BY <3>3, <3>4
  <2> QED BY <2>1, <2>2
<1>10. Pending \ {new} \subseteq Pending' /\ old \notin Pending
  <2>1. ASSUME NEW q \in Requests, Removes(q) PROVE req[q].new \in Pending' \cup {new}
    BY <1>3, <1>4, <2>1 DEF Pending
  <2>2. \A q \in Requests : Removes(q) => req[q].new # old
    BY <1>2 DEF IInv, RequestsAreTrue, RequestIsTrue
  <2> QED BY <2>1, <2>2 DEF Pending
<1>11. NewestHasRow'
  <2> SUFFICES ASSUME NEW s \in db \ {old}, s \notin Pending', root[s] \notin raced'
               PROVE  s \in given' /\ \A t \in given' : root[t] = root[s] => t = s \/ Exchanged(t)'
    BY <1>1 DEF NewestHasRow
  <2>0. \A t : Exchanged(t) => Exchanged(t)'
    BY <1>1 DEF Exchanged
  <2>1. s = new \/ s \notin Pending
    BY <1>10
  <2>2. CASE old \notin db
    <3>1. root[s] # root[old] /\ root[s] \notin raced /\ given' = given
      BY <1>1, <2>2
    <3>2. s # new
      BY <1>2, <3>1
    <3> QED BY <2>0, <2>1, <3>1, <3>2 DEF NewestHasRow, IInv
  <2>3. CASE old \in db
    <3>1. raced' = raced /\ given' = given \cup {new} /\ parent' = parent
      BY <1>1, <2>3
    <3>2. root[s] = root[old] => s = new
      <4>1. ~Exchanged(old)
        BY <1>2, <2>3 DEF Exchanged, ParentIsGone, IInv
      <4> QED BY <1>2, <2>1, <3>1, <4>1 DEF NewestHasRow, IInv
    <3>3. CASE s = new
      <4>1. \A t : t = old => Exchanged(t)'
        BY <1>2, <3>1 DEF Exchanged
      <4>2. \A t \in given : root[t] = root[old] => t = old \/ Exchanged(t)
        BY <1>2, <1>10, <2>3, <3>1, <3>3 DEF NewestHasRow, IInv
      <4> QED BY <1>2, <2>0, <3>1, <3>3, <4>1, <4>2
    <3>4. CASE s # new
      BY <1>2, <2>0, <2>1, <3>1, <3>2, <3>4 DEF NewestHasRow, IInv
    <3> QED BY <3>3, <3>4
  <2> QED BY <2>2, <2>3
<1>12. EndedIsOver'
  BY <1>1 DEF EndedIsOver, IInv, Exists
<1> QED BY <1>5, <1>6, <1>7, <1>8, <1>9, <1>11, <1>12 DEF IInv

\* A session that is logged out with its newest token, while no request rotates it, has no row.
LEMMA LogoutInv == ASSUME TokenAssumption, IInv, TypeOK', NEW t \in Tokens, Logout(t) PROVE IInv'
<1>1. /\ t \in given /\ db' = db \ {t}
      /\ loggedOut' = IF Exchanged(t) THEN loggedOut ELSE loggedOut \cup {root[t]}
      /\ raced' = IF root[t] \in Rotating THEN raced \cup {root[t]} ELSE raced
      /\ UNCHANGED <<password, owner, parent, root, expired, given, req, faults>>
  BY DEF Logout, Revoked
<1>2. t \in Known /\ root[t] \in Known /\ t \notin Pending
  BY <1>1 DEF IInv, RowsAreKnown, RequestsAreTrue, RequestIsTrue, Pending
<1>3. RowsAreKnown' /\ Pending' = Pending
  BY <1>1, <1>2 DEF IInv, RowsAreKnown, Known, Pending, Removes
<1>4. RequestsAreTrue'
  <2> SUFFICES ASSUME NEW q \in Requests PROVE RequestIsTrue(q)'
    BY DEF RequestsAreTrue
  <2>1. RequestIsTrue(q) /\ (Rotates(q) => root[req[q].old] \in Rotating)
    BY DEF IInv, RequestsAreTrue, Rotates, Rotating
  <2> QED BY <1>1, <2>1 DEF RequestIsTrue, Presents, Rotates, Removes, Known
<1>5. NewIsOwn' /\ ParentIsGone' /\ ExchangedOnce'
  BY <1>1 DEF IInv, NewIsOwn, ParentIsGone, ExchangedOnce, Removes
<1>6. NewestHasRow'
  BY <1>1, <1>3 DEF IInv, NewestHasRow, Exchanged
<1>7. EndedIsOver'
  <2> SUFFICES ASSUME ~Exchanged(t), NEW s \in db \ {t}, root[s] = root[t], root[t] \notin raced' PROVE FALSE
    BY <1>1 DEF EndedIsOver, IInv, Exists
  <2>1. root[t] \notin Rotating /\ root[t] \notin raced
    BY <1>1
  <2>2. s \notin Pending
    <3> SUFFICES ASSUME NEW q \in Requests, Removes(q), s = req[q].new PROVE FALSE
      BY DEF Pending
    <3>1. root[req[q].old] = root[t] /\ root[req[q].old] \in Rotating
      BY DEF IInv, RequestsAreTrue, RequestIsTrue, Removes, Rotating
    <3> QED BY <2>1, <3>1
  <2> QED BY <1>1, <2>1, <2>2 DEF IInv, NewestHasRow
<1> QED BY <1>3, <1>4, <1>5, <1>6, <1>7 DEF IInv

LEMMA LogoutAllInv == ASSUME TokenAssumption, IInv, TypeOK', NEW u \in Users, LogoutAll(u) PROVE IInv'
<1> DEFINE Of == {t \in Tokens : owner[t] = u}
           Ends == {root[t] : t \in Of}
<1>1. /\ db' = db \ {t \in db : owner[t] = u} /\ loggedOut' = loggedOut \cup Ends
      /\ raced' = (raced \ Ends) \cup (Rotating \cap Ends)
      /\ UNCHANGED <<password, owner, parent, root, expired, given, req, faults>>
  BY DEF LogoutAll, Revoked
<1>2. Of \subseteq Known /\ Ends \subseteq Known /\ \A c \in Ends : owner[c] = u
  BY DEF IInv, RowsAreKnown, Known, TokenAssumption
<1>3. \A t \in Known : root[t] \in Ends => owner[t] = u
  BY <1>2 DEF IInv, RowsAreKnown
<1>4. \A t \in db' : t \in db /\ root[t] \notin Ends
  BY <1>1, <1>3 DEF IInv, RowsAreKnown
<1> HIDE DEF Ends, Of
<1>5. RowsAreKnown' /\ Pending' = Pending
  BY <1>1, <1>2 DEF IInv, RowsAreKnown, Known, Pending, Removes
<1>6. RequestsAreTrue'
  <2> SUFFICES ASSUME NEW q \in Requests PROVE RequestIsTrue(q)'
    BY DEF RequestsAreTrue
  <2>1. RequestIsTrue(q) /\ (Rotates(q) => root[req[q].old] \in Rotating)
    BY DEF IInv, RequestsAreTrue, Rotates, Rotating
  <2> QED BY <1>1, <2>1 DEF RequestIsTrue, Presents, Rotates, Removes, Known
<1>7. NewIsOwn' /\ ParentIsGone' /\ ExchangedOnce'
  BY <1>1 DEF IInv, NewIsOwn, ParentIsGone, ExchangedOnce, Removes
<1>8. NewestHasRow'
  BY <1>1, <1>4, <1>5 DEF IInv, NewestHasRow, Exchanged
<1>9. EndedIsOver'
  BY <1>1, <1>4 DEF IInv, EndedIsOver, Exists
<1> QED BY <1>5, <1>6, <1>7, <1>8, <1>9 DEF IInv

LEMMA CrashInv == ASSUME TokenAssumption, IInv, TypeOK', Crash PROVE IInv'
<1>1. /\ req' = [r \in Requests |-> Idle] /\ raced' = raced \cup Rotating
      /\ UNCHANGED <<password, rows, expired, given, loggedOut>>
  BY DEF Crash
<1>2. \A r \in Requests : req'[r] = Idle /\ ~Removes(r)' /\ RequestIsTrue(r)'
  BY <1>1 DEF RequestIsTrue, Presents, Rotates, Removes, Idle
<1>3. RowsAreKnown' /\ RequestsAreTrue' /\ NewIsOwn' /\ Pending' = {}
  BY <1>1, <1>2 DEF IInv, RowsAreKnown, Known, RequestsAreTrue, NewIsOwn, Pending, rows
<1>4. ParentIsGone' /\ ExchangedOnce' /\ EndedIsOver'
  BY <1>1 DEF IInv, ParentIsGone, ExchangedOnce, EndedIsOver, Exists, rows
<1>5. \A t \in Pending : root[t] \in raced'
  BY <1>1 DEF IInv, Pending, Removes, RequestsAreTrue, RequestIsTrue, Rotating
<1>6. NewestHasRow'
  BY <1>1, <1>3, <1>5 DEF IInv, NewestHasRow, Exchanged, rows
<1> QED BY <1>3, <1>4, <1>6 DEF IInv

LEMMA NextInv == ASSUME TokenAssumption, IInv, TypeOK', Next PROVE IInv'
<1> DEFINE Same == UNCHANGED <<owner, parent, root, given, loggedOut, raced>>
<1>0. \A t \in db : Exists(owner[t]) /\ (root[t] \in loggedOut => root[t] \in raced)
  BY DEF IInv, EndedIsOver
<1>1. ASSUME NEW r \in Requests, NEW u \in Users,
             LoginFound(r, u) \/ DeleteFound(r, u) \/ \E p \in Passwords : ChangeVerified(r, u, p)
      PROVE  IInv'
  <2>1. /\ Same /\ db' = db /\ password' = password /\ req[r].pc = "idle"
    BY <1>1 DEF LoginFound, DeleteFound, ChangeVerified, At, rows
  <2>2. PICK x : /\ req' = [req EXCEPT ![r] = x] /\ x.user = u
                 /\ x.pc \in {"issuing", "deleting"} \/ (x.pc = "changing" /\ x.pw \in Passwords)
    <3>1. CASE LoginFound(r, u)
      <4> DEFINE y == [Idle EXCEPT !.pc = "issuing", !.user = u]
      <4>1. req' = [req EXCEPT ![r] = y] /\ y.user = u /\ y.pc = "issuing"
        BY <3>1 DEF LoginFound, Idle
      <4> HIDE DEF y
      <4> QED BY <4>1
    <3>2. CASE DeleteFound(r, u)
      <4> DEFINE y == [Idle EXCEPT !.pc = "deleting", !.user = u]
      <4>1. req' = [req EXCEPT ![r] = y] /\ y.user = u /\ y.pc = "deleting"
        BY <3>2 DEF DeleteFound, Idle
      <4> HIDE DEF y
      <4> QED BY <4>1
    <3>3. ASSUME NEW p \in Passwords, ChangeVerified(r, u, p)
          PROVE  \E y : /\ req' = [req EXCEPT ![r] = y] /\ y.user = u
                        /\ y.pc \in {"issuing", "deleting"} \/ (y.pc = "changing" /\ y.pw \in Passwords)
      <4> DEFINE y == [Idle EXCEPT !.pc = "changing", !.user = u, !.seen = password[u], !.pw = p]
      <4>1. req' = [req EXCEPT ![r] = y] /\ y.user = u /\ y.pc = "changing" /\ y.pw = p
        BY <3>3 DEF ChangeVerified, Idle
      <4> HIDE DEF y
      <4> QED BY <4>1
    <3> QED BY <1>1, <3>1, <3>2, <3>3
  <2>3. req'[r] = x
    BY <2>2 DEF IInv, TypeOK
  <2>4. RequestIsTrue(r)' /\ ~Removes(r) /\ x.pc # "removing"
    BY <2>1, <2>2, <2>3 DEF RequestIsTrue, Presents, Rotates, Removes
  <2>5. \A t \in db' : Exists(owner[t])'
    BY <1>0, <2>1 DEF Exists
  <2> QED BY <2>1, <2>2, <2>4, <2>5, MovesInv
<1>2. ASSUME NEW r \in Requests, NEW t \in Tokens, RefreshFound(r, t) PROVE IInv'
  <2>1. Same /\ db' = db /\ password' = password /\ req[r].pc = "idle" /\ t \in given /\ t \in db
    BY <1>2 DEF RefreshFound, At, rows
  <2>2. PICK x : /\ req' = [req EXCEPT ![r] = x] /\ x.pc \in {"expiring", "rotating"}
                 /\ x.user = owner[t] /\ x.old = t
    <3> DEFINE y == [Idle EXCEPT !.pc = IF t \in expired THEN "expiring" ELSE "rotating",
                                 !.user = owner[t], !.old = t]
    <3>1. /\ req' = [req EXCEPT ![r] = y] /\ y.pc \in {"expiring", "rotating"}
          /\ y.user = owner[t] /\ y.old = t
      BY <1>2 DEF RefreshFound, Idle
    <3> HIDE DEF y
    <3> QED BY <3>1
  <2>3. req'[r] = x
    BY <2>2 DEF IInv, TypeOK
  <2>4. owner[t] \in Users
    BY <2>1 DEF IInv, RowsAreKnown, Known, TypeOK
  <2>5. RequestIsTrue(r)' /\ ~Removes(r) /\ x.pc # "removing"
    BY <1>0, <2>1, <2>2, <2>3, <2>4 DEF RequestIsTrue, Presents, Rotates, Removes
  <2>6. \A s \in db' : Exists(owner[s])'
    BY <1>0, <2>1 DEF Exists
  <2> QED BY <2>1, <2>2, <2>5, <2>6, MovesInv
<1>3. ASSUME NEW r \in Requests, RefreshExpired(r) \/ ChangePassword(r) \/ DeleteAccount(r) PROVE IInv'
  <2>1. Same /\ db' \subseteq db /\ Return(r) /\ ~Removes(r) /\ req[r].user \in Users
    BY <1>3 DEF RefreshExpired, ChangePassword, DeleteAccount, At, Removes, rows,
                IInv, RequestsAreTrue, RequestIsTrue
  <2>2. ASSUME NEW t \in db' PROVE Exists(owner[t])'
    <3>1. t \in db /\ Exists(owner[t]) /\ owner[t] \in Users
      BY <1>0, <2>1 DEF IInv, RowsAreKnown, Known, TypeOK
    <3>2. CASE RefreshExpired(r)
      BY <3>1, <3>2 DEF RefreshExpired, Exists
    <3>3. CASE ChangePassword(r)
      <4>1. req[r].pw \in Passwords
        BY <3>3 DEF ChangePassword, At, IInv, RequestsAreTrue, RequestIsTrue
      <4> QED BY <3>1, <3>3, <4>1 DEF ChangePassword, Exists, IInv, TypeOK, rows
    <3>4. CASE DeleteAccount(r)
      BY <2>2, <3>1, <3>4 DEF DeleteAccount, Exists, IInv, TypeOK
    <3> QED BY <1>3, <3>2, <3>3, <3>4
  <2> QED BY <2>1, <2>2, ReturnInv
<1>4. ASSUME NEW r \in Requests, LoginIssue(r) \/ RefreshIssue(r) \/ RefreshRemove(r) PROVE IInv'
  BY <1>4, LoginIssueInv, RefreshIssueInv, RefreshRemoveInv
<1>5. ASSUME NEW t \in Tokens, Expire(t) PROVE IInv'
  <2>1. \A s \in db' : Exists(owner[s])'
    BY <1>0, <1>5 DEF Expire, Exists, rows
  <2> QED BY <1>5, <2>1, AsideInv DEF Expire, rows
<1>6. ASSUME NEW u \in Users, Register(u) PROVE IInv'
  <2>1. \A v \in Users : Exists(v) => Exists(v)'
    BY <1>6 DEF Register, Exists, IInv, TypeOK, TokenAssumption
  <2>2. \A s \in db' : Exists(owner[s])'
    BY <1>0, <1>6, <2>1 DEF Register, rows, IInv, RowsAreKnown, Known, TypeOK, Exists
  <2> QED BY <1>6, <2>2, AsideInv DEF Register, rows
<1> QED BY <1>1, <1>2, <1>3, <1>4, <1>5, <1>6, LogoutInv, LogoutAllInv, CrashInv DEF Next

\* However requests interleave, crash and expire, in every state the properties hold together.
THEOREM Inductive == ASSUME TokenAssumption PROVE Spec => []IInv
<1>1. Init => IInv
  BY InitInv
<1>2. IInv /\ [Next]_vars => IInv'
  <2>1. ASSUME IInv, UNCHANGED vars PROVE IInv'
    <3>1. \A t \in db' : Exists(owner[t])'
      BY <2>1 DEF IInv, EndedIsOver, Exists, vars
    <3>2. TypeOK'
      BY <2>1, TypeStep
    <3> QED BY <2>1, <3>1, <3>2, AsideInv DEF vars
  <2> QED BY <2>1, TypeStep, NextInv
<1> QED BY <1>1, <1>2, PTL DEF Spec

\* The tables, the requests and the history of the sessions keep their types.
THEOREM TypeCorrect == ASSUME TokenAssumption PROVE Spec => []TypeOK
  BY Inductive, PTL DEF IInv

\* AuthService.refreshToken: of all requests that ever present a token, at most one is given
\* a successor, for any number of requests at once.
THEOREM TokensAreExchangedOnce == ASSUME TokenAssumption PROVE Spec => []ExchangedOnce
  BY Inductive, PTL DEF IInv

\* Logout with the newest token of a session, logoutAll and deleteAccount end sessions for
\* good, but for the one race that the three calls of the rotation leave open.
THEOREM EndedStaysOver == ASSUME TokenAssumption PROVE Spec => []EndedIsOver
  BY Inductive, PTL DEF IInv
=============================================================================
