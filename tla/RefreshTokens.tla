---------------------------- MODULE RefreshTokens ----------------------------
(***************************************************************************)
(* Sessions on the server: login, the rotation of a refresh token (find,   *)
(* create the successor, delete the old one: three calls of the database), *)
(* logout, logoutAll, changePassword and deleteAccount, by concurrent      *)
(* requests of the same users.  Access tokens are not stored anywhere and  *)
(* are left out.                                                           *)
(***************************************************************************)
EXTENDS Naturals, FiniteSets

CONSTANTS
  Users, Passwords,
  Tokens,     \* random strings: none is drawn twice
  Requests,   \* concurrent requests
  NoUser, NoToken,
  NoPassword, Gone,   \* of an account not made yet, and of a deleted one
  MaxFaults   \* bound on crashes of the process

TokenAssumption ==
  NoUser \notin Users /\ NoToken \notin Tokens /\ {NoPassword, Gone} \cap Passwords = {} /\ MaxFaults \in Nat

VARIABLES
  password,   \* the users table
  db,         \* the refresh_tokens table ...
  owner,      \* ... whose each token drawn so far is (or was) ...
  expired,    \* ... and the ones past their seven days
  parent,     \* the token each was exchanged for; a login's has none
  root,       \* the login each token comes from
  given,      \* tokens a client was given
  req,        \* what each request does next
  loggedOut,  \* logins whose session was logged out: with its newest token, or with all of a user
  raced,      \* logins with a refresh that failed half way or overlapped a logout
  faults

vars == <<password, db, owner, expired, parent, root, given, req, loggedOut, raced, faults>>
rows == <<db, owner, parent, root>>

Pcs == {"idle", "issuing", "expiring", "rotating", "removing", "changing", "deleting"}

TypeOK ==
  /\ password \in [Users -> Passwords \cup {NoPassword, Gone}]
  /\ db \subseteq Tokens /\ expired \subseteq Tokens /\ given \subseteq Tokens
  /\ owner \in [Tokens -> Users \cup {NoUser}]
  /\ parent \in [Tokens -> Tokens \cup {NoToken}] /\ root \in [Tokens -> Tokens \cup {NoToken}]
  /\ req \in [Requests -> [pc : Pcs, user : Users \cup {NoUser}, old : Tokens \cup {NoToken},
                           new : Tokens \cup {NoToken}, seen : Passwords \cup {NoPassword},
                           pw : Passwords \cup {NoPassword}]]
  /\ loggedOut \subseteq Tokens /\ raced \subseteq Tokens
  /\ faults \in 0..MaxFaults

Idle == [pc |-> "idle", user |-> NoUser, old |-> NoToken, new |-> NoToken,
         seen |-> NoPassword, pw |-> NoPassword]

Init ==
  /\ password = [u \in Users |-> NoPassword]
  /\ db = {} /\ expired = {} /\ given = {}
  /\ owner = [t \in Tokens |-> NoUser]
  /\ parent = [t \in Tokens |-> NoToken] /\ root = [t \in Tokens |-> NoToken]
  /\ req = [r \in Requests |-> Idle]
  /\ loggedOut = {} /\ raced = {} /\ faults = 0

At(r, pc) == req[r].pc = pc
Return(r) == req' = [req EXCEPT ![r] = Idle]
Exists(u) == password[u] \in Passwords

\* Logins that some request is exchanging a token of.
Rotating == {root[req[r].old] : r \in {r \in Requests : req[r].pc \in {"rotating", "removing"}}}

-----------------------------------------------------------------------------
\* generateTokens: a row for a token never seen before; the foreign key asks for its user.

\* Which of the tokens never seen is drawn makes no difference.
Drawn == {t \in Tokens : owner[t] = NoUser /\ t = CHOOSE x \in Tokens : owner[x] = NoUser}

Storable(u) == Exists(u)

\* Mutant: the token is stored as its own user.
MutantStored(t, u, p) ==
  /\ db' = db \cup {t}
  /\ owner' = [owner EXCEPT ![t] = t]
  /\ parent' = [parent EXCEPT ![t] = p]
  /\ root' = [root EXCEPT ![t] = IF p = NoToken THEN t ELSE root[p]]

Stored(t, u, p) ==
  /\ db' = db \cup {t}
  /\ owner' = [owner EXCEPT ![t] = u]
  /\ parent' = [parent EXCEPT ![t] = p]
  /\ root' = [root EXCEPT ![t] = IF p = NoToken THEN t ELSE root[p]]

\* register: the unique index on the email lets one of two at a time through.
Register(u) ==
  /\ password[u] = NoPassword
  /\ \E p \in Passwords : password' = [password EXCEPT ![u] = p]
  /\ UNCHANGED <<rows, expired, given, req, loggedOut, raced, faults>>

\* login: the user and the password are checked, then tokens are generated.
LoginFound(r, u) ==
  /\ At(r, "idle") /\ Exists(u)
  /\ req' = [req EXCEPT ![r] = [Idle EXCEPT !.pc = "issuing", !.user = u]]
  /\ UNCHANGED <<password, rows, expired, given, loggedOut, raced, faults>>

LoginIssue(r) ==
  /\ At(r, "issuing")
  /\ IF Storable(req[r].user)
     THEN \E t \in Drawn : Stored(t, req[r].user, NoToken) /\ given' = given \cup {t}
     ELSE UNCHANGED <<rows, given>>
  /\ Return(r)
  /\ UNCHANGED <<password, expired, loggedOut, raced, faults>>

-----------------------------------------------------------------------------
\* refresh.  An unknown token is refused at once, which changes nothing.

RefreshFound(r, t) ==
  /\ At(r, "idle") /\ t \in given \cap db
  /\ req' = [req EXCEPT ![r] = [Idle EXCEPT !.pc = IF t \in expired THEN "expiring" ELSE "rotating",
                                            !.user = owner[t], !.old = t]]
  /\ UNCHANGED <<password, rows, expired, given, loggedOut, raced, faults>>

\* The token has expired: its row goes, and the request fails either way.
RefreshExpired(r) ==
  /\ At(r, "expiring")
  /\ db' = db \ {req[r].old}
  /\ Return(r)
  /\ UNCHANGED <<password, owner, parent, root, expired, given, loggedOut, raced, faults>>

RefreshIssue(r) ==
  /\ At(r, "rotating")
  /\ IF Storable(req[r].user)
     THEN \E t \in Drawn : Stored(t, req[r].user, req[r].old)
                            /\ req' = [req EXCEPT ![r].pc = "removing", ![r].new = t]
     ELSE Return(r) /\ UNCHANGED rows
  /\ UNCHANGED <<password, expired, given, loggedOut, raced, faults>>

\* Mutant: deleteMany, which does not mind that the row is gone.
MutantRefreshRemove(r) ==
  /\ At(r, "removing")
  /\ db' = db \ {req[r].old}
  /\ given' = given \cup {req[r].new}
  /\ Return(r)
  /\ UNCHANGED <<password, owner, parent, root, expired, loggedOut, raced, faults>>

\* deleteByToken throws when the row is gone: the new row stays, and nobody is given it.
RefreshRemove(r) ==
  /\ At(r, "removing")
  /\ db' = db \ {req[r].old}
  /\ IF req[r].old \in db
     THEN given' = given \cup {req[r].new} /\ UNCHANGED raced
     ELSE raced' = raced \cup {root[req[r].old]} /\ UNCHANGED given
  /\ Return(r)
  /\ UNCHANGED <<password, owner, parent, root, expired, loggedOut, faults>>

-----------------------------------------------------------------------------
\* Mutant: logout forgets the row.
MutantRevoked(ts) == db' = db

Revoked(ts) == db' = db \ ts

\* A successor of the token was handed out.
Exchanged(t) == \E n \in given : parent[n] = t

\* logout: a token that is gone is no error, and the session of one that was exchanged goes
\* on under its successor.
Logout(t) ==
  /\ t \in given
  /\ Revoked({t})
  /\ loggedOut' = IF Exchanged(t) THEN loggedOut ELSE loggedOut \cup {root[t]}
  /\ raced' = IF root[t] \in Rotating THEN raced \cup {root[t]} ELSE raced
  /\ UNCHANGED <<password, owner, parent, root, expired, given, req, faults>>

LogoutAll(u) ==
  /\ Exists(u)
  /\ Revoked({t \in db : owner[t] = u})
  /\ loggedOut' = loggedOut \cup {root[t] : t \in {t \in Tokens : owner[t] = u}}
  /\ raced' = (raced \ {root[t] : t \in {t \in Tokens : owner[t] = u}})
                \cup (Rotating \cap {root[t] : t \in {t \in Tokens : owner[t] = u}})
  /\ UNCHANGED <<password, owner, parent, root, expired, given, req, faults>>

\* changePassword: verified against the row that was read, written after two hashes.
ChangeVerified(r, u, new) ==
  /\ At(r, "idle") /\ Exists(u)
  /\ req' = [req EXCEPT ![r] = [Idle EXCEPT !.pc = "changing", !.user = u,
                                            !.seen = password[u], !.pw = new]]
  /\ UNCHANGED <<password, rows, expired, given, loggedOut, raced, faults>>

ChangePassword(r) ==
  /\ At(r, "changing")
  /\ password' = IF Exists(req[r].user) THEN [password EXCEPT ![req[r].user] = req[r].pw] ELSE password
  /\ Return(r)
  /\ UNCHANGED <<rows, expired, given, loggedOut, raced, faults>>

DeleteFound(r, u) ==
  /\ At(r, "idle") /\ Exists(u)
  /\ req' = [req EXCEPT ![r] = [Idle EXCEPT !.pc = "deleting", !.user = u]]
  /\ UNCHANGED <<password, rows, expired, given, loggedOut, raced, faults>>

\* deleteById and the cascade of the schema.
DeleteAccount(r) ==
  /\ At(r, "deleting")
  /\ password' = [password EXCEPT ![req[r].user] = Gone]
  /\ db' = {t \in db : owner[t] # req[r].user}
  /\ Return(r)
  /\ UNCHANGED <<owner, parent, root, expired, given, loggedOut, raced, faults>>

Expire(t) ==
  /\ t \in db \ expired
  /\ expired' = expired \cup {t}
  /\ UNCHANGED <<password, rows, given, req, loggedOut, raced, faults>>

\* The process restarts: what its requests had done stays done.
Crash ==
  /\ faults < MaxFaults /\ faults' = faults + 1
  /\ req' = [r \in Requests |-> Idle]
  /\ raced' = raced \cup Rotating
  /\ UNCHANGED <<password, rows, expired, given, loggedOut>>

Next ==
  \/ \E r \in Requests :
       \/ \E u \in Users :
            \/ LoginFound(r, u) \/ DeleteFound(r, u)
            \/ \E p \in Passwords : ChangeVerified(r, u, p)
       \/ \E t \in Tokens : RefreshFound(r, t)
       \/ LoginIssue(r) \/ RefreshExpired(r) \/ RefreshIssue(r) \/ RefreshRemove(r)
       \/ ChangePassword(r) \/ DeleteAccount(r)
  \/ \E t \in Tokens : Logout(t) \/ Expire(t)
  \/ \E u \in Users : Register(u) \/ LogoutAll(u)
  \/ Crash

Spec == Init /\ [][Next]_vars

-----------------------------------------------------------------------------
\* A refresh token is good for one exchange: however many requests present it at once, one
\* of them at most is given a successor.
ExchangedOnce ==
  \A t, n, m \in given : parent[n] = t /\ parent[m] = t => n = m

\* No session outlives what ends it: a deleted account has none, and one that was logged out
\* with the newest token its client was given is over, whether that token's row is still there
\* or not, unless a refresh of it failed half way or was under way at the time.  No other
\* order of requests, crashes and expiries keeps or revives it.  (A logout with a token that
\* was exchanged ends no session, although it is answered as if it did.)
EndedIsOver ==
  \A t \in db : Exists(owner[t]) /\ (root[t] \in loggedOut => root[t] \in raced)
=============================================================================
