----------------------------- MODULE Connections -----------------------------
(***************************************************************************)
(* Who is connected: the handshake of a socket (socketAuthMiddleware, with *)
(* its await on the users table), the two maps that                        *)
(* connectionManagerMiddleware keeps of users and sockets, and the user's  *)
(* own room.  socket.io is external: it runs the middlewares in order and  *)
(* reports 'disconnect' only for a socket that it had connected.           *)
(***************************************************************************)
EXTENDS Naturals, FiniteSets

CONSTANTS
  Users, Sockets,   \* a socket id is never used twice
  NoUser

ConnectionsAssumption == NoUser \notin Users

VARIABLES
  accounts,         \* the users table
  stage,            \* "lost": the transport closed while the handshake was verified
  claims,           \* the user in the token of a socket's handshake
  userConnections,  \* the Map of users to sets of sockets ...
  keys,             \* ... and the users that have an entry in it
  socketUsers,      \* the Map of sockets to users
  userRoom          \* the sockets in each room user:<id>

vars == <<accounts, stage, claims, userConnections, keys, socketUsers, userRoom>>
maps == <<userConnections, keys, socketUsers>>

TypeOK ==
  /\ accounts \subseteq Users
  /\ stage \in [Sockets -> {"new", "verifying", "verifyingLost", "open", "lost", "closed"}]
  /\ claims \in [Sockets -> Users \cup {NoUser}]
  /\ userConnections \in [Users -> SUBSET Sockets]
  /\ keys \subseteq Users
  /\ socketUsers \in [Sockets -> Users \cup {NoUser}]
  /\ userRoom \in [Users -> SUBSET Sockets]

Init ==
  /\ accounts = Users
  /\ stage = [s \in Sockets |-> "new"]
  /\ claims = [s \in Sockets |-> NoUser]
  /\ userConnections = [u \in Users |-> {}]
  /\ keys = {}
  /\ socketUsers = [s \in Sockets |-> NoUser]
  /\ userRoom = [u \in Users |-> {}]

Stage(s, from, to) == stage[s] = from /\ stage' = [stage EXCEPT ![s] = to]

-----------------------------------------------------------------------------
\* socketAuthMiddleware: the token is verified, then findById is awaited.  It runs on even
\* when the transport closes meanwhile.

Handshake(s, u) ==
  /\ Stage(s, "new", "verifying")
  /\ claims' = [claims EXCEPT ![s] = u]
  /\ UNCHANGED <<accounts, maps, userRoom>>

TokenRefused(s) ==
  Stage(s, "new", "closed") /\ UNCHANGED <<accounts, claims, maps, userRoom>>

HandshakeLost(s) ==
  Stage(s, "verifying", "verifyingLost") /\ UNCHANGED <<accounts, claims, maps, userRoom>>

\* The account is gone, or the lookup failed.
Refused(s) ==
  /\ Stage(s, "verifying", "closed") \/ Stage(s, "verifyingLost", "closed")
  /\ UNCHANGED <<accounts, claims, maps, userRoom>>

-----------------------------------------------------------------------------
\* connectionManagerMiddleware.

Track(s, u) ==
  /\ keys' = keys \cup {u}
  /\ userConnections' = [userConnections EXCEPT ![u] = @ \cup {s}]
  /\ socketUsers' = [socketUsers EXCEPT ![s] = u]

\* Mutant: the room is joined on 'reconnect' alone.
MutantConnected(s) ==
  /\ Stage(s, "verifying", "open")
  /\ claims[s] \in accounts
  /\ Track(s, claims[s])
  /\ UNCHANGED <<accounts, claims, userRoom>>

\* Both middlewares have passed: socket.io connects the socket, which joins its room ...
Connected(s) ==
  LET u == claims[s] IN
  /\ Stage(s, "verifying", "open")
  /\ u \in accounts
  /\ Track(s, u)
  /\ userRoom' = [userRoom EXCEPT ![u] = @ \cup {s}]
  /\ UNCHANGED <<accounts, claims>>

\* ... or drops it without a word, because its transport is closed.
ConnectedLost(s) ==
  /\ Stage(s, "verifyingLost", "lost")
  /\ claims[s] \in accounts
  /\ Track(s, claims[s])
  /\ UNCHANGED <<accounts, claims, userRoom>>

\* Mutant: the entry of a user goes with the first socket that closes.
MutantUntrack(s, u) ==
  /\ userConnections' = [userConnections EXCEPT ![u] = {}]
  /\ keys' = keys \ {u}
  /\ socketUsers' = [socketUsers EXCEPT ![s] = NoUser]

\* The 'disconnect' handler of the middleware.
Untrack(s, u) ==
  LET left == userConnections[u] \ {s} IN
  /\ userConnections' = [userConnections EXCEPT ![u] = left]
  /\ keys' = IF left = {} THEN keys \ {u} ELSE keys
  /\ socketUsers' = [socketUsers EXCEPT ![s] = NoUser]

Disconnect(s) ==
  /\ Stage(s, "open", "closed")
  /\ IF socketUsers[s] # NoUser THEN Untrack(s, socketUsers[s]) ELSE UNCHANGED maps
  /\ userRoom' = [u \in Users |-> userRoom[u] \ {s}]
  /\ UNCHANGED <<accounts, claims>>

\* The client's 'reconnect' event, on an open socket.
Rejoin(s) ==
  /\ stage[s] = "open"
  /\ userRoom' = [userRoom EXCEPT ![claims[s]] = @ \cup {s}]
  /\ UNCHANGED <<accounts, stage, claims, maps>>

\* deleteAccount: nothing tells the sockets.
DeleteAccount(u) ==
  /\ u \in accounts
  /\ accounts' = accounts \ {u}
  /\ UNCHANGED <<stage, claims, maps, userRoom>>

Next ==
  \/ \E s \in Sockets :
       \/ \E u \in Users : Handshake(s, u)
       \/ TokenRefused(s) \/ HandshakeLost(s) \/ Refused(s)
       \/ Connected(s) \/ ConnectedLost(s) \/ Disconnect(s) \/ Rejoin(s)
  \/ \E u \in Users : DeleteAccount(u)

Spec == Init /\ [][Next]_vars

-----------------------------------------------------------------------------
\* The functions the middleware and WebSocketService export.
getConnectedUsers == keys
getUserConnectionCount(u) == Cardinality(userConnections[u])
isUserConnected(u) == u \in keys /\ getUserConnectionCount(u) > 0
getConnectedUsersCount == Cardinality({s \in Sockets : stage[s] = "open"})

\* The two maps tell the same story at every step, and no user has an empty entry.
MapsAgree ==
  /\ \A s \in Sockets, u \in Users : s \in userConnections[u] <=> socketUsers[s] = u
  /\ keys = {u \in Users : userConnections[u] # {}}

\* No open socket is missed: it is tracked under the user of its token and hears what is
\* sent to that user, however many of the user's other sockets came and went.
OpenIsTracked ==
  \A s \in Sockets : stage[s] = "open" =>
    /\ socketUsers[s] = claims[s] /\ claims[s] # NoUser
    /\ s \in userRoom[claims[s]]

\* A room never holds a socket of somebody else, or one that is gone.
RoomIsPrivate == \A u \in Users : \A s \in userRoom[u] : stage[s] = "open" /\ claims[s] = u

\* What stays behind in the maps comes from handshakes whose transport was lost, and from
\* nothing else: a socket that had been open leaves no trace.
GhostsAreHandshakes ==
  \A s \in Sockets : socketUsers[s] # NoUser => stage[s] \in {"open", "lost"}

\* Who is tracked and who is in the rooms are the sockets that are connected, and nobody else
\* but handshakes whose transport was lost.
ConnectedAreTracked == OpenIsTracked /\ RoomIsPrivate /\ GhostsAreHandshakes

-----------------------------------------------------------------------------
\* The map of users alone implements the registry of sessions.
ByUser == INSTANCE SessionRegistry
  WITH sessions <- {p \in Sockets \X Users : p[1] \in userConnections[p[2]]}

\* The map of users is a registry of sessions: one at a time comes and goes.
UserMapIsRegistry == ByUser!Spec
=============================================================================
