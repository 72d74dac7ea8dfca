--------------------------- MODULE ConnectionsProofs ---------------------------
(***************************************************************************)
(* Proofs about the two ends of the live connection: Connections, for all  *)
(* sets of users and sockets, and ClientSocket, for all sets of components *)
(* and sockets and all bounds.                                             *)
(*                                                                         *)
(* Neither map can be shown to follow the other alone: that 'disconnect'   *)
(* finds the entry it removes needs OpenIsTracked, that a new entry is the *)
(* socket's only one needs GhostsAreHandshakes, and that a room loses      *)
(* every socket that closes needs RoomIsPrivate.  Together the properties  *)
(* are inductive.                                                          *)
(*                                                                         *)
(* At the browser's end HandlersKept is inductive with the types, because  *)
(* every change of the status, disconnect's own included, makes every      *)
(* mounted component render.                                               *)
(***************************************************************************)
EXTENDS MCSockets, FiniteSetTheorems, TLAPS

IInv ==
  /\ TypeOK
  /\ MapsAgree
  /\ OpenIsTracked
  /\ RoomIsPrivate
  /\ GhostsAreHandshakes

LEMMA InitInv == ASSUME ConnectionsAssumption, Init PROVE IInv
  BY DEF ConnectionsAssumption, Init, IInv, TypeOK, MapsAgree, OpenIsTracked, RoomIsPrivate, GhostsAreHandshakes

\* A step that leaves the maps and the rooms alone, and the stages of all sockets that are
\* in them.
LEMMA AsideInv ==
  ASSUME ConnectionsAssumption, IInv, TypeOK', UNCHANGED <<maps, userRoom>>,
         \A s \in Sockets : stage[s] \in {"open", "lost"} => stage'[s] = stage[s] /\ claims'[s] = claims[s],
         \A s \in Sockets : stage'[s] = "open" => stage[s] = "open"
  PROVE  IInv'
<1>1. MapsAgree'
  BY DEF IInv, MapsAgree, maps
<1>2. OpenIsTracked'
  BY DEF IInv, OpenIsTracked, maps
<1>3. RoomIsPrivate'
  <2> SUFFICES ASSUME NEW u \in Users, NEW s \in userRoom[u]
               PROVE  stage'[s] = "open" /\ claims'[s] = u
    BY DEF RoomIsPrivate
  <2>1. s \in Sockets
    BY DEF IInv, TypeOK
  <2>2. stage[s] = "open" /\ claims[s] = u
    BY DEF IInv, RoomIsPrivate
  <2> QED BY <2>1, <2>2
<1>4. GhostsAreHandshakes'
  BY DEF IInv, GhostsAreHandshakes, maps
<1> QED BY <1>1, <1>2, <1>3, <1>4 DEF IInv

\* Tracking a socket that is in neither map keeps them in step.
LEMMA TrackAgrees ==
  ASSUME ConnectionsAssumption, TypeOK, MapsAgree, NEW s \in Sockets, NEW u \in Users,
         socketUsers[s] = NoUser, Track(s, u)
  PROVE  MapsAgree'
<1>1. userConnections' = [userConnections EXCEPT ![u] = @ \cup {s}] /\ userConnections \in [Users -> SUBSET Sockets]
  BY DEF Track, TypeOK
<1>2. socketUsers' = [socketUsers EXCEPT ![s] = u] /\ socketUsers \in [Sockets -> Users \cup {NoUser}]
  BY DEF Track, TypeOK
<1>3. ASSUME NEW t \in Sockets, NEW v \in Users
      PROVE  t \in userConnections'[v] <=> socketUsers'[t] = v
  <2>1. t \in userConnections[v] <=> socketUsers[t] = v
    BY DEF MapsAgree
  <2>2. CASE t = s
    BY <1>1, <1>2, <2>1, <2>2 DEF ConnectionsAssumption
  <2>3. CASE t # s
    BY <1>1, <1>2, <2>1, <2>3
  <2> QED BY <2>2, <2>3
<1>4. keys' = {v \in Users : userConnections'[v] # {}}
  BY <1>1 DEF Track, MapsAgree
<1> QED BY <1>3, <1>4 DEF MapsAgree

\* Untracking a socket under the user it is tracked with keeps them in step.
LEMMA UntrackAgrees ==
  ASSUME ConnectionsAssumption, TypeOK, MapsAgree, NEW s \in Sockets, NEW u \in Users,
         socketUsers[s] = u, Untrack(s, u)
  PROVE  MapsAgree'
<1>1. /\ userConnections' = [userConnections EXCEPT ![u] = userConnections[u] \ {s}]
      /\ userConnections \in [Users -> SUBSET Sockets]
  BY DEF Untrack, TypeOK
<1>2. socketUsers' = [socketUsers EXCEPT ![s] = NoUser] /\ socketUsers \in [Sockets -> Users \cup {NoUser}]
  BY DEF Untrack, TypeOK
<1>3. ASSUME NEW t \in Sockets, NEW v \in Users
      PROVE  t \in userConnections'[v] <=> socketUsers'[t] = v
  <2>1. t \in userConnections[v] <=> socketUsers[t] = v
    BY DEF MapsAgree
  <2>2. CASE t = s
    BY <1>1, <1>2, <2>1, <2>2 DEF ConnectionsAssumption
  <2>3. CASE t # s
    BY <1>1, <1>2, <2>1, <2>3
  <2> QED BY <2>2, <2>3
<1>4. keys' = {v \in Users : userConnections'[v] # {}}
  <2>1. CASE userConnections[u] \ {s} = {}
    <3>1. keys' = keys \ {u}
      BY <2>1 DEF Untrack
    <3> QED BY <1>1, <2>1, <3>1 DEF MapsAgree
  <2>2. CASE userConnections[u] \ {s} # {}
    <3>1. keys' = keys /\ userConnections[u] # {}
      BY <2>2 DEF Untrack
    <3> QED BY <1>1, <2>2, <3>1 DEF MapsAgree
  <2> QED BY <2>1, <2>2
<1> QED BY <1>3, <1>4 DEF MapsAgree

LEMMA NextTyped == ASSUME ConnectionsAssumption, IInv, Next PROVE TypeOK'
<1> USE DEF TypeOK, IInv
<1>1. ASSUME NEW s \in Sockets, NEW u \in Users, Handshake(s, u) PROVE TypeOK'
  BY <1>1 DEF Handshake, Stage, maps
<1>2. ASSUME NEW s \in Sockets, TokenRefused(s) \/ HandshakeLost(s) \/ Refused(s) PROVE TypeOK'
  BY <1>2 DEF TokenRefused, HandshakeLost, Refused, Stage, maps
<1>3. ASSUME NEW s \in Sockets, Connected(s) PROVE TypeOK'
  BY <1>3 DEF Connected, Track, Stage
<1>4. ASSUME NEW s \in Sockets, ConnectedLost(s) PROVE TypeOK'
  BY <1>4 DEF ConnectedLost, Track, Stage
<1>5. ASSUME NEW s \in Sockets, Disconnect(s) PROVE TypeOK'
  BY <1>5 DEF Disconnect, Untrack, Stage, maps
<1>6. ASSUME NEW s \in Sockets, Rejoin(s) PROVE TypeOK'
  <2>1. claims[s] \in Users
    BY <1>6 DEF Rejoin, OpenIsTracked
  <2> QED BY <1>6, <2>1 DEF Rejoin, maps
<1>7. ASSUME NEW u \in Users, DeleteAccount(u) PROVE TypeOK'
  BY <1>7 DEF DeleteAccount, maps
<1> QED BY <1>1, <1>2, <1>3, <1>4, <1>5, <1>6, <1>7 DEF Next

LEMMA NextInv == ASSUME ConnectionsAssumption, IInv, Next PROVE IInv'
<1>0. TypeOK'
  BY NextTyped
<1>1. ASSUME NEW s \in Sockets, NEW u \in Users, Handshake(s, u) PROVE IInv'
  <2>1. /\ stage[s] = "new" /\ stage' = [stage EXCEPT ![s] = "verifying"]
        /\ claims' = [claims EXCEPT ![s] = u] /\ UNCHANGED <<maps, userRoom>>
    BY <1>1 DEF Handshake, Stage
  <2> QED BY <1>0, <2>1, AsideInv DEF IInv, TypeOK
<1>2. ASSUME NEW s \in Sockets, TokenRefused(s) \/ HandshakeLost(s) \/ Refused(s) PROVE IInv'
  <2>1. /\ stage[s] \in {"new", "verifying", "verifyingLost"}
        /\ \E to \in {"closed", "verifyingLost"} : stage' = [stage EXCEPT ![s] = to]
        /\ claims' = claims /\ UNCHANGED <<maps, userRoom>>
    BY <1>2 DEF TokenRefused, HandshakeLost, Refused, Stage
  <2> QED BY <1>0, <2>1, AsideInv DEF IInv, TypeOK
<1>3. ASSUME NEW s \in Sockets, Connected(s) PROVE IInv'
  <2> DEFINE u == claims[s]
  <2>1. /\ stage[s] = "verifying" /\ stage' = [stage EXCEPT ![s] = "open"] /\ claims' = claims
        /\ u \in Users /\ Track(s, u) /\ userRoom' = [userRoom EXCEPT ![u] = @ \cup {s}]
    BY <1>3 DEF Connected, Stage, IInv, TypeOK
  <2>2. socketUsers[s] = NoUser
    BY <2>1 DEF IInv, GhostsAreHandshakes
  <2>3. MapsAgree'
    BY <2>1, <2>2, TrackAgrees DEF IInv
  <2>4. OpenIsTracked'
    <3> SUFFICES ASSUME NEW t \in Sockets, stage'[t] = "open"
                 PROVE  socketUsers'[t] = claims[t] /\ claims[t] # NoUser /\ t \in userRoom'[claims[t]]
      BY <2>1 DEF OpenIsTracked
    <3>1. CASE t = s
      BY <2>1, <3>1 DEF Track, IInv, TypeOK, ConnectionsAssumption
    <3>2. CASE t # s
      <4>1. socketUsers[t] = claims[t] /\ claims[t] # NoUser /\ t \in userRoom[claims[t]]
        BY <2>1, <3>2 DEF IInv, TypeOK, OpenIsTracked
      <4>2. claims[t] \in Users
        BY <4>1 DEF IInv, TypeOK
      <4> QED BY <2>1, <3>2, <4>1, <4>2 DEF Track, IInv, TypeOK
    <3> QED BY <3>1, <3>2
  <2>5. RoomIsPrivate'
    <3> SUFFICES ASSUME NEW v \in Users, NEW t \in userRoom'[v]
                 PROVE  stage'[t] = "open" /\ claims[t] = v
      BY <2>1 DEF RoomIsPrivate
    <3>1. CASE t \in userRoom[v]
      BY <2>1, <3>1 DEF IInv, TypeOK, RoomIsPrivate
    <3>2. CASE t \notin userRoom[v]
      <4>1. v = u /\ t = s
        BY <2>1, <3>2 DEF IInv, TypeOK
      <4> QED BY <2>1, <4>1 DEF IInv, TypeOK
    <3> QED BY <3>1, <3>2
  <2>6. GhostsAreHandshakes'
    BY <2>1 DEF Track, IInv, TypeOK, GhostsAreHandshakes
  <2> QED BY <1>0, <2>3, <2>4, <2>5, <2>6 DEF IInv
<1>4. ASSUME NEW s \in Sockets, ConnectedLost(s) PROVE IInv'
  <2>1. /\ stage[s] = "verifyingLost" /\ stage' = [stage EXCEPT ![s] = "lost"] /\ claims' = claims
        /\ claims[s] \in Users /\ Track(s, claims[s]) /\ userRoom' = userRoom
    BY <1>4 DEF ConnectedLost, Stage, IInv, TypeOK
  <2>2. socketUsers[s] = NoUser
    BY <2>1 DEF IInv, GhostsAreHandshakes
  <2>3. MapsAgree'
    BY <2>1, <2>2, TrackAgrees DEF IInv
  <2>4. OpenIsTracked'
    BY <2>1 DEF Track, IInv, TypeOK, OpenIsTracked
  <2>5. RoomIsPrivate'
    BY <2>1 DEF IInv, TypeOK, RoomIsPrivate
  <2>6. GhostsAreHandshakes'
    BY <2>1 DEF Track, IInv, TypeOK, GhostsAreHandshakes
  <2> QED BY <1>0, <2>3, <2>4, <2>5, <2>6 DEF IInv
<1>5. ASSUME NEW s \in Sockets, Disconnect(s) PROVE IInv'
  <2>1. /\ stage[s] = "open" /\ stage' = [stage EXCEPT ![s] = "closed"] /\ claims' = claims
        /\ userRoom' = [v \in Users |-> userRoom[v] \ {s}]
    BY <1>5 DEF Disconnect, Stage
  <2>2. socketUsers[s] = claims[s] /\ claims[s] # NoUser /\ claims[s] \in Users
    BY <2>1 DEF IInv, TypeOK, OpenIsTracked
  <2>3. Untrack(s, claims[s])
    BY <1>5, <2>2 DEF Disconnect
  <2>4. MapsAgree'
    BY <2>2, <2>3, UntrackAgrees DEF IInv
  <2>5. OpenIsTracked'
    <3> SUFFICES ASSUME NEW t \in Sockets, stage'[t] = "open"
                 PROVE  socketUsers'[t] = claims[t] /\ claims[t] # NoUser /\ t \in userRoom'[claims[t]]
      BY <2>1 DEF OpenIsTracked
    <3>1. t # s /\ stage[t] = "open"
      BY <2>1 DEF IInv, TypeOK
    <3>2. socketUsers[t] = claims[t] /\ claims[t] # NoUser /\ t \in userRoom[claims[t]] /\ claims[t] \in Users
      BY <3>1 DEF IInv, TypeOK, OpenIsTracked
    <3> QED BY <2>1, <2>3, <3>1, <3>2 DEF Untrack, IInv, TypeOK
  <2>6. RoomIsPrivate'
    BY <2>1 DEF IInv, TypeOK, RoomIsPrivate
  <2>7. GhostsAreHandshakes'
    BY <2>1, <2>3 DEF Untrack, IInv, TypeOK, GhostsAreHandshakes
  <2> QED BY <1>0, <2>4, <2>5, <2>6, <2>7 DEF IInv
<1>6. ASSUME NEW s \in Sockets, Rejoin(s) PROVE IInv'
  <2>1. userRoom' = userRoom /\ UNCHANGED <<stage, claims, maps>>
    BY <1>6 DEF Rejoin, IInv, TypeOK, OpenIsTracked
  <2> QED BY <1>0, <2>1, AsideInv
<1>7. ASSUME NEW u \in Users, DeleteAccount(u) PROVE IInv'
  BY <1>0, <1>7, AsideInv DEF DeleteAccount
<1> QED BY <1>1, <1>2, <1>3, <1>4, <1>5, <1>6, <1>7 DEF Next

\* Whatever sockets come, fail half way and go, in every state the properties hold together.
THEOREM Inductive == ASSUME ConnectionsAssumption PROVE Spec => []IInv
<1>1. Init => IInv
  BY InitInv
<1>2. IInv /\ [Next]_vars => IInv'
  <2>1. ASSUME IInv, UNCHANGED vars PROVE IInv'
    BY <2>1, AsideInv DEF vars, maps, IInv, TypeOK
  <2> QED BY <2>1, NextInv
<1> QED BY <1>1, <1>2, PTL DEF Spec

\* The variables of the connection manager keep their types.
THEOREM TypeCorrect == ASSUME ConnectionsAssumption PROVE Spec => []TypeOK
  BY Inductive, PTL DEF IInv

\* connectionManagerMiddleware: its two maps tell the same story at every step.
THEOREM MapsAlwaysAgree == ASSUME ConnectionsAssumption PROVE Spec => []MapsAgree
  BY Inductive, PTL DEF IInv

\* Every socket that socket.io has connected is tracked and in the room of its user, no room
\* holds another, and only handshakes whose transport was lost leave entries behind.
THEOREM ConnectedAlwaysTracked == ASSUME ConnectionsAssumption PROVE Spec => []ConnectedAreTracked
  BY Inductive, PTL DEF IInv, ConnectedAreTracked
-----------------------------------------------------------------------------
(***************************************************************************)
(* The refinement: every step of the handlers enters one session, leaves   *)
(* one, or leaves the registry alone.                                      *)
(***************************************************************************)

Sessions == {p \in Sockets \X Users : p[1] \in userConnections[p[2]]}

LEMMA SessionOf ==
  ASSUME NEW s \in Sockets, NEW u \in Users PROVE <<s, u>> \in Sessions <=> s \in userConnections[u]
  BY DEF Sessions

\* A socket that is in neither map has no session, and being tracked gives it one.
LEMMA TrackEnters ==
  ASSUME ConnectionsAssumption, IInv, NEW s \in Sockets, NEW u \in Users,
         socketUsers[s] = NoUser, Track(s, u)
  PROVE  ByUser!Enter(s, u)
<1>1. \A v \in Users : <<s, v>> \notin Sessions
  BY SessionOf DEF IInv, MapsAgree, ConnectionsAssumption
<1>2. ASSUME NEW t \in Sockets, NEW v \in Users
      PROVE  t \in userConnections'[v] <=> t \in userConnections[v] \/ (t = s /\ v = u)
  BY DEF Track, IInv, TypeOK
<1>3. Sessions' = Sessions \cup {<<s, u>>}
  BY <1>2 DEF Sessions
<1> QED BY <1>1, <1>3 DEF ByUser!Enter, Sessions

\* A session ends when its socket is untracked, and no other does.
LEMMA UntrackLeaves ==
  ASSUME IInv, NEW s \in Sockets, NEW u \in Users, socketUsers[s] = u, Untrack(s, u)
  PROVE  ByUser!Leave(s, u)
<1>1. <<s, u>> \in Sessions
  BY SessionOf DEF IInv, MapsAgree
<1>2. ASSUME NEW t \in Sockets, NEW v \in Users
      PROVE  t \in userConnections'[v] <=> t \in userConnections[v] /\ ~(t = s /\ v = u)
  BY DEF Untrack, IInv, TypeOK
<1>3. Sessions' = Sessions \ {<<s, u>>}
  BY <1>2 DEF Sessions
<1> QED BY <1>1, <1>3 DEF ByUser!Leave, Sessions

LEMMA RegistryStep ==
  ASSUME ConnectionsAssumption, IInv, [Next]_vars
  PROVE  ByUser!Next \/ Sessions' = Sessions
<1>1. CASE UNCHANGED maps
  BY <1>1 DEF maps, Sessions
<1>2. ASSUME NEW s \in Sockets, Connected(s) \/ ConnectedLost(s) PROVE ByUser!Next
  <2>1. claims[s] \in Users /\ Track(s, claims[s]) /\ stage[s] \in {"verifying", "verifyingLost"}
    BY <1>2 DEF Connected, ConnectedLost, Stage, IInv, TypeOK
  <2>2. socketUsers[s] = NoUser
    BY <2>1 DEF IInv, GhostsAreHandshakes
  <2> QED BY <2>1, <2>2, TrackEnters DEF ByUser!Next
<1>3. ASSUME NEW s \in Sockets, Disconnect(s) PROVE ByUser!Next
  <2>1. socketUsers[s] \in Users /\ Untrack(s, socketUsers[s])
    BY <1>3 DEF Disconnect, Stage, IInv, TypeOK, OpenIsTracked
  <2> QED BY <2>1, UntrackLeaves DEF ByUser!Next
<1>4. ASSUME NEW s \in Sockets,
             (\E u \in Users : Handshake(s, u)) \/ TokenRefused(s) \/ HandshakeLost(s) \/ Refused(s) \/ Rejoin(s)
      PROVE  UNCHANGED maps
  BY <1>4 DEF Handshake, TokenRefused, HandshakeLost, Refused, Rejoin, maps
<1>5. ASSUME NEW u \in Users, DeleteAccount(u) PROVE UNCHANGED maps
  BY <1>5 DEF DeleteAccount, maps
<1> QED BY <1>1, <1>2, <1>3, <1>4, <1>5 DEF Next, vars, maps

\* connectionManagerMiddleware keeps a registry of sessions: a socket enters it once, under
\* one user, and leaves it alone; nobody's entry goes with another's.
THEOREM ImplementsRegistry == ASSUME ConnectionsAssumption PROVE Spec => UserMapIsRegistry
<1>1. Init => ByUser!Init
  BY DEF Init, ByUser!Init
<1>2. IInv /\ [Next]_vars => [ByUser!Next]_(Sessions)
  BY RegistryStep
<1> QED BY <1>1, <1>2, Inductive, PTL DEF Spec, UserMapIsRegistry, ByUser!Spec, Sessions

-----------------------------------------------------------------------------
(***************************************************************************)
(* The browser's end.  First what the operators of the service make of a   *)
(* net.                                                                    *)
(***************************************************************************)

ConnTypes ==
  [cur : Links \cup {None}, connected : BOOLEAN, connecting : BOOLEAN, live : BOOLEAN,
   attempts : 0..MaxAttempts, timers : Nat, refreshes : 0..MaxRefreshes]
SockTypes == [state : Client!States, fresh : BOOLEAN, caller : Client!Callers]
NetTypes == [conn : ConnTypes, sock : [Links -> SockTypes]]
HookTypes == [mounted : BOOLEAN, dirty : BOOLEAN, seen : Client!Seen]
SessionTypes == [token : {"none", "stale", "fresh"}, authed : BOOLEAN]

LEMMA ClientTypeParts ==
  Client!TypeOK <=>
    /\ Client!Net \in NetTypes /\ session \in SessionTypes
    /\ hook \in [Components -> HookTypes] /\ handled \subseteq Components
    /\ faults \in 0..MaxFaults /\ visits \in 0..MaxVisits
<1>1. Client!Net = [conn |-> conn, sock |-> sock]
  BY DEF Client!Net
<1>2. Client!Net \in NetTypes <=> conn \in ConnTypes /\ sock \in [Links -> SockTypes]
  BY <1>1 DEF NetTypes
<1> QED BY <1>2 DEF Client!TypeOK, ConnTypes, SockTypes, SessionTypes, HookTypes

LEMMA NetParts ==
  ASSUME NEW n \in NetTypes
  PROVE  /\ n = [conn |-> n.conn, sock |-> n.sock] /\ n.conn \in ConnTypes /\ n.sock \in [Links -> SockTypes]
         /\ n.conn.cur \in Links \cup {None} /\ n.conn.attempts \in 0..MaxAttempts
  BY DEF NetTypes, ConnTypes

LEMMA ConnOfNet ==
  ASSUME NEW n \in NetTypes, NEW c
  PROVE  [n EXCEPT !.conn = c] = [conn |-> c, sock |-> n.sock]
  BY DEF NetTypes

LEMMA SameSockets ==
  ASSUME NEW n, NEW m, n.sock = m.sock
  PROVE  Client!Unused(n) = Client!Unused(m)
  BY DEF Client!Unused

LEMMA StatusNet ==
  ASSUME NEW n \in NetTypes, NEW a \in BOOLEAN, NEW b \in BOOLEAN
  PROVE  /\ Client!Status(n, a, b) \in NetTypes /\ Client!Status(n, a, b).sock = n.sock
         /\ Client!Status(n, a, b).conn.connected = a /\ Client!Status(n, a, b).conn.cur = n.conn.cur
         /\ Client!Status(n, a, b).conn.timers = n.conn.timers
         /\ Client!Status(n, a, b).conn.attempts = n.conn.attempts
         /\ Client!Status(n, a, b).conn.refreshes = n.conn.refreshes
<1> DEFINE c == [n.conn EXCEPT !.connected = a, !.connecting = b]
<1>1. Client!Status(n, a, b) = [conn |-> c, sock |-> n.sock]
  <2>1. [n EXCEPT !.conn.connected = a] = [conn |-> [n.conn EXCEPT !.connected = a], sock |-> n.sock]
    BY ConnOfNet
  <2>2. Client!Status(n, a, b) = [[n EXCEPT !.conn.connected = a] EXCEPT !.conn.connecting = b]
    BY DEF Client!Status
  <2> QED BY <2>1, <2>2
<1>2. /\ c \in ConnTypes /\ c.connected = a /\ c.cur = n.conn.cur /\ c.timers = n.conn.timers
      /\ c.attempts = n.conn.attempts /\ c.refreshes = n.conn.refreshes
  BY NetParts DEF ConnTypes
<1> HIDE DEF c
<1>3. Client!Status(n, a, b) \in NetTypes
  BY <1>1, <1>2, NetParts DEF NetTypes
<1> QED BY <1>1, <1>2, <1>3

LEMMA LiveNet ==
  ASSUME NEW n \in NetTypes, NEW a \in BOOLEAN
  PROVE  /\ Client!Live(n, a) \in NetTypes /\ Client!Live(n, a).sock = n.sock
         /\ Client!Live(n, a).conn.connected = n.conn.connected
         /\ Client!Live(n, a).conn.attempts = n.conn.attempts
<1>1. Client!Live(n, a) = [conn |-> [n.conn EXCEPT !.live = a], sock |-> n.sock]
  BY NetParts DEF Client!Live
<1>2. [n.conn EXCEPT !.live = a] \in ConnTypes
  BY NetParts DEF ConnTypes
<1> QED BY <1>1, <1>2, NetParts DEF NetTypes, ConnTypes

\* A socket of a net changes.
LEMMA SocketNet ==
  ASSUME NEW n \in NetTypes, NEW s \in Links, NEW x \in SockTypes
  PROVE  [n EXCEPT !.sock[s] = x] \in NetTypes /\ [n EXCEPT !.sock[s] = x].conn = n.conn
         /\ [n EXCEPT !.sock[s] = x].sock = [n.sock EXCEPT ![s] = x]
<1>1. [n EXCEPT !.sock[s] = x] = [conn |-> n.conn, sock |-> [n.sock EXCEPT ![s] = x]]
  BY NetParts
<1>2. [n.sock EXCEPT ![s] = x] \in [Links -> SockTypes]
  BY NetParts
<1> QED BY <1>1, <1>2, NetParts DEF NetTypes

LEMMA FreshSocket ==
  ASSUME NEW n, Client!Unused(n) # {}
  PROVE  Client!Fresh(n) \in Links /\ Client!Fresh(n) \in Client!Unused(n)
  BY DEF Client!Unused, Client!Fresh

LEMMA ConnectNet ==
  ASSUME session \in SessionTypes, NEW n \in NetTypes, NEW c \in Client!Callers, Client!Unused(n) # {}
  PROVE  /\ Client!Connect(n, c) \in NetTypes
         /\ \E s \in Links : Client!Unused(n) \subseteq Client!Unused(Client!Connect(n, c)) \cup {s}
<1> DEFINE s == Client!Fresh(n)
           x == [state |-> "trying", fresh |-> session.token = "fresh", caller |-> c]
           m == Client!Status(n, FALSE, TRUE)
<1>1. s \in Links /\ x \in SockTypes /\ m \in NetTypes /\ m.sock = n.sock
  BY FreshSocket, StatusNet DEF SockTypes, Client!States
<1>2. CASE session.token = "none"
  <2>1. Client!Connect(n, c) = Client!Status(n, FALSE, FALSE)
    BY <1>2 DEF Client!Connect, Client!NoToken
  <2>2. Client!Status(n, FALSE, FALSE) \in NetTypes /\ Client!Status(n, FALSE, FALSE).sock = n.sock
    BY StatusNet
  <2>3. Client!Unused(n) = Client!Unused(Client!Status(n, FALSE, FALSE))
    BY <2>2, SameSockets
  <2> HIDE DEF s, x, m
  <2> QED BY <1>1, <2>1, <2>2, <2>3
<1>3. CASE session.token # "none"
  <2>1. Client!Connect(n, c) = [m EXCEPT !.conn.cur = s, !.sock[s] = x]
    BY <1>3 DEF Client!Connect
  <2> HIDE DEF s, x, m
  <2>2. [m EXCEPT !.conn.cur = s, !.sock[s] = x] = [conn |-> [m.conn EXCEPT !.cur = s], sock |-> [m.sock EXCEPT ![s] = x]]
    <3>1. [m EXCEPT !.conn.cur = s] = [conn |-> [m.conn EXCEPT !.cur = s], sock |-> m.sock]
      BY <1>1, ConnOfNet
    <3>2. [m EXCEPT !.conn.cur = s, !.sock[s] = x] = [[m EXCEPT !.conn.cur = s] EXCEPT !.sock[s] = x]
      OBVIOUS
    <3> DEFINE y == [m.conn EXCEPT !.cur = s]
    <3>3. [m EXCEPT !.conn.cur = s, !.sock[s] = x] = [[conn |-> y, sock |-> m.sock] EXCEPT !.sock[s] = x]
      BY <3>1, <3>2
    <3> HIDE DEF y
    <3>4. [[conn |-> y, sock |-> m.sock] EXCEPT !.sock[s] = x] = [conn |-> y, sock |-> [m.sock EXCEPT ![s] = x]]
      OBVIOUS
    <3>5. [m EXCEPT !.conn.cur = s, !.sock[s] = x] = [conn |-> y, sock |-> [m.sock EXCEPT ![s] = x]]
      BY <3>3, <3>4
    <3> QED BY <3>5 DEF y
  <2>3. [m.conn EXCEPT !.cur = s] \in ConnTypes
    BY <1>1, NetParts DEF ConnTypes
  <2>4. [m.sock EXCEPT ![s] = x] \in [Links -> SockTypes]
    BY <1>1, NetParts
  <2>5. Client!Connect(n, c) \in NetTypes /\ Client!Connect(n, c).sock = [m.sock EXCEPT ![s] = x]
    BY <2>1, <2>2, <2>3, <2>4 DEF NetTypes
  <2>6. \A t \in Links : t # s => Client!Connect(n, c).sock[t] = n.sock[t]
    BY <1>1, <2>5, NetParts
  <2> QED BY <1>1, <2>5, <2>6 DEF Client!Unused
<1> QED BY <1>2, <1>3

LEMMA ClosedType == Client!Closed \in SockTypes
  BY DEF Client!Closed, SockTypes, Client!States, Client!Callers

\* disconnect leaves nothing connected, and no socket is used that was not.
LEMMA DisconnectNet ==
  ASSUME Client!SocketAssumption, NEW n \in NetTypes
  PROVE  /\ Client!Disconnect(n) \in NetTypes /\ Client!Disconnect(n).conn.connected = FALSE
         /\ Client!Unused(n) \subseteq Client!Unused(Client!Disconnect(n))
<1> DEFINE c == n.conn.cur
           closed == IF c = None THEN n ELSE [n EXCEPT !.sock[c] = Client!Closed, !.conn.cur = None]
<1>1. closed \in NetTypes /\ Client!Unused(n) \subseteq Client!Unused(closed)
  <2>1. CASE c = None
    BY <2>1
  <2>2. CASE c # None
    <3>1. c \in Links
      BY <2>2, NetParts
    <3>2. closed = [conn |-> [n.conn EXCEPT !.cur = None], sock |-> [n.sock EXCEPT ![c] = Client!Closed]]
      BY <2>2 DEF NetTypes, ConnTypes
    <3> HIDE DEF c, closed
    <3>3. [n.conn EXCEPT !.cur = None] \in ConnTypes /\ [n.sock EXCEPT ![c] = Client!Closed] \in [Links -> SockTypes]
      BY <3>1, NetParts, ClosedType DEF ConnTypes
    <3>4. closed \in NetTypes /\ closed.sock = [n.sock EXCEPT ![c] = Client!Closed]
      BY <3>2, <3>3 DEF NetTypes
    <3>5. \A t \in Links : n.sock[t].state = "dead" => closed.sock[t].state = "dead"
      BY <3>4, NetParts DEF Client!Closed
    <3> QED BY <3>4, <3>5 DEF Client!Unused
  <2> QED BY <2>1, <2>2
<1>2. Client!Disconnect(n) = Client!Live(Client!Status(closed, FALSE, FALSE), FALSE)
  BY DEF Client!Disconnect
<1> DEFINE told == Client!Status(closed, FALSE, FALSE)
<1> HIDE DEF c, closed
<1>3. told \in NetTypes /\ told.sock = closed.sock /\ told.conn.connected = FALSE
  BY <1>1, StatusNet
<1> HIDE DEF told
<1>4. /\ Client!Live(told, FALSE) \in NetTypes /\ Client!Live(told, FALSE).sock = closed.sock
      /\ Client!Live(told, FALSE).conn.connected = FALSE
  BY <1>3, LiveNet
<1>5. Client!Unused(Client!Live(told, FALSE)) = Client!Unused(closed)
  BY <1>4, SameSockets
<1> QED BY <1>1, <1>2, <1>4, <1>5 DEF told

LEMMA ReconnectNet ==
  ASSUME Client!SocketAssumption, NEW n \in NetTypes
  PROVE  Client!HandleReconnect(n) \in NetTypes /\ Client!HandleReconnect(n).sock = n.sock
<1> DEFINE m == Client!Status(n, FALSE, TRUE)
<1>0. m \in NetTypes /\ m.sock = n.sock /\ m.conn.attempts = n.conn.attempts
  BY StatusNet
<1>1. CASE n.conn.attempts >= MaxAttempts
  BY <1>1, StatusNet DEF Client!HandleReconnect
<1>2. CASE ~(n.conn.attempts >= MaxAttempts)
  <2> DEFINE a == m.conn.attempts + 1
             t == m.conn.timers + 1
             y == [m.conn EXCEPT !.attempts = a]
  <2>1. Client!HandleReconnect(n) = [m EXCEPT !.conn.attempts = a, !.conn.timers = t]
    BY <1>2 DEF Client!HandleReconnect
  <2> HIDE DEF m, a, t
  <2>2. [m EXCEPT !.conn.attempts = a, !.conn.timers = t] =
          [conn |-> [m.conn EXCEPT !.attempts = a, !.timers = t], sock |-> m.sock]
    <3>1. [m EXCEPT !.conn.attempts = a] = [conn |-> y, sock |-> m.sock]
      BY <1>0, ConnOfNet
    <3>2. [m EXCEPT !.conn.attempts = a, !.conn.timers = t] = [[m EXCEPT !.conn.attempts = a] EXCEPT !.conn.timers = t]
      OBVIOUS
    <3> HIDE DEF y
    <3>3. [[conn |-> y, sock |-> m.sock] EXCEPT !.conn.timers = t] = [conn |-> [y EXCEPT !.timers = t], sock |-> m.sock]
      OBVIOUS
    <3>4. [y EXCEPT !.timers = t] = [m.conn EXCEPT !.attempts = a, !.timers = t]
      BY DEF y
    <3> QED BY <3>1, <3>2, <3>3, <3>4
  <2>3. a \in 0..MaxAttempts
    BY <1>0, <1>2, NetParts DEF Client!SocketAssumption, a
  <2>4. t \in Nat
    BY <1>0, NetParts DEF ConnTypes, t
  <2>5. [m.conn EXCEPT !.attempts = a, !.timers = t] \in ConnTypes
    BY <1>0, <2>3, <2>4, NetParts DEF ConnTypes
  <2> QED BY <1>0, <2>1, <2>2, <2>5, NetParts DEF NetTypes
<1> QED BY <1>1, <1>2
LEMMA ConnNet ==
  ASSUME NEW n \in NetTypes, NEW c \in ConnTypes
  PROVE  [n EXCEPT !.conn = c] \in NetTypes /\ [n EXCEPT !.conn = c].sock = n.sock
  BY ConnOfNet, NetParts DEF NetTypes

\* What the fields of a socket and of a connection may become.
LEMMA FieldTypes ==
  /\ \A x \in SockTypes : /\ [x EXCEPT !.state = "open", !.caller = "settled"] \in SockTypes
                          /\ [x EXCEPT !.caller = "settled"] \in SockTypes
                          /\ [x EXCEPT !.state = "trying"] \in SockTypes
                          /\ [x EXCEPT !.fresh = FALSE] \in SockTypes
  /\ Client!SocketAssumption =>
       \A c \in ConnTypes :
         /\ [c EXCEPT !.attempts = 0] \in ConnTypes
         /\ c.refreshes < MaxRefreshes => [c EXCEPT !.refreshes = @ + 1] \in ConnTypes
         /\ c.refreshes > 0 => [c EXCEPT !.refreshes = @ - 1] \in ConnTypes
         /\ c.timers > 0 => [c EXCEPT !.timers = @ - 1] \in ConnTypes
<1>1. ASSUME NEW x \in SockTypes
      PROVE  /\ [x EXCEPT !.state = "open", !.caller = "settled"] \in SockTypes
             /\ [x EXCEPT !.caller = "settled"] \in SockTypes
             /\ [x EXCEPT !.state = "trying"] \in SockTypes
             /\ [x EXCEPT !.fresh = FALSE] \in SockTypes
  BY DEF SockTypes, Client!States, Client!Callers
<1>2. ASSUME Client!SocketAssumption, NEW c \in ConnTypes
      PROVE  /\ [c EXCEPT !.attempts = 0] \in ConnTypes
             /\ c.refreshes < MaxRefreshes => [c EXCEPT !.refreshes = @ + 1] \in ConnTypes
             /\ c.refreshes > 0 => [c EXCEPT !.refreshes = @ - 1] \in ConnTypes
             /\ c.timers > 0 => [c EXCEPT !.timers = @ - 1] \in ConnTypes
  <2>1. MaxAttempts \in Nat /\ MaxRefreshes \in Nat /\ c.refreshes \in 0..MaxRefreshes /\ c.timers \in Nat
    BY <1>2 DEF ConnTypes, Client!SocketAssumption
  <2>2. 0 \in 0..MaxAttempts
    BY <2>1
  <2>3. /\ c.refreshes < MaxRefreshes => c.refreshes + 1 \in 0..MaxRefreshes
        /\ c.refreshes > 0 => c.refreshes - 1 \in 0..MaxRefreshes
        /\ c.timers > 0 => c.timers - 1 \in Nat
    BY <2>1
  <2>4. /\ \A x \in 0..MaxAttempts : [c EXCEPT !.attempts = x] \in ConnTypes
        /\ \A x \in 0..MaxRefreshes : [c EXCEPT !.refreshes = x] \in ConnTypes
        /\ \A x \in Nat : [c EXCEPT !.timers = x] \in ConnTypes
    BY DEF ConnTypes
  <2> QED BY <2>2, <2>3, <2>4
<1> QED BY <1>1, <1>2

-----------------------------------------------------------------------------
(***************************************************************************)
(* The steps of the service.                                               *)
(***************************************************************************)

ClientRest ==
  /\ session' \in SessionTypes /\ handled' \subseteq Components
  /\ faults' \in 0..MaxFaults /\ visits' \in 0..MaxVisits

LEMMA Notified ==
  ASSUME Client!TypeOK, Client!Notify, NEW n \in NetTypes, Client!Becomes(n), ClientRest
  PROVE  Client!TypeOK' /\ Client!HandlersKept'
<1>1. hook \in [Components -> HookTypes]
  BY ClientTypeParts
<1>2. hook' \in [Components -> HookTypes] /\ \A k \in Components : hook'[k].dirty = hook'[k].mounted
  BY <1>1 DEF Client!Notify, HookTypes
<1>3. conn' \in ConnTypes /\ sock' \in [Links -> SockTypes]
  BY NetParts DEF Client!Becomes
<1>4. Client!TypeOK'
  BY <1>2, <1>3 DEF Client!TypeOK, ClientRest, ConnTypes, SockTypes, SessionTypes, HookTypes, Client!States,
     Client!Callers, Client!Seen
<1>5. Client!HandlersKept'
  BY <1>2 DEF Client!HandlersKept, HookTypes
<1> QED BY <1>4, <1>5

LEMMA SomeFault == ASSUME Client!SocketAssumption, Client!TypeOK, Client!Fault PROVE faults' \in 0..MaxFaults
<1>1. faults \in 0..MaxFaults /\ MaxFaults \in Nat
  BY ClientTypeParts DEF Client!SocketAssumption
<1> QED BY <1>1 DEF Client!Fault

\* Whatever has become of a socket, its promise is rejected once.
LEMMA RejectedKeeps ==
  ASSUME Client!TypeOK, NEW s \in Links, NEW n \in NetTypes, Client!Rejected(s, n), faults' \in 0..MaxFaults
  PROVE  Client!TypeOK' /\ Client!HandlersKept'
<1> DEFINE settled == [n EXCEPT !.sock[s].caller = "settled"]
           m == IF sock[s].caller \in {"timer", "refresh"} THEN Client!Status(settled, FALSE, FALSE) ELSE settled
<1>1. settled \in NetTypes
  <2>1. settled = [n EXCEPT !.sock[s] = [n.sock[s] EXCEPT !.caller = "settled"]]
    OBVIOUS
  <2>2. n.sock[s] \in SockTypes
    BY NetParts
  <2> QED BY <2>1, <2>2, FieldTypes, SocketNet
<1>2. /\ Client!Becomes(m) /\ Client!Notify /\ UNCHANGED <<handled, visits>>
      /\ IF sock[s].caller = "refresh" THEN Client!SignedOut ELSE UNCHANGED session
  BY DEF Client!Rejected
<1>3. ClientRest
  <2>1. /\ session \in SessionTypes /\ handled \subseteq Components /\ visits \in 0..MaxVisits
    BY ClientTypeParts
  <2>2. session' \in SessionTypes
    <3>1. CASE sock[s].caller = "refresh"
      <4>1. session' = [token |-> "none", authed |-> FALSE]
        BY <1>2, <3>1 DEF Client!SignedOut
      <4> QED BY <4>1 DEF SessionTypes
    <3>2. CASE sock[s].caller # "refresh"
      BY <1>2, <2>1, <3>2
    <3> QED BY <3>1, <3>2
  <2> QED BY <1>2, <2>1, <2>2 DEF ClientRest
<1> HIDE DEF settled
<1>4. m \in NetTypes
  BY <1>1, StatusNet
<1> HIDE DEF m
<1> QED BY <1>2, <1>3, <1>4, Notified

LEMMA OpenedKeeps ==
  ASSUME Client!SocketAssumption, Client!TypeOK, NEW s \in Links, Client!Opened(s)
  PROVE  Client!TypeOK' /\ Client!HandlersKept'
<1> DEFINE n == Client!Net
           opened == [n EXCEPT !.sock[s] = [@ EXCEPT !.state = "open", !.caller = "settled"], !.conn.attempts = 0]
<1>1. n \in NetTypes
  BY ClientTypeParts
<1>2. opened \in NetTypes
  <2> DEFINE m == [n EXCEPT !.sock[s] = [n.sock[s] EXCEPT !.state = "open", !.caller = "settled"]]
  <2>1. m \in NetTypes /\ m.conn = n.conn
    <3>1. n.sock[s] \in SockTypes
      BY <1>1, NetParts
    <3> QED BY <1>1, <3>1, FieldTypes, SocketNet
  <2>2. opened = [m EXCEPT !.conn.attempts = 0]
    OBVIOUS
  <2> HIDE DEF opened, m
  <2>3. [m.conn EXCEPT !.attempts = 0] \in ConnTypes
    BY <2>1, FieldTypes, NetParts
  <2>4. opened = [m EXCEPT !.conn = [m.conn EXCEPT !.attempts = 0]]
    BY <2>2
  <2> QED BY <2>1, <2>3, <2>4, ConnNet
<1>3. Client!OpenedNet(s) = Client!Live(Client!Status(opened, TRUE, FALSE), TRUE)
  BY DEF Client!OpenedNet
<1> HIDE DEF opened
<1>4. Client!OpenedNet(s) \in NetTypes
  <2>1. Client!Status(opened, TRUE, FALSE) \in NetTypes
    BY <1>2, StatusNet
  <2> QED BY <1>3, <2>1, LiveNet
<1>5. Client!Becomes(Client!OpenedNet(s)) /\ Client!Notify /\ UNCHANGED <<session, handled, faults, visits>>
  BY DEF Client!Opened
<1>6. ClientRest
  BY <1>5, ClientTypeParts DEF ClientRest
<1> QED BY <1>4, <1>5, <1>6, Notified

\* With a server that names 401, or one that does not.
LEMMA DeniedKeeps ==
  ASSUME Client!SocketAssumption, Client!TypeOK, NEW s \in Links, Client!Denied(s) \/ ClientAsIs!Denied(s)
  PROVE  Client!TypeOK' /\ Client!HandlersKept'
<1> DEFINE dead == [Client!Net EXCEPT !.sock[s] = Client!Closed]
           told == Client!Status(dead, FALSE, FALSE)
           refreshing == [told EXCEPT !.conn.refreshes = @ + 1]
<1>1. /\ conn.refreshes < MaxRefreshes /\ UNCHANGED faults
      /\ Client!Rejected(s, refreshing) \/ Client!Rejected(s, Client!HandleReconnect(dead))
  <2>1. CASE Client!Denied(s)
    BY <2>1 DEF Client!Denied
  <2>2. CASE ClientAsIs!Denied(s)
    <3>1. \A n, a, b : ClientAsIs!Status(n, a, b) = Client!Status(n, a, b)
      BY DEF ClientAsIs!Status, Client!Status
    <3>2. \A n : ClientAsIs!HandleReconnect(n) = Client!HandleReconnect(n)
      BY <3>1 DEF ClientAsIs!HandleReconnect, Client!HandleReconnect
    <3>3. ClientAsIs!Closed = Client!Closed /\ ClientAsIs!Net = Client!Net
      BY DEF ClientAsIs!Closed, Client!Closed, ClientAsIs!Net, Client!Net
    <3>4. ASSUME NEW n, ClientAsIs!Rejected(s, n) PROVE Client!Rejected(s, n)
      BY <3>1, <3>4 DEF ClientAsIs!Rejected, Client!Rejected, ClientAsIs!Becomes, Client!Becomes,
           ClientAsIs!SignedOut, Client!SignedOut, ClientAsIs!Notify, Client!Notify
    <3>5. /\ conn.refreshes < MaxRefreshes /\ UNCHANGED faults
          /\ ClientAsIs!Rejected(s, ClientAsIs!HandleReconnect([ClientAsIs!Net EXCEPT !.sock[s] = ClientAsIs!Closed]))
      BY <2>2 DEF ClientAsIs!Denied
    <3> QED BY <3>2, <3>3, <3>4, <3>5
  <2> QED BY <2>1, <2>2
<1>2. dead \in NetTypes /\ dead.conn = conn
  <2>1. Client!Net \in NetTypes /\ Client!Net.conn = conn
    BY ClientTypeParts DEF Client!Net
  <2> QED BY <2>1, ClosedType, SocketNet
<1> HIDE DEF dead
<1>3. told \in NetTypes /\ told.conn.refreshes = conn.refreshes
  BY <1>2, StatusNet
<1> HIDE DEF told
<1>4. refreshing \in NetTypes
  <2>1. refreshing = [told EXCEPT !.conn = [told.conn EXCEPT !.refreshes = @ + 1]]
    OBVIOUS
  <2>2. [told.conn EXCEPT !.refreshes = @ + 1] \in ConnTypes
    BY <1>1, <1>3, FieldTypes, NetParts
  <2> QED BY <1>3, <2>1, <2>2, ConnNet
<1>5. Client!HandleReconnect(dead) \in NetTypes
  BY <1>2, ReconnectNet
<1>6. faults' \in 0..MaxFaults
  BY <1>1, ClientTypeParts
<1> HIDE DEF refreshing
<1> QED BY <1>1, <1>4, <1>5, <1>6, RejectedKeeps

LEMMA FailedKeeps ==
  ASSUME Client!SocketAssumption, Client!TypeOK, NEW s \in Links, Client!Failed(s)
  PROVE  Client!TypeOK' /\ Client!HandlersKept'
<1>1. Client!HandleReconnect(Client!Net) \in NetTypes
  BY ClientTypeParts, ReconnectNet
<1>2. faults' \in 0..MaxFaults
  BY SomeFault DEF Client!Failed
<1> QED BY <1>1, <1>2, RejectedKeeps DEF Client!Failed

LEMMA LostKeeps ==
  ASSUME Client!SocketAssumption, Client!TypeOK, NEW s \in Links, Client!Lost(s)
  PROVE  Client!TypeOK' /\ Client!HandlersKept'
<1> DEFINE n == Client!Net
           lost == [n EXCEPT !.sock[s].state = "trying"]
<1>1. n \in NetTypes
  BY ClientTypeParts
<1>2. lost \in NetTypes
  <2>1. lost = [n EXCEPT !.sock[s] = [n.sock[s] EXCEPT !.state = "trying"]]
    OBVIOUS
  <2>2. n.sock[s] \in SockTypes
    BY <1>1, NetParts
  <2> QED BY <1>1, <2>1, <2>2, FieldTypes, SocketNet
<1>3. Client!LostNet(s) = Client!Live(Client!Status(lost, FALSE, FALSE), FALSE)
  BY DEF Client!LostNet
<1> HIDE DEF lost
<1>4. Client!LostNet(s) \in NetTypes
  <2>1. Client!Status(lost, FALSE, FALSE) \in NetTypes
    BY <1>2, StatusNet
  <2> QED BY <1>3, <2>1, LiveNet
<1>5. Client!Becomes(Client!LostNet(s)) /\ Client!Notify /\ UNCHANGED <<session, handled, visits>>
  BY DEF Client!Lost
<1>6. faults' \in 0..MaxFaults
  BY SomeFault DEF Client!Lost
<1>7. ClientRest
  BY <1>5, <1>6, ClientTypeParts DEF ClientRest
<1> QED BY <1>4, <1>5, <1>7, Notified

LEMMA KickedKeeps ==
  ASSUME Client!SocketAssumption, Client!TypeOK, NEW s \in Links, Client!Kicked(s)
  PROVE  Client!TypeOK' /\ Client!HandlersKept'
<1> DEFINE dead == [Client!Net EXCEPT !.sock[s] = Client!Closed]
           told == Client!Status(dead, FALSE, FALSE)
           net == Client!HandleReconnect(Client!Live(told, FALSE))
<1>1. dead \in NetTypes
  BY ClientTypeParts, ClosedType, SocketNet
<1> HIDE DEF dead
<1>2. told \in NetTypes
  BY <1>1, StatusNet
<1> HIDE DEF told
<1>3. net \in NetTypes
  BY <1>2, LiveNet, ReconnectNet
<1>4. Client!Becomes(net) /\ Client!Notify /\ UNCHANGED <<session, handled, visits>>
  BY DEF Client!Kicked, dead, told
<1>5. faults' \in 0..MaxFaults
  BY SomeFault DEF Client!Kicked
<1>6. ClientRest
  BY <1>4, <1>5, ClientTypeParts DEF ClientRest
<1> HIDE DEF net
<1> QED BY <1>3, <1>4, <1>6, Notified

\* The token expires under everybody's feet, and no component hears of it.
LEMMA ExpireKeeps ==
  ASSUME Client!SocketAssumption, Client!TypeOK, Client!HandlersKept, Client!Expire
  PROVE  Client!TypeOK' /\ Client!HandlersKept'
<1>1. /\ Client!Net \in NetTypes /\ session \in SessionTypes /\ hook \in [Components -> HookTypes]
      /\ handled \subseteq Components /\ visits \in 0..MaxVisits
  BY ClientTypeParts
<1>2. session' \in SessionTypes
  BY <1>1 DEF Client!Expire, SessionTypes
<1>3. sock' \in [Links -> SockTypes]
  <2>1. \A s \in Links : sock[s] \in SockTypes
    BY <1>1 DEF Client!Net, NetTypes
  <2> QED BY <2>1, FieldTypes DEF Client!Expire
<1>4. conn' \in ConnTypes
  BY <1>1 DEF Client!Expire, Client!Net, NetTypes
<1>5. faults' \in 0..MaxFaults
  BY SomeFault DEF Client!Expire
<1>6. UNCHANGED <<hook, handled, visits>>
  BY DEF Client!Expire
<1>7. Client!HandlersKept'
  BY <1>6 DEF Client!HandlersKept
<1>8. Client!TypeOK'
  BY <1>1, <1>2, <1>3, <1>4, <1>5, <1>6 DEF Client!TypeOK, ConnTypes, SockTypes, SessionTypes, HookTypes,
     Client!States, Client!Callers, Client!Seen
<1> QED BY <1>7, <1>8

LEMMA TimerKeeps ==
  ASSUME Client!SocketAssumption, Client!TypeOK, Client!HandlersKept, Client!TimerFires
  PROVE  Client!TypeOK' /\ Client!HandlersKept'
<1> DEFINE n == Client!Net
           fired == [n EXCEPT !.conn.timers = @ - 1]
<1>1. n \in NetTypes /\ n.conn = conn /\ conn.timers > 0 /\ Client!Unused(n) # {}
  BY ClientTypeParts DEF Client!Net, Client!TimerFires
<1>2. fired \in NetTypes /\ fired.sock = n.sock
  <2>1. fired = [n EXCEPT !.conn = [n.conn EXCEPT !.timers = @ - 1]]
    OBVIOUS
  <2>2. [n.conn EXCEPT !.timers = @ - 1] \in ConnTypes
    BY <1>1, FieldTypes, NetParts
  <2> HIDE DEF n, fired
  <2> QED BY <1>1, <2>1, <2>2, ConnNet
<1>3. /\ Client!Becomes(IF Client!IsConnected THEN fired ELSE Client!Connect(fired, "timer"))
      /\ IF Client!IsConnected THEN UNCHANGED hook ELSE Client!Notify
      /\ UNCHANGED <<session, handled, faults, visits>>
  BY DEF Client!TimerFires
<1> HIDE DEF n, fired
<1>4. ClientRest /\ hook \in [Components -> HookTypes]
  BY <1>3, ClientTypeParts DEF ClientRest
<1>5. CASE Client!IsConnected
  <2>1. conn' \in ConnTypes /\ sock' \in [Links -> SockTypes]
    BY <1>2, <1>3, <1>5, NetParts DEF Client!Becomes
  <2>2. UNCHANGED <<hook, handled>>
    BY <1>3, <1>5
  <2>3. Client!TypeOK'
    BY <1>4, <2>1, <2>2 DEF Client!TypeOK, ClientRest, ConnTypes, SockTypes, SessionTypes, HookTypes,
       Client!States, Client!Callers, Client!Seen
  <2> QED BY <2>2, <2>3 DEF Client!HandlersKept
<1>6. CASE ~Client!IsConnected
  <2>1. Client!Unused(fired) # {}
    BY <1>1, <1>2, SameSockets
  <2>2. Client!Connect(fired, "timer") \in NetTypes
    <3>1. session \in SessionTypes /\ "timer" \in Client!Callers
      BY ClientTypeParts DEF Client!Callers
    <3> QED BY <1>2, <2>1, <3>1, ConnectNet
  <2> QED BY <1>3, <1>4, <1>6, <2>2, Notified
<1> QED BY <1>5, <1>6

\* disconnect empties eventHandlers, and everyone is told to render.
LEMMA RefreshedKeeps ==
  ASSUME Client!SocketAssumption, Client!TypeOK, Client!RefreshOk
  PROVE  Client!TypeOK' /\ Client!HandlersKept'
<1> DEFINE n == Client!Net
           counted == [n EXCEPT !.conn.refreshes = @ - 1]
           done == Client!Disconnect(counted)
           s == Client!Fresh(done)
           m == Client!Status(done, FALSE, TRUE)
           x == [state |-> "trying", fresh |-> TRUE, caller |-> "refresh"]
           net == [m EXCEPT !.conn.cur = s, !.sock[s] = x]
<1>1. n \in NetTypes /\ n.conn = conn /\ conn.refreshes > 0
  BY ClientTypeParts DEF Client!Net, Client!RefreshOk
<1>2. /\ Client!Unused(done) # {} /\ session' = [session EXCEPT !.token = "fresh"]
      /\ Client!Becomes(net) /\ handled' = {} /\ Client!Notify /\ UNCHANGED <<faults, visits>>
  BY DEF Client!RefreshOk
<1>3. counted \in NetTypes
  <2>1. counted = [n EXCEPT !.conn = [n.conn EXCEPT !.refreshes = @ - 1]]
    OBVIOUS
  <2>2. [n.conn EXCEPT !.refreshes = @ - 1] \in ConnTypes
    BY <1>1, FieldTypes, NetParts
  <2> HIDE DEF n, counted
  <2> QED BY <1>1, <2>1, <2>2, ConnNet
<1> HIDE DEF n, counted
<1>4. done \in NetTypes
  BY <1>3, DisconnectNet
<1> HIDE DEF done
<1>5. s \in Links
  BY <1>2, FreshSocket
<1>6. m \in NetTypes
  BY <1>4, StatusNet
<1> HIDE DEF s, m
<1>7. x \in SockTypes
  BY DEF SockTypes, Client!States, Client!Callers
<1> HIDE DEF x
<1>8. net \in NetTypes
  <2>1. net = [[m EXCEPT !.conn = [m.conn EXCEPT !.cur = s]] EXCEPT !.sock[s] = x]
    OBVIOUS
  <2>2. [m.conn EXCEPT !.cur = s] \in ConnTypes
    BY <1>5, <1>6, NetParts DEF ConnTypes
  <2> HIDE DEF net
  <2> QED BY <1>5, <1>6, <1>7, <2>1, <2>2, ConnNet, SocketNet
<1> HIDE DEF net
<1>9. ClientRest
  <2>1. session \in SessionTypes /\ faults \in 0..MaxFaults /\ visits \in 0..MaxVisits
    BY ClientTypeParts
  <2>2. session' \in SessionTypes
    BY <1>2, <2>1 DEF SessionTypes
  <2> QED BY <1>2, <2>1, <2>2 DEF ClientRest
<1> QED BY <1>2, <1>8, <1>9, Notified

LEMMA RefreshFailedKeeps ==
  ASSUME Client!SocketAssumption, Client!TypeOK, Client!RefreshFailed
  PROVE  Client!TypeOK' /\ Client!HandlersKept'
<1> DEFINE n == Client!Net
           counted == [n EXCEPT !.conn.refreshes = @ - 1]
<1>1. n \in NetTypes /\ n.conn = conn /\ conn.refreshes > 0
  BY ClientTypeParts DEF Client!Net, Client!RefreshFailed
<1>2. /\ Client!Becomes(Client!Status(counted, FALSE, FALSE)) /\ Client!SignedOut /\ Client!Notify
      /\ UNCHANGED <<handled, faults, visits>>
  BY DEF Client!RefreshFailed
<1>3. counted \in NetTypes
  <2>1. counted = [n EXCEPT !.conn = [n.conn EXCEPT !.refreshes = @ - 1]]
    OBVIOUS
  <2>2. [n.conn EXCEPT !.refreshes = @ - 1] \in ConnTypes
    BY <1>1, FieldTypes, NetParts
  <2> HIDE DEF n, counted
  <2> QED BY <1>1, <2>1, <2>2, ConnNet
<1> HIDE DEF n, counted
<1>4. Client!Status(counted, FALSE, FALSE) \in NetTypes
  BY <1>3, StatusNet
<1>5. ClientRest
  BY <1>2, ClientTypeParts DEF ClientRest, Client!SignedOut, SessionTypes
<1> QED BY <1>2, <1>4, <1>5, Notified

-----------------------------------------------------------------------------
(***************************************************************************)
(* The steps of the hook.                                                  *)
(***************************************************************************)

LEMMA SameCardinality == \A S : Client!Cardinality(S) = Cardinality(S)
  BY DEF Client!Cardinality, Cardinality

\* With two sockets to spare, one is left when either has been used.
LEMMA TwoToSpare ==
  ASSUME NEW n, Cardinality(Client!Unused(n)) >= 2, NEW s
  PROVE  Client!Unused(n) # {} /\ ~(Client!Unused(n) \subseteq {s})
<1> DEFINE U == Client!Unused(n)
<1>1. CASE U = {}
  <2>1. Cardinality(U) = 0
    BY <1>1, FS_EmptySet
  <2> HIDE DEF U
  <2> QED BY <2>1 DEF U
<1>2. CASE U # {} /\ U \subseteq {s}
  <2>1. U = {s}
    BY <1>2
  <2>2. Cardinality(U) = 1
    BY <2>1, FS_Singleton
  <2> HIDE DEF U
  <2> QED BY <2>2 DEF U
<1> HIDE DEF U
<1>3. CASE U # {} /\ ~(U \subseteq {s})
  BY <1>3 DEF U
<1> QED BY <1>1, <1>2, <1>3

\* The effects connect at most twice, or disconnect; and who disconnects was connected.
LEMMA EffectsNet ==
  ASSUME Client!SocketAssumption, session \in SessionTypes, NEW n \in NetTypes, NEW v \in Client!Seen,
         NEW first \in BOOLEAN, NEW others \in BOOLEAN, Cardinality(Client!Unused(n)) >= 2
  PROVE  /\ Client!Effects(n, v, first, others) \in NetTypes
         /\ (others /\ ~v.authed /\ v.connected) => Client!Effects(n, v, first, others).conn.connected = FALSE
<1> DEFINE auto == IF first THEN Client!AutoConnect(n, v) ELSE n
           gone == Client!DisconnectEffect(auto, v)
<1>0. "hook" \in Client!Callers
  BY DEF Client!Callers
<1>1. auto \in NetTypes /\ Client!Unused(auto) # {}
  <2>1. CASE auto = n
    BY <2>1, TwoToSpare
  <2>2. CASE auto # n
    <3>1. auto = Client!Connect(n, "hook")
      BY <2>2 DEF Client!AutoConnect
    <3>2. Client!Unused(n) # {}
      BY TwoToSpare
    <3>3. /\ Client!Connect(n, "hook") \in NetTypes
          /\ \E s \in Links : Client!Unused(n) \subseteq Client!Unused(Client!Connect(n, "hook")) \cup {s}
      BY <1>0, <3>2, ConnectNet
    <3>4. PICK s \in Links : Client!Unused(n) \subseteq Client!Unused(Client!Connect(n, "hook")) \cup {s}
      BY <3>3
    <3>5. ~(Client!Unused(n) \subseteq {s})
      BY TwoToSpare
    <3> HIDE DEF auto
    <3> QED BY <3>1, <3>3, <3>4, <3>5
  <2> QED BY <2>1, <2>2
<1>2. CASE ~others
  <2>1. Client!Effects(n, v, first, others) = auto
    BY <1>2 DEF Client!Effects
  <2> HIDE DEF auto, gone
  <2> QED BY <1>1, <1>2, <2>1
<1>3. CASE others /\ v.authed
  <2>1. Client!Effects(n, v, first, others) = IF v.connected THEN auto ELSE Client!Connect(auto, "hook")
    BY <1>3 DEF Client!Effects, Client!DisconnectEffect, Client!ReconnectEffect
  <2> HIDE DEF auto, gone
  <2>2. Client!Connect(auto, "hook") \in NetTypes
    BY <1>0, <1>1, ConnectNet
  <2> QED BY <1>1, <1>3, <2>1, <2>2
<1>4. CASE others /\ ~v.authed
  <2>1. Client!Effects(n, v, first, others) = IF v.connected THEN Client!Disconnect(auto) ELSE auto
    BY <1>4 DEF Client!Effects, Client!DisconnectEffect, Client!ReconnectEffect
  <2> HIDE DEF auto, gone
  <2>2. Client!Disconnect(auto) \in NetTypes /\ Client!Disconnect(auto).conn.connected = FALSE
    BY <1>1, DisconnectNet
  <2> QED BY <1>1, <1>4, <2>1, <2>2
<1> QED BY <1>2, <1>3, <1>4

\* Whoever loses its handlers to a disconnect in another's effects is told to render.
LEMMA CommitKeeps ==
  ASSUME Client!SocketAssumption, Client!TypeOK, Client!HandlersKept, NEW k \in Components,
         NEW first \in BOOLEAN, NEW others \in BOOLEAN, Client!Commit(k, first, others), visits' \in 0..MaxVisits
  PROVE  Client!TypeOK' /\ Client!HandlersKept'
<1> DEFINE n == Client!Net
           v == Client!Now
           net == Client!Effects(n, v, first, others)
           told == net # n
<1>1. /\ n \in NetTypes /\ n.conn = conn /\ session \in SessionTypes /\ hook \in [Components -> HookTypes]
      /\ handled \subseteq Components /\ faults \in 0..MaxFaults
  BY ClientTypeParts DEF Client!Net
<1>2. v \in Client!Seen /\ v.connected = n.conn.connected
  BY <1>1, NetParts DEF Client!Now, Client!Seen, SessionTypes, ConnTypes
<1>3. /\ Cardinality(Client!Unused(n)) >= 2 /\ Client!Becomes(net)
      /\ hook' = [x \in Components |->
                    IF x = k THEN [mounted |-> TRUE, dirty |-> told, seen |-> v]
                    ELSE [hook[x] EXCEPT !.dirty = @ \/ (told /\ hook[x].mounted)]]
      /\ handled' = IF others /\ ~v.authed /\ v.connected THEN {k} ELSE handled \cup {k}
      /\ UNCHANGED <<session, faults>>
  BY SameCardinality DEF Client!Commit, Client!Registered
<1> HIDE DEF n, v
<1>4. net \in NetTypes /\ ((others /\ ~v.authed /\ v.connected) => net.conn.connected = FALSE)
  BY <1>1, <1>2, <1>3, EffectsNet
<1> HIDE DEF net
<1>5. (others /\ ~v.authed /\ v.connected) => told
  BY <1>2, <1>4
<1> HIDE DEF told
<1>6. told \in BOOLEAN
  BY DEF told
<1>7. hook' \in [Components -> HookTypes]
  <2>1. [mounted |-> TRUE, dirty |-> told, seen |-> v] \in HookTypes
    BY <1>2, <1>6 DEF HookTypes
  <2>2. \A x \in Components : [hook[x] EXCEPT !.dirty = @ \/ (told /\ hook[x].mounted)] \in HookTypes
    <3>1. \A h \in HookTypes : \A d \in BOOLEAN : [h EXCEPT !.dirty = d] \in HookTypes
      BY DEF HookTypes
    <3>2. \A x \in Components : hook[x].dirty \/ (told /\ hook[x].mounted) \in BOOLEAN
      BY <1>1, <1>6 DEF HookTypes
    <3> QED BY <1>1, <3>1, <3>2
  <2> QED BY <1>3, <2>1, <2>2
<1>8. conn' \in ConnTypes /\ sock' \in [Links -> SockTypes]
  BY <1>3, <1>4, NetParts DEF Client!Becomes
<1>9. handled' \subseteq Components /\ session' \in SessionTypes /\ faults' \in 0..MaxFaults
  BY <1>1, <1>3
<1>10. Client!TypeOK'
  BY <1>7, <1>8, <1>9 DEF Client!TypeOK, ConnTypes, SockTypes, SessionTypes, HookTypes,
     Client!States, Client!Callers, Client!Seen
<1>11. Client!HandlersKept'
  <2>1. SUFFICES ASSUME NEW x \in Components, hook'[x].mounted, ~hook'[x].dirty
                 PROVE  x \in handled'
    BY DEF Client!HandlersKept
  <2>2. CASE x = k
    BY <1>3, <2>2
  <2>3. CASE x # k
    <3>1. hook'[x] = [hook[x] EXCEPT !.dirty = @ \/ (told /\ hook[x].mounted)] /\ hook[x] \in HookTypes
      BY <1>1, <1>3, <2>3
    <3>2. hook[x].mounted /\ ~hook[x].dirty /\ ~told
      BY <2>1, <3>1 DEF HookTypes
    <3>3. x \in handled
      BY <3>2 DEF Client!HandlersKept
    <3> QED BY <1>3, <1>5, <3>2, <3>3
  <2> QED BY <2>2, <2>3
<1> QED BY <1>10, <1>11

LEMMA SomeVisit == ASSUME Client!SocketAssumption, Client!TypeOK, Client!Visit PROVE visits' \in 0..MaxVisits
<1>1. visits \in 0..MaxVisits /\ MaxVisits \in Nat
  BY ClientTypeParts DEF Client!SocketAssumption
<1> QED BY <1>1 DEF Client!Visit

LEMMA ComponentKeeps ==
  ASSUME Client!SocketAssumption, Client!TypeOK, Client!HandlersKept, NEW k \in Components,
         Client!Mount(k) \/ Client!Render(k) \/ Client!Unmount(k)
  PROVE  Client!TypeOK' /\ Client!HandlersKept'
<1>1. CASE Client!Mount(k)
  BY <1>1, SomeVisit, CommitKeeps DEF Client!Mount
<1>2. CASE Client!Render(k)
  <2> DEFINE others == Client!Reruns(hook[k].seen)
             first == others \/ hook[k].seen.connecting # Client!Now.connecting
  <2>1. Client!Commit(k, first, others) /\ UNCHANGED visits
    BY <1>2 DEF Client!Render
  <2>2. first \in BOOLEAN /\ others \in BOOLEAN
    BY DEF Client!Reruns
  <2>3. visits' \in 0..MaxVisits
    BY <2>1, ClientTypeParts
  <2> HIDE DEF first, others
  <2> QED BY <2>1, <2>2, <2>3, CommitKeeps
<1>3. CASE Client!Unmount(k)
  <2>1. /\ Client!Net \in NetTypes /\ session \in SessionTypes /\ hook \in [Components -> HookTypes]
        /\ handled \subseteq Components /\ faults \in 0..MaxFaults
    BY ClientTypeParts
  <2>2. visits' \in 0..MaxVisits
    BY <1>3, SomeVisit DEF Client!Unmount
  <2>3. /\ hook' = [hook EXCEPT ![k].mounted = FALSE, ![k].dirty = FALSE]
        /\ handled' = handled \ {k} /\ UNCHANGED <<conn, sock, session, faults>>
    BY <1>3 DEF Client!Unmount
  <2>4. hook' \in [Components -> HookTypes] /\ \A x \in Components : IF x = k THEN ~hook'[x].mounted ELSE hook'[x] = hook[x]
    BY <2>1, <2>3 DEF HookTypes
  <2>5. conn' \in ConnTypes /\ sock' \in [Links -> SockTypes]
    BY <2>1, <2>3 DEF Client!Net, NetTypes
  <2>6. Client!TypeOK'
    BY <2>1, <2>2, <2>3, <2>4, <2>5 DEF Client!TypeOK, ConnTypes, SockTypes, SessionTypes, HookTypes,
       Client!States, Client!Callers, Client!Seen
  <2> QED BY <2>3, <2>4, <2>6 DEF Client!HandlersKept
<1> QED BY <1>1, <1>2, <1>3

LEMMA UserKeeps ==
  ASSUME Client!SocketAssumption, Client!TypeOK, Client!SignIn \/ Client!SignOut
  PROVE  Client!TypeOK' /\ Client!HandlersKept'
<1>1. Client!Net \in NetTypes
  BY ClientTypeParts
<1>2. visits' \in 0..MaxVisits
  BY SomeVisit DEF Client!SignIn, Client!SignOut
<1>3. Client!Notify /\ UNCHANGED <<conn, sock, handled, faults>>
  BY DEF Client!SignIn, Client!SignOut
<1>4. session' \in SessionTypes
  <2>1. \A t \in {"none", "fresh"} : \A a \in BOOLEAN : [token |-> t, authed |-> a] \in SessionTypes
    BY DEF SessionTypes
  <2>2. \/ \E told \in BOOLEAN : session' = [token |-> "fresh", authed |-> told]
        \/ session' = [token |-> "none", authed |-> FALSE]
    BY DEF Client!SignIn, Client!SignOut, Client!SignedOut
  <2> QED BY <2>1, <2>2
<1>5. Client!Becomes(Client!Net)
  BY <1>3 DEF Client!Becomes, Client!Net
<1>6. ClientRest
  BY <1>2, <1>3, <1>4, ClientTypeParts DEF ClientRest
<1> QED BY <1>1, <1>3, <1>5, <1>6, Notified

-----------------------------------------------------------------------------
(***************************************************************************)
(* The two servers, and the theorems about both ends.                      *)
(***************************************************************************)

LEMMA ClientStep ==
  ASSUME Client!SocketAssumption, Client!TypeOK, Client!HandlersKept, Client!Next
  PROVE  Client!TypeOK' /\ Client!HandlersKept'
<1>1. CASE \E s \in Links : Client!Opened(s) \/ Client!Denied(s) \/ Client!Failed(s) \/ Client!Lost(s) \/ Client!Kicked(s)
  BY <1>1, OpenedKeeps, DeniedKeeps, FailedKeeps, LostKeeps, KickedKeeps
<1>2. CASE Client!Expire \/ Client!TimerFires \/ Client!RefreshOk \/ Client!RefreshFailed
  BY <1>2, ExpireKeeps, TimerKeeps, RefreshedKeeps, RefreshFailedKeeps
<1>3. CASE \E k \in Components : Client!Mount(k) \/ Client!Render(k) \/ Client!Unmount(k)
  BY <1>3, ComponentKeeps
<1>4. CASE Client!SignIn \/ Client!SignOut
  BY <1>4, UserKeeps
<1> QED BY <1>1, <1>2, <1>3, <1>4 DEF Client!Next

\* The server of this repository does a part of what any server may, but for what its
\* refusals say.
LEMMA AsIsStep ==
  ASSUME ClientAsIs!Next
  PROVE  Client!Next \/ \E s \in Links : ClientAsIs!Denied(s)
<1>1. /\ ClientAsIs!Net = Client!Net /\ ClientAsIs!Closed = Client!Closed /\ ClientAsIs!Now = Client!Now
      /\ ClientAsIs!Rendered = Client!Rendered /\ ClientAsIs!IsConnected = Client!IsConnected
      /\ (ClientAsIs!Notify => Client!Notify) /\ (ClientAsIs!SignedOut => Client!SignedOut)
      /\ (ClientAsIs!Fault => Client!Fault) /\ (ClientAsIs!Visit => Client!Visit)
      /\ \A n : ClientAsIs!Becomes(n) => Client!Becomes(n)
      /\ \A n : ClientAsIs!Unused(n) = Client!Unused(n)
      /\ \A k : ClientAsIs!Registered(k) = Client!Registered(k)
      /\ \A v : ClientAsIs!Reruns(v) = Client!Reruns(v)
  BY DEF ClientAsIs!Net, Client!Net, ClientAsIs!Closed, Client!Closed, ClientAsIs!Now, Client!Now,
     ClientAsIs!Rendered, Client!Rendered, ClientAsIs!IsConnected, Client!IsConnected, ClientAsIs!Notify,
     Client!Notify, ClientAsIs!SignedOut, Client!SignedOut, ClientAsIs!Fault, Client!Fault, ClientAsIs!Visit,
     Client!Visit, ClientAsIs!Becomes, Client!Becomes, ClientAsIs!Unused, Client!Unused,
     ClientAsIs!Registered, Client!Registered, ClientAsIs!Reruns, Client!Reruns
<1>2. /\ \A n, a, b : ClientAsIs!Status(n, a, b) = Client!Status(n, a, b)
      /\ \A n, a : ClientAsIs!Live(n, a) = Client!Live(n, a)
      /\ \A n : ClientAsIs!Fresh(n) = Client!Fresh(n)
  BY <1>1 DEF ClientAsIs!Status, Client!Status, ClientAsIs!Live, Client!Live, ClientAsIs!Fresh, Client!Fresh
<1>3. /\ \A n, c : ClientAsIs!Connect(n, c) = Client!Connect(n, c)
      /\ \A n : ClientAsIs!Disconnect(n) = Client!Disconnect(n)
      /\ \A n : ClientAsIs!HandleReconnect(n) = Client!HandleReconnect(n)
  BY <1>1, <1>2 DEF ClientAsIs!Connect, Client!Connect, ClientAsIs!NoToken, Client!NoToken, ClientAsIs!Disconnect,
     Client!Disconnect, ClientAsIs!HandleReconnect, Client!HandleReconnect
<1>4. \A n, v, first, others : ClientAsIs!Effects(n, v, first, others) = Client!Effects(n, v, first, others)
  BY <1>3 DEF ClientAsIs!Effects, Client!Effects, ClientAsIs!AutoConnect, Client!AutoConnect,
     ClientAsIs!DisconnectEffect, Client!DisconnectEffect, ClientAsIs!ReconnectEffect, Client!ReconnectEffect
<1>5. ASSUME NEW s, NEW n, ClientAsIs!Rejected(s, n) PROVE Client!Rejected(s, n)
  BY <1>1, <1>2, <1>5 DEF ClientAsIs!Rejected, Client!Rejected
<1>6. ASSUME NEW s \in Links,
             ClientAsIs!Opened(s) \/ ClientAsIs!Failed(s) \/ ClientAsIs!Lost(s) \/ ClientAsIs!Kicked(s)
      PROVE  Client!Opened(s) \/ Client!Failed(s) \/ Client!Lost(s)
  <2>1. ClientAsIs!OpenedNet(s) = Client!OpenedNet(s) /\ ClientAsIs!LostNet(s) = Client!LostNet(s)
    BY <1>1, <1>2 DEF ClientAsIs!OpenedNet, Client!OpenedNet, ClientAsIs!LostNet, Client!LostNet
  <2>2. CASE ClientAsIs!Opened(s)
    BY <1>1, <2>1, <2>2 DEF ClientAsIs!Opened, Client!Opened
  <2>3. CASE ClientAsIs!Failed(s)
    BY <1>1, <1>3, <1>5, <2>3 DEF ClientAsIs!Failed, Client!Failed
  <2>4. CASE ClientAsIs!Lost(s)
    BY <1>1, <2>1, <2>4 DEF ClientAsIs!Lost, Client!Lost
  <2>5. ~ClientAsIs!Kicked(s)
    BY DEF ClientAsIs!Kicked
  <2> QED BY <1>6, <2>2, <2>3, <2>4, <2>5
<1>7. ASSUME ClientAsIs!Expire \/ ClientAsIs!TimerFires \/ ClientAsIs!RefreshOk \/ ClientAsIs!RefreshFailed
      PROVE  Client!Expire \/ Client!TimerFires \/ Client!RefreshOk \/ Client!RefreshFailed
  <2>1. CASE ClientAsIs!Expire
    BY <1>1, <2>1 DEF ClientAsIs!Expire, Client!Expire
  <2>2. CASE ClientAsIs!TimerFires
    BY <1>1, <1>3, <2>2 DEF ClientAsIs!TimerFires, Client!TimerFires
  <2>3. CASE ClientAsIs!RefreshOk
    BY <1>1, <1>2, <1>3, <2>3 DEF ClientAsIs!RefreshOk, Client!RefreshOk
  <2>4. CASE ClientAsIs!RefreshFailed
    BY <1>1, <1>2, <2>4 DEF ClientAsIs!RefreshFailed, Client!RefreshFailed
  <2> QED BY <1>7, <2>1, <2>2, <2>3, <2>4
<1>8. ASSUME NEW k, NEW first, NEW others, ClientAsIs!Commit(k, first, others)
      PROVE  Client!Commit(k, first, others)
  <2>1. \A S : ClientAsIs!Cardinality(S) = Client!Cardinality(S)
    BY DEF ClientAsIs!Cardinality, Client!Cardinality
  <2> QED BY <1>1, <1>4, <1>8, <2>1 DEF ClientAsIs!Commit, Client!Commit
<1>9. ASSUME NEW k \in Components, ClientAsIs!Mount(k) \/ ClientAsIs!Render(k) \/ ClientAsIs!Unmount(k)
      PROVE  Client!Mount(k) \/ Client!Render(k) \/ Client!Unmount(k)
  <2>1. CASE ClientAsIs!Mount(k)
    BY <1>1, <1>8, <2>1 DEF ClientAsIs!Mount, Client!Mount
  <2>2. CASE ClientAsIs!Render(k)
    BY <1>1, <1>8, <2>2 DEF ClientAsIs!Render, Client!Render
  <2>3. CASE ClientAsIs!Unmount(k)
    BY <1>1, <2>3 DEF ClientAsIs!Unmount, Client!Unmount
  <2> QED BY <1>9, <2>1, <2>2, <2>3
<1>10. ASSUME ClientAsIs!SignIn \/ ClientAsIs!SignOut PROVE Client!SignIn \/ Client!SignOut
  BY <1>1, <1>10 DEF ClientAsIs!SignIn, Client!SignIn, ClientAsIs!SignOut, Client!SignOut
<1> QED BY <1>6, <1>7, <1>9, <1>10 DEF ClientAsIs!Next, Client!Next

LEMMA ClientInductive ==
  ASSUME PartsAssumptions PROVE PartsSpec => [](part # "server" => Client!TypeOK /\ Client!HandlersKept)
<1> DEFINE CInv == Client!TypeOK /\ Client!HandlersKept
<1>0. Client!SocketAssumption
  BY DEF PartsAssumptions
<1>1. PartsInit => CInv
  <2> SUFFICES ASSUME Client!Init PROVE CInv
    BY DEF PartsInit
  <2>1. 0 \in 0..MaxAttempts /\ 0 \in 0..MaxRefreshes /\ 0 \in 0..MaxFaults /\ 0 \in 0..MaxVisits
    <3>1. MaxAttempts \in Nat /\ MaxRefreshes \in Nat /\ MaxFaults \in Nat /\ MaxVisits \in Nat
      BY <1>0 DEF Client!SocketAssumption
    <3> QED BY <3>1
  <2>2. conn \in ConnTypes
    BY <2>1 DEF Client!Init, ConnTypes
  <2>3. sock \in [Links -> SockTypes]
    BY ClosedType DEF Client!Init
  <2>4. hook \in [Components -> HookTypes] /\ \A k \in Components : ~hook[k].mounted
    BY DEF Client!Init, HookTypes, Client!Seen
  <2>5. Client!TypeOK
    BY <2>1, <2>2, <2>3, <2>4 DEF Client!TypeOK, Client!Init, ConnTypes, SockTypes, HookTypes, Client!States,
       Client!Callers, Client!Seen
  <2> QED BY <2>4, <2>5 DEF Client!HandlersKept
<1>2. CInv /\ [PartsNext]_<<serverVars, clientVars, part>> => CInv'
  <2> SUFFICES ASSUME CInv, [PartsNext]_<<serverVars, clientVars, part>> PROVE CInv'
    OBVIOUS
  <2>1. Client!Next \/ ClientAsIs!Next \/ UNCHANGED clientVars
    BY DEF PartsNext
  <2>2. Client!Next \/ (\E s \in Links : ClientAsIs!Denied(s)) \/ UNCHANGED clientVars
    BY <2>1, AsIsStep
  <2>3. CASE Client!Next
    BY <1>0, <2>3, ClientStep
  <2>4. CASE \E s \in Links : ClientAsIs!Denied(s)
    BY <1>0, <2>4, DeniedKeeps
  <2>5. CASE UNCHANGED clientVars
    BY <2>5 DEF clientVars, Client!TypeOK, Client!HandlersKept
  <2> QED BY <2>2, <2>3, <2>4, <2>5
<1>3. CInv => (part # "server" => Client!TypeOK /\ Client!HandlersKept)
  OBVIOUS
<1> HIDE DEF CInv
<1> QED BY <1>1, <1>2, <1>3, PTL DEF PartsSpec

\* A component that is up to date has its handlers in eventHandlers, though any component
\* that disconnects takes everybody's out: for any number of components, sockets, faults and
\* attempts, and for a server that names 401 and closes connections or one that does neither.
THEOREM HandlersStay == ASSUME PartsAssumptions PROVE PartsSpec => []HandlersKept
<1>1. (part # "server" => Client!TypeOK /\ Client!HandlersKept) => HandlersKept
  BY DEF HandlersKept
<1> QED BY <1>1, ClientInductive, PTL

\* The types of the variables of both ends.
THEOREM BothTypesCorrect == ASSUME PartsAssumptions PROVE PartsSpec => []Typed
<1>1. PartsSpec => []TypeOK
  <2>1. ConnectionsAssumption
    BY DEF PartsAssumptions
  <2>2. PartsInit => Init
    BY DEF PartsInit
  <2>3. [PartsNext]_<<serverVars, clientVars, part>> => [Next]_vars
    BY DEF PartsNext, serverVars
  <2>4. PartsSpec => Spec
    BY <2>2, <2>3, PTL DEF PartsSpec, Spec
  <2>5. IInv => TypeOK
    BY DEF IInv
  <2> QED BY <2>1, <2>4, <2>5, Inductive, PTL
<1>2. TypeOK /\ (part # "server" => Client!TypeOK /\ Client!HandlersKept) => Typed
  BY DEF Typed
<1> QED BY <1>1, <1>2, ClientInductive, PTL

=============================================================================
