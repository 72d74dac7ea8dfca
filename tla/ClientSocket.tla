------------------------------ MODULE ClientSocket ------------------------------
(***************************************************************************)
(* The browser's live connection: websocket.service, which holds one       *)
(* socket.io socket, and useWebSocketConnection, through which every       *)
(* mounted component that monitors executions connects it.  socket.io      *)
(* brings a lost transport back by itself; the service has its own timers  *)
(* for that, and the hook its effects.                                     *)
(***************************************************************************)
EXTENDS Naturals, FiniteSets

CONSTANTS
  Components,      \* components that use the hook
  Sockets, None,   \* bound: sockets there may be at once
  MaxAttempts,     \* maxReconnectAttempts, 5 in the code
  MaxRefreshes,    \* bound: refreshes under way at once
  MaxFaults,       \* bound: transports lost, attempts failed, tokens expired
  MaxVisits,       \* bound: mounts, unmounts, sign-ins and sign-outs
  Says401,         \* a denied token is answered with "401" or "unauthorized"
  MayKick          \* the server closes connections, which the one of this repository does not

SocketAssumption ==
  None \notin Sockets /\ {MaxAttempts, MaxRefreshes, MaxFaults, MaxVisits} \subseteq Nat /\ {Says401, MayKick} \subseteq BOOLEAN

VARIABLES
  conn,     \* websocketService, and realTimeUpdates of the store
  sock,     \* every socket made
  session,  \* the access token in localStorage and isAuthenticated of the store
  hook,     \* the hook of each component
  handled,  \* components whose handlers are in eventHandlers
  faults, visits

vars == <<conn, sock, session, hook, handled, faults, visits>>

States == {"trying", "open", "dead"}
Callers == {"settled", "hook", "timer", "refresh"}

Seen == [connected : BOOLEAN, connecting : BOOLEAN, authed : BOOLEAN]

TypeOK ==
  /\ conn \in [cur : Sockets \cup {None}, connected : BOOLEAN, connecting : BOOLEAN, live : BOOLEAN,
               attempts : 0..MaxAttempts, timers : Nat, refreshes : 0..MaxRefreshes]
  /\ sock \in [Sockets -> [state : States, fresh : BOOLEAN, caller : Callers]]
  /\ session \in [token : {"none", "stale", "fresh"}, authed : BOOLEAN]
  /\ hook \in [Components -> [mounted : BOOLEAN, dirty : BOOLEAN, seen : Seen]]
  /\ handled \subseteq Components
  /\ faults \in 0..MaxFaults /\ visits \in 0..MaxVisits

Closed == [state |-> "dead", fresh |-> FALSE, caller |-> "settled"]

Init ==
  /\ conn = [cur |-> None, connected |-> FALSE, connecting |-> FALSE, live |-> FALSE,
             attempts |-> 0, timers |-> 0, refreshes |-> 0]
  /\ sock = [s \in Sockets |-> Closed]
  /\ session = [token |-> "none", authed |-> FALSE]
  /\ hook = [k \in Components |-> [mounted |-> FALSE, dirty |-> FALSE,
                                   seen |-> [connected |-> FALSE, connecting |-> FALSE, authed |-> FALSE]]]
  /\ handled = {} /\ faults = 0 /\ visits = 0

IsConnected == conn.cur # None /\ sock[conn.cur].state = "open"

-----------------------------------------------------------------------------
\* The service.  A net is the pair of conn and sock, which one step may change more than once.

Net == [conn |-> conn, sock |-> sock]
Becomes(net) == conn' = net.conn /\ sock' = net.sock

\* updateConnectionStatus.
Status(net, connected, connecting) == [net EXCEPT !.conn.connected = connected, !.conn.connecting = connecting]
Live(net, live) == [net EXCEPT !.conn.live = live]

Unused(net) == {s \in Sockets : net.sock[s].state = "dead"}
Fresh(net) == CHOOSE s \in Unused(net) : TRUE

NoToken(net) == Status(net, FALSE, FALSE)

\* connect: the socket the service held is not closed.
Connect(net, caller) ==
  IF session.token = "none"
  THEN NoToken(net)
  ELSE LET s == Fresh(net)
       IN [Status(net, FALSE, TRUE) EXCEPT
             !.conn.cur = s,
             !.sock[s] = [state |-> "trying", fresh |-> session.token = "fresh", caller |-> caller]]

Disconnect(net) ==
  LET c == net.conn.cur
      closed == IF c = None THEN net ELSE [net EXCEPT !.sock[c] = Closed, !.conn.cur = None]
  IN Live(Status(closed, FALSE, FALSE), FALSE)

\* Mutant: the count of attempts is not looked at.
MutantHandleReconnect(net) ==
  [Status(net, FALSE, TRUE) EXCEPT !.conn.attempts = @ + 1, !.conn.timers = @ + 1]

HandleReconnect(net) ==
  IF net.conn.attempts >= MaxAttempts
  THEN Status(net, FALSE, FALSE)
  ELSE [Status(net, FALSE, TRUE) EXCEPT !.conn.attempts = @ + 1, !.conn.timers = @ + 1]

\* updateConnectionStatus calls back every mounted hook, and disconnect has removed all handlers.
Notify == hook' = [k \in Components |-> [hook[k] EXCEPT !.dirty = hook[k].mounted]]

SignedOut == session' = [token |-> "none", authed |-> FALSE]

-----------------------------------------------------------------------------
\* What a socket s reports.

OpenedNet(s) ==
  Live(Status([Net EXCEPT !.sock[s] = [@ EXCEPT !.state = "open", !.caller = "settled"],
                          !.conn.attempts = 0], TRUE, FALSE), TRUE)

Opened(s) ==
  /\ sock[s].state = "trying" /\ sock[s].fresh
  /\ Becomes(OpenedNet(s))
  /\ Notify
  /\ UNCHANGED <<session, handled, faults, visits>>

\* connect_error rejects the promise of connect, once: a timer's connect then reports that
\* it does not connect, handleAuthError's signs the user out.
Rejected(s, net) ==
  LET caller == sock[s].caller
      settled == [net EXCEPT !.sock[s].caller = "settled"]
  IN /\ Becomes(IF caller \in {"timer", "refresh"} THEN Status(settled, FALSE, FALSE) ELSE settled)
     /\ IF caller = "refresh" THEN SignedOut ELSE UNCHANGED session
     /\ Notify
     /\ UNCHANGED <<handled, visits>>

\* The server refuses the token; socket.io does not try again.
Denied(s) ==
  LET dead == [Net EXCEPT !.sock[s] = Closed]
  IN /\ sock[s].state = "trying" /\ ~sock[s].fresh /\ conn.refreshes < MaxRefreshes
     /\ Rejected(s, IF Says401
                    THEN [Status(dead, FALSE, FALSE) EXCEPT !.conn.refreshes = @ + 1]
                    ELSE HandleReconnect(dead))
     /\ UNCHANGED faults

Fault == faults < MaxFaults /\ faults' = faults + 1

\* The transport cannot be opened; socket.io goes on trying.
Failed(s) ==
  /\ sock[s].state = "trying" /\ Fault
  /\ Rejected(s, HandleReconnect(Net))

LostNet(s) == Live(Status([Net EXCEPT !.sock[s].state = "trying"], FALSE, FALSE), FALSE)

\* The transport is lost, and socket.io tries to bring it back.
Lost(s) ==
  /\ sock[s].state = "open" /\ Fault
  /\ Becomes(LostNet(s))
  /\ Notify
  /\ UNCHANGED <<session, handled, visits>>

\* The server closes the connection ("io server disconnect"): socket.io leaves it closed.
Kicked(s) ==
  /\ MayKick /\ sock[s].state = "open" /\ Fault
  /\ Becomes(HandleReconnect(Live(Status([Net EXCEPT !.sock[s] = Closed], FALSE, FALSE), FALSE)))
  /\ Notify
  /\ UNCHANGED <<session, handled, visits>>

Expire ==
  /\ session.token = "fresh" /\ Fault
  /\ session' = [session EXCEPT !.token = "stale"]
  /\ sock' = [s \in Sockets |-> [sock[s] EXCEPT !.fresh = FALSE]]
  /\ UNCHANGED <<conn, hook, handled, visits>>

-----------------------------------------------------------------------------
\* The service's timers and its refresh of the token.

\* A delay is a second or more: what was to be rendered has been.  A user takes as long.
Rendered == \A k \in Components : ~hook[k].dirty

TimerFires ==
  LET fired == [Net EXCEPT !.conn.timers = @ - 1]
  IN /\ conn.timers > 0 /\ Unused(Net) # {} /\ Rendered
     /\ Becomes(IF IsConnected THEN fired ELSE Connect(fired, "timer"))
     /\ IF IsConnected THEN UNCHANGED hook ELSE Notify
     /\ UNCHANGED <<session, handled, faults, visits>>

\* refreshToken needs a refresh token, which a sign-out has removed.
RefreshOk ==
  LET done == Disconnect([Net EXCEPT !.conn.refreshes = @ - 1])
      s == Fresh(done)
  IN /\ conn.refreshes > 0 /\ session.token # "none" /\ Unused(done) # {}
     /\ session' = [session EXCEPT !.token = "fresh"]
     /\ Becomes([Status(done, FALSE, TRUE) EXCEPT
                   !.conn.cur = s,
                   !.sock[s] = [state |-> "trying", fresh |-> TRUE, caller |-> "refresh"]])
     /\ handled' = {}
     /\ Notify
     /\ UNCHANGED <<faults, visits>>

RefreshFailed ==
  /\ conn.refreshes > 0
  /\ Becomes(Status([Net EXCEPT !.conn.refreshes = @ - 1], FALSE, FALSE))
  /\ SignedOut
  /\ Notify
  /\ UNCHANGED <<handled, faults, visits>>

-----------------------------------------------------------------------------
\* The hook of a component k.

Now == [connected |-> conn.connected, connecting |-> conn.connecting, authed |-> session.authed]

\* The effects of a commit, with the values it was rendered with: connect when idle, disconnect
\* when signed out, connect whenever not connected.  The first runs again when one of the three
\* values changed, the others when connected or isAuthenticated did.
AutoConnect(net, n) ==
  IF n.authed /\ ~n.connected /\ ~n.connecting THEN Connect(net, "hook") ELSE net

DisconnectEffect(net, n) ==
  IF ~n.authed /\ n.connected THEN Disconnect(net) ELSE net

ReconnectEffect(net, n) ==
  IF n.authed /\ ~n.connected THEN Connect(net, "hook") ELSE net

Effects(net, n, first, others) ==
  LET auto == IF first THEN AutoConnect(net, n) ELSE net
  IN IF others THEN ReconnectEffect(DisconnectEffect(auto, n), n) ELSE auto

\* Mutant: the handlers are registered at mount only.
MutantRegistered(k) == IF hook[k].mounted THEN handled ELSE handled \cup {k}

\* The handlers are made anew at every render, and registered again.
Registered(k) == handled \cup {k}

Commit(k, first, others) ==
  LET net == Effects(Net, Now, first, others)
      told == net # Net
  IN /\ Cardinality(Unused(Net)) >= 2
     /\ Becomes(net)
     /\ hook' = [x \in Components |->
                   IF x = k THEN [mounted |-> TRUE, dirty |-> told, seen |-> Now]
                   ELSE [hook[x] EXCEPT !.dirty = @ \/ (told /\ hook[x].mounted)]]
     /\ handled' = IF others /\ ~Now.authed /\ Now.connected THEN {k} ELSE Registered(k)
     /\ UNCHANGED <<session, faults>>

Visit == Rendered /\ visits < MaxVisits /\ visits' = visits + 1

Mount(k) == ~hook[k].mounted /\ Visit /\ Commit(k, TRUE, TRUE)

\* Mutant: isAuthenticated is missing from the dependencies.
MutantReruns(seen) == seen.connected # Now.connected

Reruns(seen) == seen.connected # Now.connected \/ seen.authed # Now.authed

Render(k) ==
  LET seen == hook[k].seen
  IN /\ hook[k].mounted /\ hook[k].dirty
     /\ Commit(k, Reruns(seen) \/ seen.connecting # Now.connecting, Reruns(seen))
     /\ UNCHANGED visits

\* The socket stays.
Unmount(k) ==
  /\ hook[k].mounted /\ Visit
  /\ hook' = [hook EXCEPT ![k].mounted = FALSE, ![k].dirty = FALSE]
  /\ handled' = handled \ {k}
  /\ UNCHANGED <<conn, sock, session, faults>>

\* The token is stored, and the store is told who signed in, or is not: the reducer is there,
\* and nothing in this repository dispatches its action.
SignIn ==
  /\ session.token = "none" /\ Visit
  /\ \E told \in BOOLEAN : session' = [token |-> "fresh", authed |-> told]
  /\ Notify
  /\ UNCHANGED <<conn, sock, handled, faults>>

SignOut ==
  /\ session.token # "none" /\ Visit
  /\ SignedOut
  /\ Notify
  /\ UNCHANGED <<conn, sock, handled, faults>>

Next ==
  \/ \E s \in Sockets : Opened(s) \/ Denied(s) \/ Failed(s) \/ Lost(s) \/ Kicked(s)
  \/ Expire \/ TimerFires \/ RefreshOk \/ RefreshFailed
  \/ \E k \in Components : Mount(k) \/ Render(k) \/ Unmount(k)
  \/ SignIn \/ SignOut

Spec == Init /\ [][Next]_vars

\* socket.io ends each attempt, timers fire, a refresh is answered and React commits.
FairSpec ==
  /\ Spec
  /\ \A s \in Sockets : WF_vars(Opened(s) \/ Denied(s))
  /\ WF_vars(TimerFires) /\ WF_vars(RefreshOk \/ RefreshFailed)
  /\ \A k \in Components : WF_vars(Render(k))

-----------------------------------------------------------------------------
\* A component that has nothing left to render has its handlers registered, though disconnect
\* removes everyone's: the status it sets makes every component render, and so register, again.
HandlersKept == \A k \in Components : hook[k].mounted /\ ~hook[k].dirty => k \in handled

\* The connection is brought up for a user whom the store knows, and with a server that does
\* not say that a token has expired, for as long as it has not: nothing here asks for another.
Wanted == session.authed /\ (Says401 \/ session.token = "fresh")

\* A component never shows "connecting" with nothing under way that could end it.
ConnectingIsUnderWay ==
  conn.connecting /\ (Says401 \/ Wanted) =>
    \/ conn.timers > 0 \/ conn.refreshes > 0
    \/ \E s \in Sockets : sock[s].state = "trying"
    \/ \E k \in Components : hook[k].dirty

\* While a component is mounted and a connection wanted, it comes up.
ComesUp ==
  \A k \in Components : hook[k].mounted /\ Wanted ~> conn.connected \/ ~hook[k].mounted \/ ~Wanted

\* With a server that closes no connection, somebody always works on a connection that is not
\* up, and brings it up.
Reconnects == []ConnectingIsUnderWay /\ ComesUp
=============================================================================
