--------------------------- MODULE SessionRegistry ---------------------------
(***************************************************************************)
(* What the connection manager promises: a set of sessions of users on     *)
(* sockets, in which a socket has one session at most, enters once and     *)
(* leaves alone.                                                           *)
(***************************************************************************)
CONSTANTS Users, Sockets

VARIABLE sessions

Init == sessions = {}

Enter(s, u) ==
  /\ \A v \in Users : <<s, v>> \notin sessions
  /\ sessions' = sessions \cup {<<s, u>>}

Leave(s, u) == <<s, u>> \in sessions /\ sessions' = sessions \ {<<s, u>>}

Next == \E s \in Sockets, u \in Users : Enter(s, u) \/ Leave(s, u)

Spec == Init /\ [][Next]_sessions
=============================================================================
