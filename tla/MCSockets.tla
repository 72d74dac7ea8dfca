---------------------------- MODULE MCSockets ---------------------------------
(***************************************************************************)
(* The two ends of the live connection, for TLC: the sockets that the      *)
(* server keeps (Connections) and the browser's (ClientSocket).  The       *)
(* models share no variable: a behaviour is about one of them, and the     *)
(* other stays as it starts.                                               *)
(***************************************************************************)
EXTENDS Connections, TLC

CONSTANTS
  Components, Links, None,   \* Links: the sockets of the browser
  MaxAttempts, MaxRefreshes, MaxFaults, MaxVisits

VARIABLES
  conn, sock, session, hook, handled, faults, visits,
  part

serverVars == vars
clientVars == <<conn, sock, session, hook, handled, faults, visits>>

Client == INSTANCE ClientSocket WITH
  Sockets <- Links, Says401 <- TRUE, MayKick <- TRUE

\* The browser's with the server of this repository, which says neither "401" nor
\* "unauthorized" and closes no connection.
ClientAsIs == INSTANCE ClientSocket WITH
  Sockets <- Links, Says401 <- FALSE, MayKick <- FALSE

ASSUME PartsAssumptions == ConnectionsAssumption /\ Client!SocketAssumption

PartsInit == Init /\ Client!Init /\ part \in {"server", "client", "clientAsIs"}

PartsNext ==
  \/ part = "server" /\ Next /\ UNCHANGED <<clientVars, part>>
  \/ part = "client" /\ Client!Next /\ UNCHANGED <<serverVars, part>>
  \/ part = "clientAsIs" /\ ClientAsIs!Next /\ UNCHANGED <<serverVars, part>>

PartsSpec == PartsInit /\ [][PartsNext]_<<serverVars, clientVars, part>>

Symmetry == Permutations(Components) \cup Permutations(Links)

\* The types of the variables of both models.
Typed == TypeOK /\ (part # "server" => Client!TypeOK)

\* A mounted component that has nothing left to render has its handlers registered.
HandlersKept == part # "server" => Client!HandlersKept
================================================================================
