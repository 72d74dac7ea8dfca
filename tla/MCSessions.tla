------------------------------ MODULE MCSessions ------------------------------
(***************************************************************************)
(* Who is signed in and who is told what, for TLC: the refresh tokens of   *)
(* the server (RefreshTokens), the tabs of a browser (ClientSession) and   *)
(* what the server tells its sockets (LiveUpdates).  The models share no   *)
(* variable: a behaviour is about one of them, and the others stay as they *)
(* start.                                                                  *)
(***************************************************************************)
EXTENDS RefreshTokens, TLC

CONSTANTS
  People,    \* users with sockets
  Tabs,      \* of the browser; as many requests are under way on the server
  Lists, MaxPairs, MaxReloads,                                               \* ClientSession's
  Executions, Sockets, NoExecution, MaxWrites, MaxPipe, MaxDrops             \* LiveUpdates'

VARIABLES
  held, pairOwner, live, made, auth, task, lost, reloads,
  row, writer, sock, rooms, asking, pipe, view, wants, crossed, missed, writes, drops,
  part

tokenVars == vars
tabVars == <<held, pairOwner, live, made, auth, task, lost, reloads>>
updateVars == <<row, writer, sock, rooms, asking, pipe, view, wants, crossed, missed, writes, drops>>

Browser == INSTANCE ClientSession WITH owner <- pairOwner, Nested <- TRUE, HasMe <- TRUE

\* The tabs with the server of this repository, whose answer to a login has its tokens
\* elsewhere, and which has no route for /auth/me.
BrowserAsIs == INSTANCE ClientSession WITH owner <- pairOwner, Nested <- FALSE, HasMe <- FALSE

\* Two calls of the service at a time.
Updates == INSTANCE LiveUpdates WITH Users <- People, Writers <- Tabs

ASSUME PartsAssumptions ==
  TokenAssumption /\ Browser!SessionAssumption /\ Updates!LiveUpdatesAssumption

PartsInit ==
  /\ Init /\ Browser!Init /\ Updates!Init
  /\ part \in {"tokens", "tabs", "tabsAsIs", "updates"}

PartsNext ==
  \/ part = "tokens" /\ Next /\ UNCHANGED <<tabVars, updateVars, part>>
  \/ part = "tabs" /\ Browser!Next /\ UNCHANGED <<tokenVars, updateVars, part>>
  \/ part = "tabsAsIs" /\ BrowserAsIs!Next /\ UNCHANGED <<tokenVars, updateVars, part>>
  \/ part = "updates" /\ Updates!Next /\ UNCHANGED <<tokenVars, tabVars, part>>

PartsSpec == PartsInit /\ [][PartsNext]_<<tokenVars, tabVars, updateVars, part>>

Symmetry == Permutations(Tabs) \cup Permutations(People) \cup Permutations(Requests)

\* The types of the variables of all three models.
Typed ==
  /\ TypeOK
  /\ part \in {"tabs", "tabsAsIs"} => Browser!TypeOK
  /\ part = "updates" => Updates!TypeOK

\* A tab never goes on with a pair whose refresh token is used up, unless the answer to
\* the refresh that used it is still awaited, or a reload has lost it.
HeldIsUnused == part \in {"tabs", "tabsAsIs"} => Browser!HeldIsUnused

\* When the announcements of an execution did not overlap and the tab missed none, what it
\* shows in the end is what the row says.
ViewsConverge == part = "updates" => Updates!ViewsConverge
================================================================================
