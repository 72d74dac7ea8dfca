--------------------------- MODULE OptimisticUpdate ---------------------------
(***************************************************************************)
(* useOptimisticUpdate over one entry of the query cache: cancel what is   *)
(* being fetched, snapshot, show the change, send it, then take the        *)
(* server's answer or put the snapshot back.  The data is the set of the   *)
(* changes made to it.                                                     *)
(***************************************************************************)
EXTENDS FiniteSets

CONSTANT Changes   \* one update each

VARIABLES
  server, shown,   \* what the server holds, and what the query cache shows
  update,          \* pc of each change, the snapshot it took, the result it was answered
  fetching,        \* the refetch under way
  disturbed        \* updates overlapped each other or a refetch, or an answer was lost

vars == <<server, shown, update, fetching, disturbed>>

NoFetch == [stage |-> "none", data |-> {}, clean |-> FALSE]

TypeOK ==
  /\ server \subseteq Changes /\ shown \subseteq Changes
  /\ update \in [Changes -> [pc : {"new", "cancelled", "sent", "ok", "failed", "done"},
                             snapshot : SUBSET Changes, result : SUBSET Changes]]
  /\ fetching \in [stage : {"none", "sent", "answered"}, data : SUBSET Changes, clean : BOOLEAN]
  /\ disturbed \in BOOLEAN

Init ==
  /\ server = {} /\ shown = {}
  /\ update = [c \in Changes |-> [pc |-> "new", snapshot |-> {}, result |-> {}]]
  /\ fetching = NoFetch /\ disturbed = FALSE

Underway == {c \in Changes : update[c].pc \notin {"new", "done"}}

\* cancelQueries: the answer of a fetch under way is dropped.
Cancelled == NoFetch

\* await cancelQueries.
Cancel(c) ==
  /\ update[c].pc = "new"
  /\ update' = [update EXCEPT ![c].pc = "cancelled"]
  /\ fetching' = Cancelled
  /\ disturbed' = (disturbed \/ Underway # {})
  /\ UNCHANGED <<server, shown>>

\* The snapshot, the optimistic value and the call of mutationFn, in one turn.
Apply(c) ==
  /\ update[c].pc = "cancelled"
  /\ update' = [update EXCEPT ![c].pc = "sent", ![c].snapshot = shown]
  /\ shown' = shown \cup {c}
  /\ UNCHANGED <<server, fetching, disturbed>>

\* The server makes the change, or refuses it, or makes it and the answer is lost.
Mutate(c) ==
  /\ update[c].pc = "sent"
  /\ \/ /\ server' = server \cup {c}
        /\ update' = [update EXCEPT ![c].pc = "ok", ![c].result = server']
        /\ UNCHANGED disturbed
     \/ /\ server' = server
        /\ update' = [update EXCEPT ![c].pc = "failed"]
        /\ UNCHANGED disturbed
     \/ /\ server' = server \cup {c}
        /\ update' = [update EXCEPT ![c].pc = "failed"]
        /\ disturbed' = TRUE
  /\ UNCHANGED <<shown, fetching>>

\* The answer replaces the entry.
Succeed(c) ==
  /\ update[c].pc = "ok"
  /\ shown' = update[c].result
  /\ update' = [update EXCEPT ![c].pc = "done"]
  /\ UNCHANGED <<server, fetching, disturbed>>

\* Mutant: the error is passed on and nothing is put back.
MutantRolledBack(c) == shown

RolledBack(c) == update[c].snapshot

Rollback(c) ==
  /\ update[c].pc = "failed"
  /\ shown' = RolledBack(c)
  /\ update' = [update EXCEPT ![c].pc = "done"]
  /\ UNCHANGED <<server, fetching, disturbed>>

-----------------------------------------------------------------------------
\* The library refetches an entry whenever it sees fit.
Fetch ==
  /\ fetching.stage = "none"
  /\ fetching' = [stage |-> "sent", data |-> {}, clean |-> Underway = {}]
  /\ disturbed' = (disturbed \/ Underway # {})
  /\ UNCHANGED <<server, shown, update>>

FetchServed ==
  /\ fetching.stage = "sent"
  /\ fetching' = [fetching EXCEPT !.stage = "answered", !.data = server]
  /\ UNCHANGED <<server, shown, update, disturbed>>

FetchArrives ==
  /\ fetching.stage = "answered"
  /\ shown' = fetching.data
  /\ fetching' = NoFetch
  /\ disturbed' = (disturbed /\ ~fetching.clean)
  /\ UNCHANGED <<server, update>>

Next ==
  \/ \E c \in Changes : Cancel(c) \/ Apply(c) \/ Mutate(c) \/ Succeed(c) \/ Rollback(c)
  \/ Fetch \/ FetchServed \/ FetchArrives

Spec == Init /\ [][Next]_vars

-----------------------------------------------------------------------------
\* One update at a time, no refetch meanwhile and no answer lost: what is shown in the end
\* is what the server holds, whether the update succeeded or was rolled back.
AloneAgrees == Underway = {} /\ fetching = NoFetch /\ ~disturbed => shown = server
=============================================================================
