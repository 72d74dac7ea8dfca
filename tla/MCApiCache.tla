----------------------------- MODULE MCApiCache -----------------------------
(***************************************************************************)
(* An instance of ApiCache for TLC, and what a comment of the client says  *)
(* of its cache that the code does not keep.                               *)
(***************************************************************************)
EXTENDS ApiCache

\* One resource, each mutation changing its own.
Own == [e \in Endpoints |-> {e}]

\* "Clear related cache entries on mutations": once everything is answered, no entry is
\* older than what the tab itself has changed.
MutationInvalidates ==
  (\A c \in Callers : ~UnderWay(c))
    => \A e \in Endpoints : cache[e] # None => cache[e].version = version[e]
=============================================================================
