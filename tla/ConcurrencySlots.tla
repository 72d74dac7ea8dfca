-------------------------- MODULE ConcurrencySlots --------------------------
(***************************************************************************)
(* What the option maxConcurrentExecutions promises, with no queue, timer, *)
(* retry or database in sight: executions occupy slots, never more than    *)
(* Limit, taken one at a time and given back one at a time, or all at once *)
(* when the process dies.                                                  *)
(***************************************************************************)
EXTENDS Naturals, FiniteSets

CONSTANTS Executions, Limit

VARIABLE occupied

Init == occupied = {}

Claim(e) ==
  /\ Cardinality(occupied) < Limit
  /\ occupied' = occupied \cup {e}

Release(e) ==
  /\ e \in occupied
  /\ occupied' = occupied \ {e}

ReleaseAll == occupied' = {}

Next == (\E e \in Executions : Claim(e) \/ Release(e)) \/ ReleaseAll

Spec == Init /\ [][Next]_occupied

\* A slot is not held for ever.
Freed == \A e \in Executions : e \in occupied ~> e \notin occupied
=============================================================================
