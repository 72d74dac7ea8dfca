------------------------------ MODULE MCWorkflows ------------------------------
(***************************************************************************)
(* The workflows table for TLC: what a definition may be                   *)
(* (WorkflowDefinition) and the life of the rows (WorkflowLifecycle).  The *)
(* two models share no variable: a behaviour is about one part, and the    *)
(* other stays as it starts.                                               *)
(***************************************************************************)
EXTENDS WorkflowDefinition, TLC

CONSTANTS a, b,   \* ids of nodes
          Workflows, Executions, Callers, NoWorkflow

VARIABLES status, exec, call, counted, revived,   \* WorkflowLifecycle's
          part

definitionVars == vars
lifecycleVars == <<status, exec, call, counted, revived>>

Lifecycle == INSTANCE WorkflowLifecycle

ASSUME RowsAssumption == Lifecycle!WorkflowAssumption

\* What is sent while no behaviour is about it.
Plain == [nodes |-> <<>>, connections |-> [form |-> "record", sources |-> {}, links |-> {}]]

PartsInit ==
  /\ Lifecycle!Init
  /\ \/ part = "definition" /\ Init
     \/ part = "lifecycle" /\ sent = Plain /\ row = None /\ seeded = FALSE /\ copy = None /\ answer = "none"

PartsNext ==
  \/ part = "lifecycle" /\ Lifecycle!Next /\ UNCHANGED <<definitionVars, part>>
  \/ part = "definition" /\ Next /\ UNCHANGED <<lifecycleVars, part>>

PartsSpec == PartsInit /\ [][PartsNext]_<<lifecycleVars, definitionVars, part>>

Symmetry == Permutations(Callers) \cup Permutations(Executions) \cup Permutations(Workflows) \cup Permutations({a, b})

\* A delete takes with it only such active executions as were made, or made active again,
\* after it counted them.
DeleteRaceIsNarrow == Lifecycle!DeleteRaceIsNarrow
================================================================================
