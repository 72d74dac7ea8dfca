-------------------------- MODULE MCExecutionQueue --------------------------
(***************************************************************************)
(* Instances of ExecutionQueue for TLC.                                    *)
(***************************************************************************)
EXTENDS ExecutionQueue

CONSTANTS e1, e2, e3, j1, j2, j3, j4, j5, j6, c1, c2

MCExecutions1 == {e1}
MCExecutions2 == {e1, e2}
MCExecutions3 == {e1, e2, e3}
MCJobs3 == {j1, j2, j3}
MCJobs4 == {j1, j2, j3, j4}
MCJobs5 == {j1, j2, j3, j4, j5}
MCJobs6 == {j1, j2, j3, j4, j5, j6}
MCClients0 == {}
MCClients1 == {c1}
MCClients2 == {c1, c2}

JobSymmetry == Permutations(Jobs)
=============================================================================
