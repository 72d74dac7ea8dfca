------------------------------ MODULE MCExecutions ------------------------------
(***************************************************************************)
(* The executions table as it is written (ExecutionLifecycle) and read     *)
(* (ExecutionListing), for TLC.  The two models share no variable: a       *)
(* behaviour is about one part, and the others stay as they start, so that *)
(* the states of the parts add up instead of being multiplied.             *)
(***************************************************************************)
EXTENDS ExecutionLifecycle, TLC

CONSTANTS
  u1, u2, f1, f2,            \* two users, each with a workflow
  MaxRows, MaxChanges, Limits, MaxTake, ExportLimit, SampleSize,  \* bounds of one read
  WalkRows, WalkChanges, WalkLimits, WalkTake, WalkExport, WalkSample  \* and of the walks and counts

VARIABLES rows, next, req, walk, changes,   \* ExecutionListing's
          part

lifecycleVars == vars
listingVars == <<rows, next, req, walk, changes>>

MCOwner == (f1 :> u1) @@ (f2 :> u2)

\* Every kind of read, with the table changed between its queries.
Reads == INSTANCE ExecutionListing WITH
  None <- NoExecution, Users <- {u1, u2}, Flows <- {f1, f2}, Owner <- MCOwner,
  Sorts <- {"startedAt", "status"},
  Kinds <- {"list", "workflow", "recent", "running", "export", "analytics"}, ColumnsMatch <- TRUE

\* A reader who turns the pages of a list, with two changes on the way.
Walks == INSTANCE ExecutionListing WITH
  None <- NoExecution, Users <- {u1, u2}, Flows <- {f1, f2}, Owner <- MCOwner,
  MaxRows <- WalkRows, MaxChanges <- WalkChanges, Limits <- WalkLimits, MaxTake <- WalkTake,
  ExportLimit <- WalkExport, SampleSize <- WalkSample, Sorts <- {"startedAt"},
  Kinds <- {"list", "workflow"}, ColumnsMatch <- TRUE

\* The counts of an analysis, with a change between them.
Counts == INSTANCE ExecutionListing WITH
  None <- NoExecution, Users <- {u1, u2}, Flows <- {f1, f2}, Owner <- MCOwner,
  MaxRows <- WalkRows, ExportLimit <- WalkExport, SampleSize <- WalkSample, Sorts <- {"startedAt"},
  Kinds <- {"analytics"}, ColumnsMatch <- TRUE

\* The same with the columns as the raw query names them, which are not those of the table.
AsIs == INSTANCE ExecutionListing WITH
  None <- NoExecution, Users <- {u1, u2}, Flows <- {f1, f2}, Owner <- MCOwner,
  Sorts <- {"startedAt"},
  Kinds <- {"list", "analytics"}, ColumnsMatch <- FALSE

ASSUME ReadAssumptions == Reads!ListingAssumption /\ Walks!ListingAssumption /\ Counts!ListingAssumption

PartsInit ==
  /\ Init
  /\ \/ part = "lifecycle" /\ Reads!Init /\ rows = {}
     \/ part = "reads" /\ Reads!Init
     \/ part = "walks" /\ Walks!Init
     \/ part = "counts" /\ Counts!Init
     \/ part = "asIs" /\ AsIs!Init

PartsNext ==
  \/ part = "lifecycle" /\ Next /\ UNCHANGED <<listingVars, part>>
  \/ part = "reads" /\ Reads!Next /\ UNCHANGED <<lifecycleVars, part>>
  \/ part = "walks" /\ Walks!Next /\ UNCHANGED <<lifecycleVars, part>>
  \/ part = "counts" /\ Counts!Next /\ UNCHANGED <<lifecycleVars, part>>
  \/ part = "asIs" /\ AsIs!Next /\ UNCHANGED <<lifecycleVars, part>>

PartsSpec == PartsInit /\ [][PartsNext]_<<lifecycleVars, listingVars, part>>

\* The callers change places, and the users with their workflows.
Symmetry == Permutations(Callers) \cup {(u1 :> u2) @@ (u2 :> u1) @@ (f1 :> f2) @@ (f2 :> f1)}

\* The types of the variables of both models.
Typed == TypeOK /\ (part = "reads" => Reads!TypeOK)

\* The queries of one read make one picture.  With nothing changed while the pages are turned,
\* every execution of the filter is shown once, the newest first; while executions only come,
\* pages may repeat one and never leave one out in the middle; and with nothing changed
\* meanwhile, the five answers of the analytics are of one table.
ReadsAgree ==
  /\ part = "walks" => Walks!WalkComplete /\ Walks!NoHole
  /\ part \in {"counts", "asIs"} => Counts!CountsAgree
=================================================================================
