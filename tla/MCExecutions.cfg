SPECIFICATION PartsSpec
CONSTANTS
  NoExecution = NoExecution
  Executions = {e1, e2}
  Callers = {c1, c2}
  MaxDeliveries = 2
  MaxFaults = 1
  u1 = u1
  u2 = u2
  f1 = f1
  f2 = f2
  MaxRows = 2
  MaxChanges = 1
  Limits = {1}
  MaxTake = 2
  ExportLimit = 2
  SampleSize = 2
  WalkRows = 3
  WalkChanges = 2
  WalkLimits = {1, 2}
  WalkTake = 2
  WalkExport = 3
  WalkSample = 3
SYMMETRY Symmetry
INVARIANTS Typed FinishedHasTime SuccessIsReported ActiveHasOwner ReadsAgree
PROPERTY SettledStays
CHECK_DEADLOCK FALSE
