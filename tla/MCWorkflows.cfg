SPECIFICATION PartsSpec
CONSTANTS
  None = None
  a = a
  b = b
  Empty = Empty
  Ids = {a, b, Empty}
  Parameters = {"code"}
  Dangerous = {"code"}
  MaxNodes = 2
  MaxLinks = 1
  NoWorkflow = NoWorkflow
  Workflows = {w1, w2}
  Executions = {e1, e2}
  Callers = {c1, c2}
SYMMETRY Symmetry
INVARIANTS StoredIsFixed ValidIsGraph
PROPERTIES DeleteRaceIsNarrow
CHECK_DEADLOCK FALSE
