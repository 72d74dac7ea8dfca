SPECIFICATION PartsSpec
CONSTANTS
  None = None
  Users = {user1}
  Endpoints = {"workflows", "executions"}
  Callers = {c1, c2}
  Clears <- Own
  Changes <- Made
  MaxVersion = 1
  MaxLogins = 1
  Flows = {w1, w2}
  Calls = {c1, c2}
  Fetches = {f1, f2, f3}
  Texts = {"t1", "t2"}
  PerPage = 1
  Tokens = {token1, token2}
  NoToken = NoToken
  MaxQueue = 2
  MaxRuns = 3
  MaxFailures = 1
  MaxClicks = 4
  MaxTableClicks = 2
  MaxTableRuns = 2
  MaxRetries = 4
  Cap = 4
SYMMETRY Symmetry
INVARIANTS SpinnersAreUnderWay ShownIsTrue PendingIsUnderWay StaleHasReason AloneAgrees
PROPERTY ErrorsJudged
CHECK_DEADLOCK FALSE
