SPECIFICATION PartsSpec
CONSTANTS
  None = None
  user1 = user1
  Flows = {w1}
  Calls = {c1, c2}
  Texts = {"t1"}
  PerPage = 1
  Mended = {"query", "spelling", "patch", "body"}
  MaxFailures = 1
  MaxClicks = 3
PROPERTIES CallsEnd Reconnects SpinnersEnd
CHECK_DEADLOCK FALSE
