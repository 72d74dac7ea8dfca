SPECIFICATION PartsSpec
CONSTANTS
  NoExecution = NoExecution
  NoUser = NoUser
  user1 = user1
  socket1 = socket1
  Executions = {e1, e2}
  Callers = {c1, c2}
  Writers = {k1, k2}
  MaxDeliveries = 1
  MaxFaults = 0
PROPERTIES PendingIsStarted OwnerHears
CHECK_DEADLOCK FALSE
