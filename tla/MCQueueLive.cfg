SPECIFICATION LiveSpec
CONSTANTS
  e1 = e1  e2 = e2  e3 = e3
  j1 = j1  j2 = j2  j3 = j3  j4 = j4  j5 = j5  j6 = j6
  c1 = c1  c2 = c2
  NoExecution = NoExecution
  NoJob = NoJob
  Executions <- MCExecutions1
  Jobs <- MCJobs3
  Clients <- MCClients1
  MaxConcurrentOption = 1
  DefaultRetriesOption = 1
  Priorities = {0}
  RequestedRetries = {0}
  MaxFaults = 0
  MaxRestarts = 0
PROPERTIES SlotsFreed RunningSettles
CHECK_DEADLOCK FALSE
