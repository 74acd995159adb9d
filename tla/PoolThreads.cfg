CONSTANTS
  a = a
  Client <- OneClient
  WorkerCount = 2
  MaxJob = 3
SPECIFICATION Spec
INVARIANT TypeOK
PROPERTIES
  RunsAsPool
  WaitAllComplete
  JobsRun
  WaitsEnd
  BusyWorkersLeave
CHECK_DEADLOCK FALSE
