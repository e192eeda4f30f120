SPECIFICATION FairSpec
CONSTANTS
  Keys <- MCKeys
  Missing = Missing
  Clients = 3
  Requests = 4
  Warmup = 1
  Keyspace = 1
  Workloads <- MCWorkloads
  Backends <- MCBackends
  Value = "x"
  Leftover = "NULL"
INVARIANTS
  TimedWhole
  ReturnsAlone
  ReportsEveryOperation
  
  BrokenNeverUsed
PROPERTIES
  Ends
\* The benchmark ends.
CHECK_DEADLOCK FALSE
