SPECIFICATION FairSpec
CONSTANTS
  None = None
  t1 = t1
  t2 = t2
  t3 = t3
  server = server
  cli = cli
  s1 = s1
  s2 = s2
  s3 = s3
  Actions = {"export"}
  Threads <- ServerThreads
  Host <- ServerHost
  Processes = {server}
  ScanIds = {s1, s2}
  MaxClock = 2
  MaxEntries = 2
  MaxFaults = 1
INVARIANTS
  AuditInTimeOrder
PROPERTIES
  EveryCallReturns
CHECK_DEADLOCK FALSE
