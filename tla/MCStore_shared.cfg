SPECIFICATION Spec
CONSTANTS
  None = None
  t1 = t1
  t2 = t2
  t3 = t3
  server = server
  cli = cli
  s1 = s1
  s2 = s2
  s3 = s3
  Actions = {"export"}
  Threads <- SharedThreads
  Host <- SharedHost
  Processes = {server, cli}
  ScanIds = {s1, s2}
  MaxClock = 1
  MaxEntries = 1
  MaxFaults = 2
SYMMETRY ScanSymmetry
INVARIANTS
  TypeOK
  LockDiscipline
  UnloggedAccounted
PROPERTIES
  LedgerSpec
  CurrentNeverGoesBack
CHECK_DEADLOCK FALSE
