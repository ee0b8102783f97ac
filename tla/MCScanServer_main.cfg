SPECIFICATION FairSpec
CONSTANTS
  None = None
  Unusable = Unusable
  Malformed = Malformed
  r1 = r1
  r2 = r2
  r3 = r3
  Requests = {r1, r2}
  Kinds = {"upload", "repo", "paths", "command", "settings", "export"}
  Values = {1, 2}
  FilePolicy <- File
  Bodies <- AllBodies
  Keep = 1
  NScanners = 1
  NAssets = 2
  MaxCrashes = 2
CHECK_DEADLOCK FALSE
INVARIANTS
  TypeOK
  AnsweredIsDurable
PROPERTIES
  StoreIsALedger
  EveryRequestAnswered
