SPECIFICATION Spec
CONSTANTS
  None = None
  Unusable = Unusable
  Malformed = Malformed
  r1 = r1
  r2 = r2
  r3 = r3
  Requests = {r1, r2}
  Kinds = {"repo", "settings"}
  Values = {1, 2}
  FilePolicy <- File
  Bodies <- HalfWrong
  Keep = 1
  NScanners = 1
  NAssets = 1
  MaxCrashes = 0
CHECK_DEADLOCK FALSE
INVARIANTS
  SettingsChangesLogged
