SPECIFICATION Spec
CONSTANTS
  None = None
  Unusable = Unusable
  Malformed = Malformed
  r1 = r1
  r2 = r2
  r3 = r3
  Requests = {r1, r2, r3}
  Kinds = {"repo", "command"}
  Values = {1, 2}
  FilePolicy <- File
  Bodies <- AllBodies
  Keep = 2
  NScanners = 0
  NAssets = 0
  MaxCrashes = 1
CHECK_DEADLOCK FALSE
SYMMETRY Symmetry
INVARIANTS
  RetentionBounded
  LostOnlyWhenOvertaken
