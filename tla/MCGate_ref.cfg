SPECIFICATION Spec
CONSTANTS
  None = None
  Empty = Empty
  f1 = f1
  f2 = f2
  side = side
  built = built
  b1 = b1
  b2 = b2
  Files = {f1, f2, side, built}
  Ignored = {built}
  Gated = {f1, f2, built}
  Contents = {"RSA", "SHA-1"}
  Blocking = {"broken", "broken_classical"}
  Allow = 0
  MaxGateFiles = 1
  Mode = "ref"
  Branches = {b1, b2}
  MaxEdits = 1
  MaxMerges = 2
  MaxFlaws = 1
CHECK_DEADLOCK FALSE
SYMMETRY Symmetry
INVARIANTS
  TypeOK
  HoldsTheLine
  RefactorsPass
  FailureNamesFindings
