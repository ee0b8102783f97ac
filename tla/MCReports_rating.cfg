SPECIFICATION Spec
CONSTANTS
  None = None
  app = app
  kex = kex
  one = one
  other = other
  Modules <- MCModules
  Exchanges <- MCExchanges
  Inventories <- MCInventories
  Files <- MCFiles
  Changes <- MCChanges
  AskedZ = {2030, 2045}
  Filters <- MCFilters
  Years = {2026, 2031, 2036}
CHECK_DEADLOCK FALSE
INVARIANTS
  BareStaysExposed
  
  
  ExportNeverLower
PROPERTIES
  TimeOnlyPresses
  PinnedHolds
