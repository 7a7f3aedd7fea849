SPECIFICATION Spec
CHECK_DEADLOCK FALSE
CONSTANTS
  Tenants <- MCTenants
  Requests <- MCRequests
  Supplements <- MCSupplements
  Touches <- MCTouches
  Notes <- MCNotes
INVARIANTS TypeOK  BansKept
PROPERTIES MemoryOnlySuggests HintsAreLive AchievableCompletes
