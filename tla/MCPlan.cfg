SPECIFICATION Spec
CONSTANTS
  Caps = {"ac", "media"}
  Requests = {"cancel", "placement", "deadline"}
  RequireConfirmation = FALSE
  MaxVersion = 1
  MaxEpoch = 3
  MaxActions = 2
  MaxWrites = 2
  MaxReplans = 1
  MaxSteps = 2
  MaxReconcile = 1
CHECK_DEADLOCK FALSE
INVARIANTS NoDuplicateWrite
