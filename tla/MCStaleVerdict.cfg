SPECIFICATION Spec
CONSTANTS
  Caps = {"ac"}
  Requests = {"intervene"}
  RequireConfirmation = FALSE
  MaxVersion = 2
  MaxEpoch = 1
  MaxActions = 1
  MaxWrites = 1
  MaxReplans = 0
  MaxSteps = 2
  MaxReconcile = 1
CHECK_DEADLOCK FALSE
PROPERTY CompletedForCurrentGoal
