SPECIFICATION FairSpec
CONSTANTS
  Caps = {"ac"}
  Requests = {"cancel", "intervene", "deadline"}
  RequireConfirmation = FALSE
  MaxVersion = 2
  MaxEpoch = 1
  MaxActions = 1
  MaxWrites = 1
  MaxReplans = 1
  MaxSteps = 1
  MaxReconcile = 1
CHECK_DEADLOCK FALSE
PROPERTIES EventuallyFinal JobEnds
