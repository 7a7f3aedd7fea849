SPECIFICATION Spec
CONSTANTS
  Caps = {"ac"}
  Requests = {"cancel", "answer", "deadline"}
  RequireConfirmation = TRUE
  MaxVersion = 2
  MaxEpoch = 1
  MaxActions = 3
  MaxWrites = 2
  MaxReplans = 1
  MaxSteps = 2
  MaxReconcile = 1
CHECK_DEADLOCK FALSE
INVARIANTS ApprovedOnly CancelWins RunningHasWorker
PROPERTIES TerminalIsFinal
