SPECIFICATION Spec
CONSTANTS
  Caps = {"ac"}
  Requests = {"intervene", "cancel", "deadline", "environment"}
  RequireConfirmation = FALSE
  MaxVersion = 2
  MaxEpoch = 1
  MaxActions = 2
  MaxWrites = 2
  MaxReplans = 1
  MaxSteps = 2
  MaxReconcile = 1
CHECK_DEADLOCK FALSE
INVARIANTS TypeOK UnknownExact OneOutstanding SettledTruth NoFalseSuccess
PROPERTIES NeverResent ContractSpec
