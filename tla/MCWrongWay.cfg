SPECIFICATION Spec
CHECK_DEADLOCK FALSE
CONSTANTS
  Tenants <- MCTenants
  Requests <- HomeRequests
  Supplements <- MCSupplements
  Touches <- MCTouches
  Notes <- MCNotes
INVARIANT SaidIsDone
