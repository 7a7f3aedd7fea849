SPECIFICATION Spec
CONSTANTS
  Requests = {"aix", "aix2", "ajx", "bix"}
  Id <- MCId
  Tenant <- MCTenant
  Text <- MCText
  Domains = {"climate"}
  MaxConcurrent = 1
  MaxRate = 1
  Window = 1
  Threshold = 2
  MaxTime = 2
  MaxSettled = 3
INVARIANTS TypeOK   RateKept CircuitExact
CHECK_DEADLOCK FALSE
