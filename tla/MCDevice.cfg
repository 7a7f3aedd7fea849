SPECIFICATION Spec
CONSTANTS
  Keys = {k1, k2}
  Caps = {"start", "shop"}
  Domains = {"NAVIGATION", "LIFE"}
  Home <- MCHome
  Touches <- MCTouches
  Faults = {"REJECT", "APPLIED_RESPONSE_LOST", "DELAY_APPLY", "TOOL_TIMEOUT", "READ_FAIL"}
  MaxEnv = 2
  MaxEdits = 1
SYMMETRY KeySymmetry
INVARIANTS TypeOK EffectOnce RecordIsTrue
PROPERTIES AppliedAsPlanned PortSpec
