SPECIFICATION Spec
CONSTANTS
  Validity = 2
  Outages = FALSE
  MaxDispatches = 2
  Horizon = 1
INVARIANT OneDispatchRevokes
CHECK_DEADLOCK FALSE
