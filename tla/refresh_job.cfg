SPECIFICATION Spec
CONSTANTS
  Validity = 2
  Outages = TRUE
  MaxDispatches = 3
  Horizon = 4
INVARIANTS GreenRunTakesEffect FreshWhileGreen
PROPERTY NoSilentRevert
CHECK_DEADLOCK FALSE
