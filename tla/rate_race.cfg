SPECIFICATION Spec
CONSTANTS
  a = a  b = b  c = c  d = d
  Calls = {a, b, c, d}
  Windows <- MCWindows
  Attempts = 2
  Horizon = 2
SYMMETRY Symmetric
INVARIANTS AdmittedWithinMax RejectedOnlyWhenBusy
PROPERTY ImplementsSlots
CHECK_DEADLOCK FALSE
