SPECIFICATION Spec
CONSTANTS
  l1 = l1  l2 = l2  l3 = l3  s1 = s1
  Loads = {l1, l2, l3}
  Serials = {s1}
  RefreshAfter = 2
  UsableFor = 4
  RetryAfterFailure = 2
  FetchTimeout = 1
  Horizon = 6
SYMMETRY Symmetric
INVARIANTS ServedListBound StaleOnlyAfterFailure
CHECK_DEADLOCK FALSE
