SPECIFICATION Spec
CONSTANTS
  k1 = k1  r1 = r1  r2 = r2  r3 = r3  u1 = u1
  Keys = {k1}
  Users = {u1}
  Owner <- MCOwner
  Nonces = {}
  Requests = {r1, r2, r3}
  Validity = 2
  MaxEntries = 1
  LedgerDelay = 1
  SignDelay = 1
  Horizon = 6
SYMMETRY Symmetric
INVARIANTS GoodExpiresAfterRevocation RevocationReachesAnswers RevokedIsAnswered
CHECK_DEADLOCK FALSE
