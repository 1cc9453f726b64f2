SPECIFICATION Spec
CONSTANTS
  k1 = k1  k2 = k2  alice = alice  bob = bob  c1 = c1  c2 = c2  v3 = v3  v4 = v4
  None = none
  Requests = {r1, r2}
  Attempts <- MCAttempts
  Users = {alice, bob}
  Keys = {k1, k2}
  Challenges = {c1, c2}
  Versions = {v3, v4}
INVARIANTS ChallengeEnrollsOnce LeafHasRow RowIsAttested SignedLeafIsEarned FaultCost
PROPERTY ImplementsSingleUse
CHECK_DEADLOCK FALSE
