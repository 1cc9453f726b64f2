SPECIFICATION Spec
CONSTANTS
  k1 = k1  k2 = k2  alice = alice  bob = bob  n1 = n1  r1 = r1  r2 = r2
  camera = camera  nobody = nobody  NoToken = noToken
  Keys <- MCKeys
  Users <- MCUsers
  Owner <- MCOwner
  Nonces = {n1}
  Requests = {r1}
  Uploads <- AllUploads
  Foreign = camera
  PlatformOf <- MCPlatformOf
  AttestationRequired = TRUE
  PlayIntegrityConfigured = TRUE
  NetworkRevocation = TRUE
  NoOne = nobody
INVARIANT BurnIsLast
CHECK_DEADLOCK FALSE
