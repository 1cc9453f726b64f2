\* Two registrations in one isolate, Google answering, failing or silent.
CONSTANTS
  r1 = r1
  r2 = r2
  realreelRoot = realreelRoot
  realreelIca = realreelIca
  otherIca = otherIca
  rootKey = rootKey
  icaKey = icaKey
  otherKey = otherKey
  phone1 = phone1
  phone2 = phone2
  serial = serial
  noExt = noExt
  NoKey = NoKey
  NoPromise = NoPromise
  NoToken = NoToken
  NoLeaf = NoLeaf
  NoSki = NoSki
  Unset = Unset
  Unreadable = Unreadable
  Names <- MCNames
  PublicKeys <- MCPublicKeys
  Serials <- MCSerials
  Requests <- MCRequests
  Cases <- MCCases
  Silences <- MCSilences
  Heads <- MCHeads
  TokenLife = 95
  Tick = 20
  Horizon = 60
  Patience = 20
SPECIFICATION FairSpec
INVARIANTS EveryLeafStands TokenOutlivesItsUse OutagesAreForgotten
PROPERTY EveryRegistrationEnds
CHECK_DEADLOCK FALSE
