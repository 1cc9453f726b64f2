SPECIFICATION FairSpec
CONSTANTS
  U = U  T = T  V = V  C = C  h1 = h1  h2 = h2  rr = rr  goog = goog  tsa = tsa
  foreign = foreign  x1 = x1
  Labels <- MCLabels
  Hosts = {h1, h2}
  Roots = {rr, goog, tsa, foreign}
  Extents = {x1}
  NoLabel = noLabel  NoTime = noTime  NoStamp = noStamp  NoIdentity = noIdentity
  Batches <- MCBatches
  NetworkRevocation = TRUE
  ReachableMaxDepth = 2
  MaxUpdateManifestDepth = 1
  Now = 60
  ClockSkewTolerance = 5
  IssuanceTolerance = 4
INVARIANTS TypeOK AcceptedIsSound SoundIsNotRefused AiDeclarationDecides NetworkOnlyForSoundWrap SuppressionHidesNothing OwnResponderVouches
PROPERTY EveryStoreIsAnswered
CHECK_DEADLOCK FALSE
