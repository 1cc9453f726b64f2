SPECIFICATION AttestationSpec
CONSTANTS
  ch1 = ch1  ch2 = ch2  dOurs = dOurs  dOther = dOther
  Names <- MCNames
  PublicKeys <- MCKeys
  Serials = {1, 2, 3, 4, 5, 6, 7, 8}
  NoKey = noKey  NoExtension = noExtension  NoDetail = noDetail
  AppleRoots <- MCAppleRoots
  GoogleRoots <- MCGoogleRoots
  Batches <- MCBatches
INVARIANTS AcceptedIsGenuine GenuineIsNotRefused StaleMeansUpdatable
CHECK_DEADLOCK FALSE
