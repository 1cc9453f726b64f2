----------------------- MODULE MCAndroidRevocationCache ----------------------
(* The instance of AndroidRevocationCache: three loads over one revocation, *)
(* with the loader's 24 h, 7 d and 5 min scaled to 2, 4 and 2.              *)
EXTENDS AndroidRevocationCache, TLC

CONSTANTS l1, l2, l3, s1
Symmetric == Permutations({l1, l2, l3})
=============================================================================
