--------------------------- MODULE MCIcaOcspRefresh -------------------------
(* Instances of IcaOcspRefresh: responses valid for two days, three manual  *)
(* dispatches over five days.                                               *)
EXTENDS IcaOcspRefresh
=============================================================================
