----------------------------- MODULE MCLeafOcsp -----------------------------
(* Instances of LeafOcsp: three requests for one key of one account, so     *)
(* that every request meets what the others cached; replies are valid for   *)
(* two instants, and the ledger and the KMS each take up to one.            *)
EXTENDS LeafOcsp, TLC

CONSTANTS k1, r1, r2, r3, u1
MCOwner == [k \in {k1} |-> u1]
Symmetric == Permutations({r1, r2, r3})
=============================================================================
