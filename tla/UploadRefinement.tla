-------------------------- MODULE UploadRefinement ---------------------------
(***************************************************************************)
(* The verifier implements SingleUseAcceptance: the token an upload        *)
(* presents is the (key, nonce) pair of its envelope, a token is taken by  *)
(* the burn, and a request is accepted when it answers 200.                *)
(*                                                                         *)
(* IInv is the inductive invariant behind this and the safety theorems of  *)
(* UploadVerifierProofs.                                                   *)
(***************************************************************************)
EXTENDS UploadVerifier

CONSTANT NoToken   \* what an upload without a usable envelope presents

ASSUME NoTokenAssumption == NoToken \notin Tokens

claim == [r \in Requests |-> IF Attested(r) THEN Token(upload[r]) ELSE NoToken]

outcome ==
  [r \in Requests |->
     IF pc[r] # "done" THEN "open"
     ELSE IF verdict[r] = "ok" THEN "accepted" ELSE "refused"]

Abstract == INSTANCE SingleUseAcceptance
              WITH holder <- spender, TokenRequired <- AttestationRequired

(* The verifier's pipeline, with all its awaits, failures and retries, is  *)
(* an implementation of exclusive single-use tokens.                       *)
ImplementsSingleUse == Abstract!Spec

-----------------------------------------------------------------------------
(* A spent challenge belongs to one request, which carries that very token *)
(* and is past the burn.                                                   *)
SpenderInv ==
  \A t \in Tokens :
    spender[t] # NoOne =>
      /\ challenge[t] = "consumed"
      /\ Token(upload[spender[t]]) = t
      /\ pc[spender[t]] \in {"derive", "done"}

(* Requests past the gate of their row or past the evidence carry what     *)
(* those gates let through.                                                *)
Past(r, l) == pc[r] \in l \/ Accepted(r)

PipelineAt(r) ==
  /\ pc[r] # "done" => verdict[r] = "none"
  /\ pc[r] \in {"token", "evidence", "burn"} => Attested(r)
  /\ Past(r, {"derive"}) =>
       IF Attested(r) THEN spender[Token(upload[r])] = r
                      ELSE ~AttestationRequired

PipelineInv == \A r \in Requests : PipelineAt(r)

(* Revocations and deletions seen at submission are still in force, and a  *)
(* request past the gate that reads them is not one of theirs.             *)
RevocationAt(r) ==
  /\ denied[r] \cap Keys \subseteq revoked
  /\ Foreign \in denied[r] => vendorRevoked
  /\ gone[r] \subseteq issued \ registry
  /\ Past(r, {"capture", "signer", "token", "evidence", "burn", "derive"}) =>
       ~(NetworkRevocation /\ upload[r].responder /\ Foreign \in denied[r])
  /\ Past(r, {"signer", "token", "evidence", "burn", "derive"}) =>
       upload[r].capture \notin denied[r] \cap Keys
  /\ Past(r, {"token", "evidence", "burn", "derive"}) =>
       upload[r].signer \notin denied[r] \cup gone[r]

RevocationInv == \A r \in Requests : RevocationAt(r)

IInv == TypeOK /\ SpenderInv /\ PipelineInv /\ RevocationInv /\ RefusalKeepsNonce
=============================================================================
