-------------------------- MODULE MCUploadVerifier ---------------------------
(* Instances of UploadVerifier: two keys of two accounts (an iOS and an    *)
(* Android one), one nonce per key, and uploads that collide on keys,      *)
(* captures and nonces or are stopped at different gates.                  *)
EXTENDS UploadRefinement, TLC

CONSTANTS k1, k2, alice, bob, n1, r1, r2, camera, nobody

MCKeys == {k1, k2}
MCUsers == {alice, bob}
MCOwner == k1 :> alice @@ k2 :> bob
MCPlatformOf == k1 :> "ios" @@ k2 :> "android"

(* A sound iOS upload of k1's own capture; the others vary it. *)
native ==
  [signer |-> k1, capture |-> k1, structure |-> "ok", responder |-> FALSE,
   leafTime |-> "inside", envelope |-> "app_attest", nonce |-> n1,
   evidence |-> "valid", gps |-> FALSE]

leaky == [native EXCEPT !.gps = TRUE]
malformed == [native EXCEPT !.structure = "SIGNATURE_INVALID"]
forged == [native EXCEPT !.evidence = "invalid"]
bare == [native EXCEPT !.envelope = "none"]
wrapped == [native EXCEPT !.capture = camera, !.responder = TRUE]
borrowed == [native EXCEPT !.signer = k2, !.envelope = "play_integrity"]
misrouted == [native EXCEPT !.signer = k2]

(* All of them, and those that race: one refused after its burn, one by a  *)
(* key over another's capture, one over a camera's.                        *)
AllUploads == {native, leaky, malformed, forged, bare, wrapped, borrowed, misrouted}
RacingUploads == {leaky, borrowed, wrapped}

Symmetric == Permutations({r1, r2})
=============================================================================
