---------------------------- MODULE MCEnrollment -----------------------------
(* Instances of Enrollment: two accounts, two keys, two challenges, and     *)
(* registrations that collide on the challenge or on the key, redeem        *)
(* another account's challenge, or name different keys or challenges in     *)
(* their body, CSR and attestation.                                         *)
EXTENDS Enrollment

CONSTANTS k1, k2, alice, bob, c1, c2, v3, v4

(* alice's device enrolls k1 over c1. *)
first ==
  [user |-> alice, android |-> FALSE, form |-> "ok", challenge |-> c1,
   version |-> v4, key |-> k1, csrKey |-> k1, csrSigned |-> TRUE,
   attested |-> <<k1, c1>>, evidence |-> TRUE, supersede |-> None]

(* The retry of that key with a fresh challenge, and the next key over the  *)
(* same challenge.                                                          *)
retry == [first EXCEPT !.challenge = c2, !.attested = <<k1, c2>>]
second == [first EXCEPT !.key = k2, !.csrKey = k2, !.attested = <<k2, c1>>]

(* An Android rotation, and bob superseding a key that is not his.          *)
rotation == [first EXCEPT !.android = TRUE, !.key = k2, !.csrKey = k2,
                          !.challenge = c2, !.attested = <<k2, c2>>, !.supersede = k1]
foreign == [rotation EXCEPT !.user = bob]

swapped == [first EXCEPT !.csrKey = k2]
recycled == [retry EXCEPT !.attested = <<k1, c1>>]
misversioned == [first EXCEPT !.version = v3]
malformed == [first EXCEPT !.form = "bad request"]

MCAttempts == {first, retry, second, rotation, foreign, swapped, recycled,
               misversioned, malformed}
=============================================================================
