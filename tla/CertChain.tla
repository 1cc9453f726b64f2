------------------------------ MODULE CertChain ------------------------------
(***************************************************************************)
(* Certificates and the check of a presented chain against pinned roots     *)
(* (ca/_shared/attestation/pki.ts), with the signature engine registered    *)
(* there: the edge runtime's WebCrypto cannot verify an ECDSA signature     *)
(* whose hash is not its curve's own, the Deno CLI's can, and a chain must  *)
(* get the same answer from both.  Bytes are equal or not; a signature is   *)
(* the key that made it.                                                    *)
(***************************************************************************)
EXTENDS Integers, SequencesExt

CONSTANTS Names,    \* distinguished names
          PublicKeys,
          Serials,
          NoKey     \* a signature no known key made

NaturalHash == [P256 |-> "SHA-256", P384 |-> "SHA-384", P521 |-> "SHA-512"]
FallbackHashes == {"SHA-256", "SHA-384", "SHA-512"}

(* `oidParams`: the curve is named by an OBJECT IDENTIFIER.                 *)
Spki == [key : PublicKeys, algorithm : {"ec", "rsa", "rsaPss"},
         curve : DOMAIN NaturalHash \cup {"other"}, oidParams : BOOLEAN,
         uncompressed : BOOLEAN]
(* `shape`: two in-range integers in DER, in laxer BER, or anything else.   *)
Signature == [by : PublicKeys \cup {NoKey}, declared : {"ecdsa", "rsa", "rsaPss"},
              hash : FallbackHashes \cup {"SHA-1", "SHA-224"},
              shape : {"der", "ber", "malformed"}]
Runtime == {"edge", "cli"}

(* A certificate; `ext` is the platform's attestation extension, if any.    *)
IsCert(c) ==
  /\ {c.subject, c.issuer} \subseteq Names /\ c.serial \in Serials
  /\ c.spki \in Spki /\ c.signature \in Signature
  /\ c.from \in Int /\ c.until \in Int /\ c.ca \in BOOLEAN

Readable(signature) == signature.shape \in {"der", "ber"}

(* ecdsaFallbackParams: an ECDSA signature whose hash is not the curve's.   *)
FallbackApplies(spki, signature) ==
  /\ spki.algorithm = "ec" /\ signature.declared = "ecdsa"
  /\ spki.oidParams /\ spki.curve \in DOMAIN NaturalHash
  /\ signature.hash \in FallbackHashes \ {NaturalHash[spki.curve]}

(* crypto.subtle.verify behind pkijs; a throw counts as no.  SHA-1 is       *)
(* rejected with ECDSA only.                                                *)
RsaHashes == FallbackHashes \cup {"SHA-1"}
WebCryptoVerifies(runtime, spki, signature) ==
  /\ signature.by = spki.key
  /\ \/ /\ spki.algorithm = "rsa" /\ signature.declared = "rsa"
        /\ signature.hash \in RsaHashes
     \/ /\ spki.algorithm = "ec" /\ signature.declared = "ecdsa"
        /\ signature.hash \in FallbackHashes
        /\ spki.oidParams /\ spki.curve \in DOMAIN NaturalHash /\ spki.uncompressed
        /\ Readable(signature)
        /\ runtime = "cli" \/ signature.hash = NaturalHash[spki.curve]

(* EcdsaFallbackCryptoEngine.verifyWithPublicKey. *)
VerifyWithPublicKey(runtime, spki, signature) ==
  /\ spki.algorithm # "rsaPss"
  /\ IF FallbackApplies(spki, signature)
     THEN spki.uncompressed /\ Readable(signature) /\ signature.by = spki.key
     ELSE WebCryptoVerifies(runtime, spki, signature)

-----------------------------------------------------------------------------
SelfSigned(cert) == cert.issuer = cert.subject

(* The device's copy of its root is dropped: the anchor is the pinned one.  *)
Presented(chain) ==
  IF Len(chain) > 1 /\ SelfSigned(Last(chain)) THEN Front(chain) ELSE chain

(* pkijs's validation engine: every way up from the target through the      *)
(* presented certificates and the roots, ending at a root.  Which it picks  *)
(* is its own business; the one picked must be in date, and only a CA       *)
(* certificate may issue.                                                   *)
IssuedBy(runtime, cert, issuer) ==
  /\ cert.issuer = issuer.subject
  /\ VerifyWithPublicKey(runtime, issuer.spki, cert.signature)
Longer(runtime, ways, certs, roots) ==
  UNION {{Append(w, c) : c \in {d \in (certs \cup roots) \ Range(w) :
                                  IssuedBy(runtime, Last(w), d)}} :
           w \in {v \in ways : Last(v) \notin roots}}
WaysUp(runtime, target, certs, roots) ==
  LET longest == Cardinality(certs \cup roots)
      up[n \in 1..longest] ==
        IF n = 1 THEN {<<target>>} ELSE Longer(runtime, up[n - 1], certs, roots)
  IN  {w \in UNION {up[n] : n \in 1..longest} : Last(w) \in roots}
GoodWay(way, now) ==
  /\ \A i \in DOMAIN way : way[i].from <= now /\ now <= way[i].until
  /\ \A i \in DOMAIN way : i > 1 => way[i].ca
EngineAnswers(runtime, target, certs, roots, now) ==
  LET ways == WaysUp(runtime, target, certs, roots)
  IN  IF ways = {} THEN {FALSE} ELSE {GoodWay(w, now) : w \in ways}

(* Mutants: the chain handed over leaf first, or with the device's root.    *)
VerifyChainToTrustedRoots_LeafFirst(runtime, chain, roots, now) ==
  EngineAnswers(runtime, Last(Presented(chain)), Range(Presented(chain)), roots, now)
VerifyChainToTrustedRoots_KeepTop(runtime, chain, roots, now) ==
  EngineAnswers(runtime, Head(chain), Range(chain), roots, now)

(* verifyChainToTrustedRoots: the answers it may give. *)
VerifyChainToTrustedRoots(runtime, chain, roots, now) ==
  EngineAnswers(runtime, Head(Presented(chain)), Range(Presented(chain)), roots, now)
=============================================================================
