-------------------------- MODULE DeviceAttestation --------------------------
(***************************************************************************)
(* The attestation a registration carries, judged: apple.ts and android.ts *)
(* of ca/_shared/attestation, with the app-identity pins of config.ts and  *)
(* the roots of roots.ts.  Enrollment takes the whole of this as one step. *)
(* Hashes are what they are taken over, a key identifier is the key it is  *)
(* the hash of; times are days, dates what a Date's getters make of them.  *)
(***************************************************************************)
EXTENDS CertChain

Missing == -1           \* for a number that is not there

CONSTANTS Batches,      \* sets of: a server, a request
          AppleRoots, GoogleRoots,
          NoExtension, NoDetail

VARIABLES server,   \* configuration of this deployment
          sent,     \* the attestation, and what the request claims of it
          gate,     \* the step it has reached
          verdict,
          detail    \* of a stale patch level

(* The pinned roots are certificates, and no device's attestation.          *)
PinnedRoots == AppleRoots \cup GoogleRoots
ASSUME RootsAssumption ==
  /\ IsFiniteSet(PinnedRoots)
  /\ \A root \in PinnedRoots :
       IsCert(root) /\ {root.ext.v300, root.ext.legacy, root.ext.nonce} = {NoExtension}

(* What can be read off a request: which form each field of a key record    *)
(* has, and then numbers or sets of numbers.                                *)
NumberTags == {"algorithm", "keySize", "ecCurve", "origin", "osPatch", "vendorPatch", "bootPatch"}
SetTags == {"purpose", "digest"}
FieldForms == {"absent", "malformed", "explicit", "implicit", "enumerated"}
IsRecord(r) ==
  /\ r.readable \in BOOLEAN /\ r.attestationLevel \in Int /\ r.keymasterLevel \in Int
  /\ \A tag \in NumberTags \cup SetTags : r.hardware.tags[tag].form \in FieldForms
  /\ \A tag \in NumberTags : r.hardware.tags[tag].value \in Nat
  /\ r.hardware.rootOfTrust.locked \in BOOLEAN
  /\ \A list \in {r.software, r.hardware} : \A p \in list.appId.packages : p.version \in Int
IsServer(s) ==
  /\ s.runtime \in Runtime /\ s.corrupt \subseteq {root.serial : root \in PinnedRoots}
  /\ {s.suffixed, s.optIn, s.local} \subseteq BOOLEAN /\ s.floor \in Nat \cup {Missing}
IsAttestation(q) ==
  /\ q.platform \in {"ios", "android-tee", "android-strongbox"} /\ q.now \in Nat
  /\ {q.auth.truncated, q.auth.attested} \subseteq BOOLEAN
  /\ q.chain \in Seq(Range(q.chain))
  /\ \A c \in Range(q.chain) :
       /\ IsCert(c)
       /\ c.ext.nonce # NoExtension => c.ext.nonce.tagged \in BOOLEAN
       /\ \A r \in {c.ext.v300, c.ext.legacy} \ {NoExtension} : IsRecord(r)
ASSUME BatchesAssumption ==
  \A b \in Batches : \A c \in b : IsServer(c.server) /\ IsAttestation(c.sent)

attestationVars == <<server, sent, gate, verdict, detail>>

AttestationInit ==
  /\ \E b \in Batches : \E c \in b : server = c.server /\ sent = c.sent
  /\ gate = "boot" /\ verdict = "none" /\ detail = NoDetail

Answer(code) == gate' = "done" /\ verdict' = code /\ UNCHANGED <<server, sent, detail>>
Pass(next) == gate' = next /\ UNCHANGED <<server, sent, verdict, detail>>
(* One gate; the codes it refuses with are one code here.                   *)
Gate(here, refused, code, next) ==
  gate = here /\ IF refused THEN Answer(code) ELSE Pass(next)

-----------------------------------------------------------------------------
(* config.ts: a development build enrolls on a local stack only, and only   *)
(* when asked to; the identifiers in the environment are the base ones.     *)
Relaxed == server.optIn /\ server.local
AppIdentity == IF Relaxed THEN "app.dev" ELSE "app"

(* roots.ts: no embedded root differs from its pinned fingerprint.          *)
FingerprintsHold == \A root \in AppleRoots \cup GoogleRoots : root.serial \notin server.corrupt

Boot ==
  Gate("boot", ~FingerprintsHold \/ server.suffixed \/ (server.optIn /\ ~server.local),
        "down", "decode")

IsApple == sent.platform = "ios"

(* The shape of the statement, and of every certificate in it.              *)
DecodeApple ==
  /\ gate = "decode" /\ IsApple
  /\ \/ sent.form = "unreadable" /\ Answer("ATTESTATION_DECODE_FAILED")
     \/ sent.form = "other" /\ Answer("WRONG_FORMAT")
     \/ /\ sent.form \in {"ok", "badCert"}
        /\ IF Len(sent.chain) < 2 THEN Answer("ATTESTATION_DECODE_FAILED")
           ELSE IF sent.form = "badCert" THEN Answer("CERT_PARSE_FAILED")
           ELSE Pass("chain")
DecodeAndroid ==
  /\ gate = "decode" /\ ~IsApple
  /\ IF sent.form # "ok" \/ Len(sent.chain) < 2
     THEN Answer("ATTESTATION_DECODE_FAILED") ELSE Pass("chain")

VerifyChain ==
  /\ gate = "chain"
  /\ \E ok \in VerifyChainToTrustedRoots(server.runtime, sent.chain,
                  IF IsApple THEN AppleRoots ELSE GoogleRoots, sent.now) :
       IF ~ok THEN Answer("CHAIN_INVALID")
       ELSE Pass(IF IsApple THEN "nonce" ELSE "revoked")
keyCert == Head(sent.chain)

-----------------------------------------------------------------------------
(* Apple: the nonce of the credential certificate commits to the            *)
(* authenticator data, the challenge and the claimed key.                   *)
(* parseAppleNonceExtension: SEQUENCE { [1] { OCTET STRING of 32 } }.       *)
HoldsNonce(ext) ==
  ext # NoExtension /\ ext.outer = "sequence" /\ ext.tagged /\ ext.inner = "octets32"
AppleNonce ==
  LET ext == keyCert.ext.nonce
  IN  Gate("nonce",
            ~HoldsNonce(ext) \/ ext.over # <<sent.auth, sent.challenge, sent.seKey>>,
            "NONCE_INVALID", "keyId")
KeyIdMatches == Gate("keyId", sent.keyId # keyCert.spki.key, "KEY_ID_MISMATCH", "authData")

(* parseAuthData. *)
ParseAuthData ==
  Gate("authData", sent.auth.truncated \/ ~sent.auth.attested,
        "AUTH_DATA_INVALID", "authFields")
Environments == {"production"} \cup IF Relaxed THEN {"development"} ELSE {}
AuthFields ==
  /\ gate = "authFields"
  /\ Answer(IF /\ sent.auth.rp = AppIdentity /\ sent.auth.counter = 0
               /\ sent.auth.aaguid \in Environments
               /\ sent.auth.credential = sent.keyId
            THEN "ok" ELSE "AUTH_DATA_INVALID")

-----------------------------------------------------------------------------
(* Android.  Any listed serial among the presented certificates refuses.    *)
NotRevoked ==
  Gate("revoked", \E c \in Range(sent.chain) : c.serial \in server.revoked,
        "ATTESTATION_CERT_REVOKED", "describe")

(* The newer extension wins. *)
description ==
  IF keyCert.ext.v300 # NoExtension THEN keyCert.ext.v300 ELSE keyCert.ext.legacy
Describe ==
  Gate("describe", description = NoExtension \/ ~description.readable,
        "KEY_DESCRIPTION_INVALID", "challenge")
ChallengeMatches ==
  Gate("challenge", description.challenge # sent.challenge, "CHALLENGE_MISMATCH", "levels")

(* 0 software, 1 TEE, 2 StrongBox: where the record was signed, and where   *)
(* the key lives.                                                           *)
LevelsHold ==
  LET levels == {description.attestationLevel, description.keymasterLevel}
  IN  Gate("levels",
            \/ 0 \in levels
            \/ sent.platform = "android-strongbox" /\ levels # {2}
            \/ sent.platform = "android-tee" /\ description.attestationLevel \notin {1, 2},
            "SECURITY_LEVEL_MISMATCH", "key")
KeyMatches ==
  Gate("key", keyCert.spki.key # sent.seKey, "PUBLIC_KEY_MISMATCH", "package")

(* extractAttestationApplicationId: from the software-enforced list first.  *)
appId ==
  LET lists == <<description.software.appId, description.hardware.appId>>
      found == {i \in {1, 2} : lists[i].form = "ok"}
  IN  IF found = {} THEN [packages |-> {}, digests |-> {}]
      ELSE lists[CHOOSE i \in found : \A j \in found : i <= j]
PackageMatches ==
  Gate("package", AppIdentity \notin {p.name : p \in appId.packages},
        "PACKAGE_NAME_MISMATCH", "evidence")

-----------------------------------------------------------------------------
(* The AL2 table.  Its fields come from the hardware-enforced list; a field *)
(* may be wrapped in its tag or stand in for it.                            *)
Encoded(field) == field.form \in {"explicit", "implicit", "enumerated"}

ReadTagged(tag) ==
  LET field == description.hardware.tags[tag]
  IN  IF Encoded(field) THEN field.value ELSE Missing
ReadTaggedSet(tag) ==
  LET field == description.hardware.tags[tag]
  IN  IF Encoded(field) THEN field.value ELSE {}

(* YYYYMM, the day dropped; YYYYMMDD, the first of the month supplied.      *)
OsPatchLevel ==
  LET raw == IF description.hardware.tags["osPatch"].form = "enumerated"
             THEN Missing ELSE ReadTagged("osPatch")
      month == IF raw >= 10000000 THEN raw \div 100 ELSE raw
  IN  IF 200001 <= month /\ month <= 210012 THEN month ELSE Missing
DayPatchLevel(tag) ==
  LET raw == ReadTagged(tag)
      day == IF raw < 10000000 THEN raw * 100 + 1 ELSE raw
  IN  IF 20000101 <= day /\ day <= 21001231 THEN day ELSE Missing

(* A day's year, month and day of the month, as a Date's UTC getters say.   *)
Civil(day) ==
  LET z == day + 719468
      era == z \div 146097
      doe == z % 146097
      yoe == ((doe - (doe \div 1460)) + (doe \div 36524) - (doe \div 146096)) \div 365
      doy == doe - ((365 * yoe) + (yoe \div 4) - (yoe \div 100))
      mp == ((5 * doy) + 2) \div 153
      month == IF mp < 10 THEN mp + 3 ELSE mp - 9
  IN  [year |-> yoe + era * 400 + (IF month <= 2 THEN 1 ELSE 0), month |-> month,
       day |-> doy - (((153 * mp) + 2) \div 5) + 1]

OsPatchMaxAgeMonths == 3
FirmwarePatchMaxAgeDays == 90

(* yyyymmFloor and yyyymmddFloor. *)
MonthFloor(now, back) ==
  LET months == Civil(now).year * 12 + Civil(now).month - 1 - back
  IN  ((months \div 12) * 100) + (months % 12) + 1
DayFloor(now, back) ==
  LET d == Civil(now - back) IN d.year * 10000 + d.month * 100 + d.day

Age(level, floor, ceiling) ==
  IF level = Missing THEN "missing"
  ELSE IF level < floor THEN "stale" ELSE IF level > ceiling THEN "future" ELSE "ok"
PatchLevels == [os |-> OsPatchLevel, vendor |-> DayPatchLevel("vendorPatch"),
                boot |-> DayPatchLevel("bootPatch")]
PatchAge(p) ==
  IF p = "os"
  THEN Age(PatchLevels[p], MonthFloor(sent.now, OsPatchMaxAgeMonths), MonthFloor(sent.now, -1))
  ELSE Age(PatchLevels[p], DayFloor(sent.now, FirmwarePatchMaxAgeDays), DayFloor(sent.now, -31))

VersionBelowFloor ==
  LET versions == {p.version : p \in {q \in appId.packages : q.name = AppIdentity}} \ {Missing}
  IN  server.floor # Missing /\ ~\E v \in versions : v >= server.floor

(* 2 SIGN, 3 EC, 4 SHA-256, 1 P-256, 0 GENERATED, 0 VERIFIED. *)
RowsThatFail ==
  LET root == description.hardware.rootOfTrust
      holds == [signingCert |-> appId.digests \cap server.digests # {},
                version     |-> ~VersionBelowFloor,
                purpose     |-> 2 \in ReadTaggedSet("purpose"),
                algorithm   |-> ReadTagged("algorithm") = 3,
                keySize     |-> ReadTagged("keySize") = 256,
                digest      |-> 4 \in ReadTaggedSet("digest"),
                curve       |-> ReadTagged("ecCurve") = 1,
                origin      |-> ReadTagged("origin") = 0,
                rootOfTrust |-> root.form = "ok",
                locked      |-> root.form = "ok" => root.locked,
                verified    |-> root.form = "ok" => root.state = 0]
  IN  {r \in DOMAIN holds : ~holds[r]}

StalePatches == {p \in DOMAIN PatchLevels : PatchAge(p) = "stale"}
UnfitPatches == {p \in DOMAIN PatchLevels : PatchAge(p) # "ok"}
StalePatchDetail ==
  IF "os" \in StalePatches THEN [kind |-> "os", level |-> PatchLevels.os]
  ELSE [kind |-> "firmware", level |-> Min({PatchLevels[p] : p \in StalePatches})]

(* Mutant: any stale patch level names the cause. *)
Al2Evidence_AnyStale ==
  /\ gate = "evidence"
  /\ IF RowsThatFail \cup UnfitPatches = {} THEN Answer("ok")
     ELSE IF StalePatches # {}
     THEN /\ gate' = "done" /\ verdict' = "ATTESTATION_STALE_PATCH"
          /\ detail' = StalePatchDetail /\ UNCHANGED <<server, sent>>
     ELSE Answer("AL2_EVIDENCE_FAILED")

(* enforceAl2Evidence: every row is evaluated before it throws. *)
Al2Evidence ==
  /\ gate = "evidence"
  /\ IF RowsThatFail \cup UnfitPatches = {} THEN Answer("ok")
     ELSE IF RowsThatFail = {} /\ UnfitPatches = StalePatches
     THEN /\ gate' = "done" /\ verdict' = "ATTESTATION_STALE_PATCH"
          /\ detail' = StalePatchDetail /\ UNCHANGED <<server, sent>>
     ELSE Answer("AL2_EVIDENCE_FAILED")

AttestationNext ==
  \/ Boot \/ DecodeApple \/ DecodeAndroid \/ VerifyChain
  \/ AppleNonce \/ KeyIdMatches \/ ParseAuthData \/ AuthFields
  \/ NotRevoked \/ Describe \/ ChallengeMatches \/ LevelsHold \/ KeyMatches
  \/ PackageMatches \/ Al2Evidence

AttestationSpec == AttestationInit /\ [][AttestationNext]_attestationVars
=============================================================================
