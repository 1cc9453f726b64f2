--------------------------- MODULE UploadVerifier ----------------------------
(***************************************************************************)
(* POST /verify (verifier/src/server.ts, verify.ts, profiles/realreel.ts,  *)
(* attestation/): concurrent requests, each a chain of steps separated by  *)
(* the handler's awaits.  Between two steps of a request anything else may *)
(* happen: another request burns a nonce, a key is revoked, an account is  *)
(* deleted, a vendor revokes a camera certificate, the instance dies.      *)
(*                                                                         *)
(* An upload is abstracted to what the verdict depends on.  `structure` is *)
(* the outcome of the pure gates that read only the uploaded bytes, which  *)
(* module ManifestPolicy models in detail.                                 *)
(***************************************************************************)
EXTENDS SigningLedger

CONSTANTS Requests,                \* calls of /verify
          Uploads,                 \* the uploads they may carry
          Foreign,                 \* a third-party camera's certificate
          PlatformOf,              \* platform of each key's row
          AttestationRequired,     \* config.attestationRequired
          PlayIntegrityConfigured, \* config.playIntegrity is set
          NetworkRevocation,       \* config.networkRevocation
          NoOne                    \* not a request

Platform == {"ios", "android", "other"}

StructureCode ==
  {"ok", "MANIFEST_MALFORMED", "SIGNATURE_INVALID", "UNTRUSTED_ISSUER",
   "CERT_EXPIRED", "AI_GENERATED", "PARENT_BINDING_FAILED"}

UploadShape ==
  [signer    : Keys,                 \* leaf of the active (Stage 2) manifest
   capture   : Keys \cup {Foreign},  \* leaf of the Stage 1 capture
   structure : StructureCode,        \* verdict of the offline gates
   responder : BOOLEAN,              \* capture source declares OCSP responders
   leafTime  : {"inside", "predates", "expired"}, \* claim against leaf window
   envelope  : {"none", "both", "app_attest", "play_integrity"},
   nonce     : Nonces,               \* challenge inside the envelope
   evidence  : {"valid", "invalid", "malformed"}, \* the envelope's proof
   gps       : BOOLEAN]              \* coordinates the declared level forbids

ASSUME ConfigAssumption ==
  /\ AttestationRequired \in BOOLEAN
  /\ PlayIntegrityConfigured \in BOOLEAN
  /\ NetworkRevocation \in BOOLEAN
  /\ AttestationRequired => PlayIntegrityConfigured

ASSUME UploadAssumption ==
  /\ Uploads \subseteq UploadShape
  /\ PlatformOf \in [Keys -> Platform]
  /\ NoOne \notin Requests
  /\ Foreign \notin Keys

VARIABLES pc,            \* where each request is
          upload,        \* what it carries
          verdict,       \* what it answered
          vendorRevoked, \* the vendor has revoked the foreign certificate
          spender,       \* history: the request that consumed each challenge
          denied,        \* history: certificates revoked when it was submitted
          gone           \* history: keys whose account was gone by then

requestVars == <<pc, upload, verdict>>
historyVars == <<spender, denied, gone>>
vars == <<ledgerVars, requestVars, vendorRevoked, historyVars>>

Location == {"idle", "fetch", "body", "gates", "ocsp", "capture", "signer",
             "token", "evidence", "burn", "derive", "done"}

(* Codes a request can be refused with, by the step that raises them: the   *)
(* gates up to the response headers, and the read of the body.              *)
FetchCode == {"UNAUTHORIZED", "STORAGE_FETCH_FAILED", "MANIFEST_MALFORMED"}
BodyCode == {"STORAGE_FETCH_FAILED", "VERIFIER_UNAVAILABLE"}
Verdict ==
  StructureCode \cup FetchCode \cup
  {"none", "lost", "VERIFIER_UNAVAILABLE", "KEY_REVOKED", "KEY_NOT_FOUND",
   "ATTESTATION_MISSING", "ATTESTATION_INVALID", "ATTESTATION_REPLAY",
   "LOCATION_PRIVACY_VIOLATION"}

Token(u) == <<u.signer, u.nonce>>
InFlight(r) == pc[r] \notin {"idle", "done"}

Init ==
  /\ LedgerInit
  /\ pc = [r \in Requests |-> "idle"]
  /\ upload \in [Requests -> Uploads]
  /\ verdict = [r \in Requests |-> "none"]
  /\ vendorRevoked = FALSE
  /\ spender = [t \in Tokens |-> NoOne]
  /\ denied = [r \in Requests |-> {}]
  /\ gone = [r \in Requests |-> {}]

-----------------------------------------------------------------------------
(* Moving a request on, and answering it. *)
Goto(r, l) ==
  /\ pc' = [pc EXCEPT ![r] = l]
  /\ UNCHANGED <<upload, verdict>>

Answer(r, v) ==
  /\ pc' = [pc EXCEPT ![r] = "done"]
  /\ verdict' = [verdict EXCEPT ![r] = v]
  /\ UNCHANGED upload

Submit(r) ==
  /\ pc[r] = "idle"
  /\ Goto(r, "fetch")
  /\ denied' = [denied EXCEPT ![r] =
                  revoked \cup (IF vendorRevoked THEN {Foreign} ELSE {})]
  /\ gone' = [gone EXCEPT ![r] = issued \ registry]
  /\ UNCHANGED <<ledgerVars, vendorRevoked, spender>>

(* Bearer check, body shape, URL allowlist, storage GET with If-Match, the  *)
(* declared size: any of them may refuse; the 15 s abort ends the wait for  *)
(* the response's headers.                                                  *)
FetchAsset(r) ==
  /\ pc[r] = "fetch"
  /\ \/ Goto(r, "body")
     \/ \E code \in FetchCode : Answer(r, code)
  /\ UNCHANGED <<ledgerVars, vendorRevoked, historyVars>>

(* The bytes, read after the abort was disarmed and outside the try: they   *)
(* may be too few or too many, and a connection that breaks is a 500.       *)
ReadBody(r) ==
  /\ pc[r] = "body"
  /\ \/ Goto(r, "gates")
     \/ \E code \in BodyCode : Answer(r, code)
  /\ UNCHANGED <<ledgerVars, vendorRevoked, historyVars>>

(* The offline read and every gate that needs only the bytes. *)
OfflineGates(r) ==
  /\ pc[r] = "gates"
  /\ IF upload[r].structure # "ok" THEN Answer(r, upload[r].structure)
     ELSE Goto(r, IF upload[r].responder /\ NetworkRevocation
                  THEN "ocsp" ELSE "capture")
  /\ UNCHANGED <<ledgerVars, vendorRevoked, historyVars>>

(* The online read: a fetched answer tells the vendor's status; anything    *)
(* else (no answer, tryLater, a stapled response) is retryable.             *)
OcspAnswer(r) ==
  /\ pc[r] = "ocsp"
  /\ \/ ~vendorRevoked /\ Goto(r, "capture")
     \/ vendorRevoked /\ Answer(r, "UNTRUSTED_ISSUER")
     \/ Answer(r, "VERIFIER_UNAVAILABLE")
  /\ UNCHANGED <<ledgerVars, vendorRevoked, historyVars>>

(* The online read without its deadline when revocation is on. *)
OcspTimeout_Unarmed(r) ==
  /\ pc[r] = "ocsp" /\ ~NetworkRevocation
  /\ Answer(r, "VERIFIER_UNAVAILABLE")
  /\ UNCHANGED <<ledgerVars, vendorRevoked, historyVars>>

OcspTimeout(r) ==
  /\ pc[r] = "ocsp"
  /\ Answer(r, "VERIFIER_UNAVAILABLE")
  /\ UNCHANGED <<ledgerVars, vendorRevoked, historyVars>>

(* Stage 1 denylist: only a known, revoked row refuses. *)
LookupCapture(r) ==
  /\ pc[r] = "capture"
  /\ IF upload[r].capture \in Keys /\ LookupRow(upload[r].capture) = "revoked"
     THEN Answer(r, "KEY_REVOKED")
     ELSE Goto(r, "signer")
  /\ UNCHANGED <<ledgerVars, vendorRevoked, historyVars>>

(* resolveStageEnvelope: envelopes that can never satisfy the key's         *)
(* platform, or that do not parse.                                          *)
EnvelopeMismatch(u) ==
  LET p == PlatformOf[u.signer] IN
  \/ u.envelope = "both"
  \/ p = "other" /\ AttestationRequired
  \/ p = "android" /\ u.envelope = "app_attest"
  \/ p = "ios" /\ u.envelope = "play_integrity"
  \/ u.envelope # "none" /\ u.evidence = "malformed"

EnvelopeMissing(u) == u.envelope = "none" /\ AttestationRequired

(* The refusals decided by the Stage 2 row, in the order the code has them; *)
(* "ok" when none applies.                                                  *)
SignerVerdict(u) ==
  CASE LookupRow(u.signer) = "none"    -> "KEY_NOT_FOUND"
    [] LookupRow(u.signer) = "revoked" -> "KEY_REVOKED"
    [] OTHER ->
         IF u.leafTime = "predates" THEN "SIGNATURE_INVALID"
         ELSE IF u.leafTime = "expired" THEN "CERT_EXPIRED"
         ELSE IF EnvelopeMismatch(u) THEN "ATTESTATION_INVALID"
         ELSE IF EnvelopeMissing(u) THEN "ATTESTATION_MISSING"
         ELSE "ok"

(* App Attest is checked locally.  Play Integrity is decoded by Google,     *)
(* with an access token, unless no config is set: then the structure is all *)
(* there is.                                                                *)
Decoded(u) == u.envelope = "play_integrity" /\ PlayIntegrityConfigured

(* Stage 2 lookup, Gate 3 and the envelope's structure. *)
LookupSigner(r) ==
  /\ pc[r] = "signer"
  /\ LET u == upload[r]
         v == SignerVerdict(u)
     IN  IF v # "ok" THEN Answer(r, v)
         ELSE Goto(r, IF u.envelope = "none" THEN "derive"
                      ELSE IF Decoded(u) THEN "token" ELSE "evidence")
  /\ UNCHANGED <<ledgerVars, vendorRevoked, historyVars>>

(* GoogleAuth.getAccessToken, which has no timer of its own. *)
GetAccessToken(r) ==
  /\ pc[r] = "token"
  /\ Goto(r, "evidence") \/ Answer(r, "VERIFIER_UNAVAILABLE")
  /\ UNCHANGED <<ledgerVars, vendorRevoked, historyVars>>

(* The evidence's verdict, or DECODE_TIMEOUT_MS and Google's own failures.  *)
CheckEvidence(r) ==
  LET u == upload[r] IN
  /\ pc[r] = "evidence"
  /\ \/ /\ u.evidence = "valid" \/ (u.envelope = "play_integrity" /\ ~Decoded(u))
        /\ Goto(r, "burn")
     \/ /\ u.evidence = "invalid" /\ (u.envelope = "play_integrity" => Decoded(u))
        /\ Answer(r, "ATTESTATION_INVALID")
     \/ Decoded(u) /\ Answer(r, "VERIFIER_UNAVAILABLE")
  /\ UNCHANGED <<ledgerVars, vendorRevoked, historyVars>>

(* A burn whose result is not looked at, and one retried after a lost reply, *)
(* which then finds its own row consumed.                                    *)
BurnNonce_Unchecked(r) ==
  LET t == Token(upload[r]) IN
  /\ pc[r] = "burn"
  /\ \/ BurnWins(t) /\ spender' = [spender EXCEPT ![t] = r]
     \/ BurnLoses(t) /\ UNCHANGED spender
  /\ Goto(r, "derive")
  /\ UNCHANGED <<vendorRevoked, denied, gone>>

BurnNonce_Retried(r) ==
  LET t == Token(upload[r]) IN
  /\ pc[r] = "burn"
  /\ \/ /\ BurnWins(t)
        /\ spender' = [spender EXCEPT ![t] = r]
        /\ \/ Goto(r, "derive")
           \/ Answer(r, "ATTESTATION_REPLAY")
     \/ /\ BurnLoses(t)
        /\ Answer(r, "ATTESTATION_REPLAY")
        /\ UNCHANGED spender
  /\ UNCHANGED <<vendorRevoked, denied, gone>>

(* The single-use burn.  Its reply may be lost after the commit: the row is *)
(* spent and the request answers 500.                                       *)
BurnNonce(r) ==
  LET t == Token(upload[r]) IN
  /\ pc[r] = "burn"
  /\ \/ /\ BurnWins(t)
        /\ spender' = [spender EXCEPT ![t] = r]
        /\ \/ Goto(r, "derive")
           \/ Answer(r, "VERIFIER_UNAVAILABLE")
     \/ /\ BurnLoses(t)
        /\ Answer(r, "ATTESTATION_REPLAY")
        /\ UNCHANGED spender
  /\ UNCHANGED <<vendorRevoked, denied, gone>>

(* A lookup or burn that fails before any effect surfaces as a 500. *)
DatabaseFails(r) ==
  /\ pc[r] \in {"capture", "signer", "burn"}
  /\ Answer(r, "VERIFIER_UNAVAILABLE")
  /\ UNCHANGED <<ledgerVars, vendorRevoked, historyVars>>

(* deriveMetadata, the location backstop and the 200. *)
DeriveAndAnswer(r) ==
  /\ pc[r] = "derive"
  /\ Answer(r, IF upload[r].gps THEN "LOCATION_PRIVACY_VIOLATION" ELSE "ok")
  /\ UNCHANGED <<ledgerVars, vendorRevoked, historyVars>>

(* The instance or the connection goes away; nothing is answered. *)
InstanceDies(r) ==
  /\ InFlight(r)
  /\ Answer(r, "lost")
  /\ UNCHANGED <<ledgerVars, vendorRevoked, historyVars>>

(* The steps that end by themselves: local work, and the calls with a timer *)
(* (SIGNED_URL_FETCH_TIMEOUT_MS up to the headers, withOcspTimeout,         *)
(* DECODE_TIMEOUT_MS, ffprobe's).  The others wait for an answer that no    *)
(* deadline of the code replaces: the storage body, the ledger, whose hot   *)
(* path has no statement_timeout, and Google's access token.                *)
Deadlined(r) ==
  \/ FetchAsset(r) \/ OfflineGates(r) \/ OcspTimeout(r)
  \/ CheckEvidence(r) \/ DeriveAndAnswer(r)
Answerable(r) ==
  \/ ReadBody(r) \/ LookupCapture(r) \/ LookupSigner(r)
  \/ GetAccessToken(r) \/ BurnNonce(r)
Handle(r) == Deadlined(r) \/ Answerable(r)
NoDeadline == {"body", "capture", "signer", "token", "burn"}

(* Everything else that moves: the CA functions and the camera vendor. *)
Elsewhere ==
  /\ \/ \E k \in Keys : EnrollKey(k) \/ RevokeKey(k)
     \/ \E u \in Users : DeleteAccount(u)
     \/ \E k \in Keys, n \in Nonces : MintChallenge(k, n)
  /\ UNCHANGED <<requestVars, vendorRevoked, historyVars>>

VendorRevokes ==
  /\ ~vendorRevoked
  /\ vendorRevoked' = TRUE
  /\ UNCHANGED <<ledgerVars, requestVars, historyVars>>

Next ==
  \/ \E r \in Requests :
       Submit(r) \/ Handle(r) \/ OcspAnswer(r) \/ DatabaseFails(r) \/ InstanceDies(r)
  \/ Elsewhere
  \/ VendorRevokes

Spec == Init /\ [][Next]_vars

(* What ends by itself ends; nothing is assumed of anyone who is asked: the *)
(* vendor's responder, storage, the database and Google may stay silent.    *)
FairSpec == Spec /\ \A r \in Requests : WF_vars(Deadlined(r))

-----------------------------------------------------------------------------
TypeOK ==
  /\ LedgerTypeOK
  /\ pc \in [Requests -> Location]
  /\ upload \in [Requests -> Uploads]
  /\ verdict \in [Requests -> Verdict]
  /\ vendorRevoked \in BOOLEAN
  /\ spender \in [Tokens -> Requests \cup {NoOne}]
  /\ denied \in [Requests -> SUBSET (Keys \cup {Foreign})]
  /\ gone \in [Requests -> SUBSET Keys]

Accepted(r) == pc[r] = "done" /\ verdict[r] = "ok"
Attested(r) == upload[r].envelope \in {"app_attest", "play_integrity"}

(* Replay: whatever the interleaving of concurrent and retried requests,    *)
(* no two accepted uploads carry the same challenge of the same key.        *)
SingleUse ==
  \A r1, r2 \in Requests :
    (/\ Accepted(r1) /\ Accepted(r2) /\ Attested(r1) /\ Attested(r2)
     /\ Token(upload[r1]) = Token(upload[r2])) => r1 = r2

(* Nothing is accepted on another request's burn: an accepted upload that   *)
(* carries an envelope consumed its own challenge, and in strict mode every *)
(* accepted upload did.                                                     *)
AcceptanceOwnsNonce ==
  \A r \in Requests :
    Accepted(r) /\ (Attested(r) \/ AttestationRequired) =>
      spender[Token(upload[r])] = r

(* The kill switch: an upload submitted after its signing key or its        *)
(* capture's key was revoked is never accepted, even when the owner's       *)
(* account is deleted in between; with network revocation on the same holds *)
(* for a camera certificate its vendor had revoked.                         *)
RevokedNeverAccepted ==
  \A r \in Requests :
    Accepted(r) =>
      /\ upload[r].signer \notin denied[r]
      /\ upload[r].capture \in denied[r] =>
           /\ upload[r].capture = Foreign
           /\ ~(NetworkRevocation /\ upload[r].responder)

(* A key whose account was deleted before the upload was submitted fails    *)
(* closed, revoked or not: the lookup hides the row that is left.           *)
DeletedOwnerNeverAccepted ==
  \A r \in Requests : Accepted(r) => upload[r].signer \notin gone[r]

(* The codes a client may see with its challenge already spent by the same  *)
(* request.  Every other refusal leaves the challenge for the corrected     *)
(* upload: the gates run before the burn.                                   *)
SpentByRefusal == {"LOCATION_PRIVACY_VIOLATION", "VERIFIER_UNAVAILABLE", "lost", "ok"}

RefusalKeepsNonce ==
  \A r \in Requests :
    pc[r] = "done" /\ verdict[r] \notin SpentByRefusal =>
      \A t \in Tokens : spender[t] # r

(* profiles/realreel.ts says the nonce is burned "LAST - only after every   *)
(* other check has passed": a request that burned is never refused for a    *)
(* property of its own upload.                                              *)
BurnIsLast ==
  \A r \in Requests :
    verdict[r] \notin {"none", "lost", "VERIFIER_UNAVAILABLE", "ok"} =>
      \A t \in Tokens : spender[t] # r

(* Every submitted upload gets a verdict (or its instance died), or waits   *)
(* for good at one of the awaits that have no deadline: a responder, a      *)
(* decode or a storage server that never sends its headers holds nobody.    *)
EndsOrWaitsWithoutDeadline ==
  \A r \in Requests :
    InFlight(r) ~> (pc[r] = "done" \/ [](pc[r] \in NoDeadline))
=============================================================================
