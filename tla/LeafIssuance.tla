---------------------------- MODULE LeafIssuance ----------------------------
(***************************************************************************)
(* Issuing leaves in one isolate of the enrollment function: the last      *)
(* steps of register-signing-key/index.ts, the certificate building of     *)
(* ca/_shared/attestation/pki.ts and the Cloud KMS client                  *)
(* ca/_shared/kms.ts.  Requests share the bearer token and one promise,    *)
(* the check that the intermediate and the KMS key belong together.  The   *)
(* secrets are the isolate's environment, read anew by every request and   *)
(* the same for all of them.  Google answers, refuses, or stays silent: no *)
(* fetch has a timeout.                                                    *)
(***************************************************************************)
EXTENDS CertChain

CONSTANTS Requests,
          Cases,        \* an environment and what each request asks
          Silences,     \* the sets of flows Google may leave unanswered
          Heads,        \* first bytes a random serial may have
          TokenLife,    \* `expires_in`, seconds
          Tick, Horizon,
          Patience,     \* an exchange Google answers takes no longer
          Unset, Unreadable,    \* a secret that is missing, or is garbage
          NoPromise, NoToken, NoLeaf, NoSki

ASSUME HeadsAssumption == Heads \subseteq 0 .. 255
ASSUME IssuanceTimes ==
  /\ Tick \in Nat \ {0} /\ Horizon \in Nat
  /\ TokenLife \in Nat /\ Patience \in Nat /\ TokenLife > Patience + 60
ASSUME NoneAssumption == NoPromise \notin Requests

VARIABLES env, asks, silent,
          now,
          cachedToken,  \* [value, expiresAt], the value being its real expiry
          cache,        \* whose check the isolate holds on to
          promise,      \* request -> the check it started
          at,           \* flow -> the step it has reached
          began,        \* flow -> start of its token exchange
          bearer,       \* flow -> the token it presents to KMS, and when
          awaited,      \* request -> whose check it waits for
          lost,         \* request -> the checks that had failed when it asked
          leaf,         \* request -> the certificate to be signed
          issued,       \* request -> the chain and ledger entry it returns
          outcome       \* request -> how it ended

vars == <<env, asks, silent, now, cachedToken, cache, promise, at, began, bearer,
          awaited, lost, leaf, issued, outcome>>
inputs == <<env, asks, silent>>

(* The two programs that talk to Google: a request, and the check it may    *)
(* start, which runs on whatever becomes of the request.                    *)
Issue(r) == <<"issue", r>>
Check(r) == <<"check", r>>
Flow == {"check", "issue"} \X Requests

Init ==
  /\ \E c \in Cases : env = c.env /\ asks = c.asks
  /\ silent \in Silences
  /\ now = 0 /\ cachedToken = NoToken /\ cache = NoPromise
  /\ promise = [r \in Requests |-> "none"]
  /\ at = [f \in Flow |-> IF f[1] = "issue" THEN "csr" ELSE "idle"]
  /\ began = [f \in Flow |-> 0] /\ bearer = [f \in Flow |-> NoToken]
  /\ awaited = [r \in Requests |-> NoPromise]
  /\ lost = [r \in Requests |-> {}]
  /\ leaf = [r \in Requests |-> NoLeaf]
  /\ issued = [r \in Requests |-> NoLeaf]
  /\ outcome = [r \in Requests |-> "none"]

Goto(f, step) == at' = [at EXCEPT ![f] = step]
Refuse(r, reason) ==
  /\ Goto(Issue(r), "done")
  /\ outcome' = [outcome EXCEPT ![r] = reason]

-----------------------------------------------------------------------------
(* The CSR: readable, signed with the key it names, and that key the        *)
(* attested one.                                                            *)
ParsesAsCsr(csr) == csr.form = "pkcs10"
CheckCsr(r) ==
  LET csr == asks[r].csr
      f == Issue(r)
  IN  /\ at[f] = "csr"
      /\ IF /\ ParsesAsCsr(csr)
            /\ VerifyWithPublicKey(env.runtime, csr.spki, csr.signature)
            /\ csr.spki = asks[r].sePublicKey
         THEN Goto(f, "load") /\ UNCHANGED outcome
         ELSE Refuse(r, "InvalidCsr")
      /\ UNCHANGED <<inputs, now, cachedToken, cache, promise, began, bearer, awaited,
                     lost, leaf, issued>>

(* loadKmsCredentials. *)
CredentialsLoad ==
  env.resource # Unset /\ env.sa \notin {"unset", "not JSON", "incomplete", "bad key"}

(* Mutant: a check that is still running taken for one that passed. *)
EnsureIntermediateMatchesKms_Optimistic(r) ==
  IF cache = NoPromise
  THEN /\ cache' = r /\ promise' = [promise EXCEPT ![r] = "pending"]
       /\ at' = [at EXCEPT ![Check(r)] = "token", ![Issue(r)] = "wait"]
       /\ awaited' = [awaited EXCEPT ![r] = r]
  ELSE Goto(Issue(r), "build") /\ UNCHANGED <<cache, promise, awaited>>

(* buildCachedIntermediateCheck: the promise the isolate holds, or a new one. *)
EnsureIntermediateMatchesKms(r) ==
  IF cache = NoPromise
  THEN /\ cache' = r /\ promise' = [promise EXCEPT ![r] = "pending"]
       /\ at' = [at EXCEPT ![Check(r)] = "token", ![Issue(r)] = "wait"]
       /\ awaited' = [awaited EXCEPT ![r] = r]
  ELSE /\ Goto(Issue(r), "wait") /\ awaited' = [awaited EXCEPT ![r] = cache]
       /\ UNCHANGED <<cache, promise>>
LoadKmsCredentials(r) ==
  /\ at[Issue(r)] = "load"
  /\ IF CredentialsLoad
     THEN EnsureIntermediateMatchesKms(r) /\ UNCHANGED outcome
     ELSE Refuse(r, "IssuanceFailed") /\ UNCHANGED <<cache, promise, awaited>>
  /\ lost' = [lost EXCEPT ![r] = {q \in Requests : promise[q] = "rejected"}]
  /\ UNCHANGED <<inputs, now, cachedToken, began, bearer, leaf, issued>>

(* Mutant: those who wait are told of success only. *)
AwaitCheck_SuccessOnly(r) ==
  /\ at[Issue(r)] = "wait" /\ promise[awaited[r]] = "fulfilled"
  /\ Goto(Issue(r), "build") /\ UNCHANGED outcome
  /\ UNCHANGED <<inputs, now, cachedToken, cache, promise, began, bearer, awaited,
                 lost, leaf, issued>>
AwaitCheck(r) ==
  /\ at[Issue(r)] = "wait"
  /\ \/ /\ promise[awaited[r]] = "fulfilled"
        /\ Goto(Issue(r), "build") /\ UNCHANGED outcome
     \/ promise[awaited[r]] = "rejected" /\ Refuse(r, "CheckFailed")
  /\ UNCHANGED <<inputs, now, cachedToken, cache, promise, began, bearer, awaited,
                 lost, leaf, issued>>

-----------------------------------------------------------------------------
(* Mutant: the failed promise is kept. *)
RejectCheck_Kept(r) ==
  /\ promise' = [promise EXCEPT ![r] = "rejected"] /\ cache' = cache
  /\ Goto(Check(r), "done") /\ UNCHANGED outcome
(* kms.ts.  Any failure of a flow ends it; a check's also makes the isolate *)
(* let go of it.  (Of a check's steps only the key's last re-encoding,      *)
(* extractSpkiDer of a certificate already parsed, lies outside the catch   *)
(* that lets go: it has nothing left to throw for.)                         *)
RejectCheck(r) ==
  /\ promise' = [promise EXCEPT ![r] = "rejected"] /\ cache' = NoPromise
  /\ Goto(Check(r), "done") /\ UNCHANGED outcome
Throw(f) ==
  IF f[1] = "check" THEN RejectCheck(f[2])
  ELSE Refuse(f[2], "IssuanceFailed") /\ UNCHANGED <<promise, cache>>

Margin == 60
TokenUsable == cachedToken # NoToken /\ cachedToken.expiresAt - Margin > now

(* The token goes straight into a request to KMS.                           *)
Present(f, token) ==
  Goto(f, "kms") /\ bearer' = [bearer EXCEPT ![f] = [value |-> token, since |-> now]]

(* getAccessToken; the assertion is minted and posted without a wait.       *)
GetAccessToken(f) ==
  /\ at[f] = "token"
  /\ IF TokenUsable THEN Present(f, cachedToken.value) /\ UNCHANGED began
     ELSE Goto(f, "exchange") /\ began' = [began EXCEPT ![f] = now] /\ UNCHANGED bearer
  /\ UNCHANGED <<inputs, now, cachedToken, cache, promise, awaited, lost, leaf,
                 issued, outcome>>

(* Mutant: the life counted from the answer. *)
CacheToken_AtAnswer(f, value) ==
  cachedToken' = [value |-> value, expiresAt |-> now + TokenLife]
(* The life is counted from before the exchange.                            *)
CacheToken(f, value) ==
  cachedToken' = [value |-> value, expiresAt |-> began[f] + TokenLife]
TokenExchanged(f) ==
  /\ at[f] = "exchange"
  /\ \/ /\ \E minted \in {t \in 0..now : began[f] <= t /\ t % Tick = 0} :
             CacheToken(f, minted + TokenLife) /\ Present(f, minted + TokenLife)
        /\ UNCHANGED <<promise, cache, outcome>>
     \/ Throw(f) /\ UNCHANGED <<cachedToken, bearer>>
  /\ UNCHANGED <<inputs, now, began, awaited, lost, leaf, issued>>

(* kmsGetPublicKey and what the check makes of the answer.                  *)
KmsExpectedAlgorithm == "EC_SIGN_P384_SHA384"
IntermediateMatches ==
  /\ env.resource.algorithm = KmsExpectedAlgorithm
  /\ env.pem # Unreadable /\ env.pem.spki = env.resource.spki
PublicKeyArrives(r) ==
  LET f == Check(r)
  IN  /\ at[f] = "kms"
      /\ \/ /\ IntermediateMatches
            /\ promise' = [promise EXCEPT ![r] = "fulfilled"]
            /\ Goto(f, "done") /\ UNCHANGED <<cache, outcome>>
         \/ Throw(f)
      /\ UNCHANGED <<inputs, now, cachedToken, began, bearer, awaited, lost, leaf, issued>>

-----------------------------------------------------------------------------
(* The certificate. *)
assuranceLevelFor(platform) == IF platform = "android" THEN "AL2" ELSE "AL1"
leafValidityDays(level) == IF level = "AL2" THEN 90 ELSE 180

(* resolveLeafProfile. *)
ProfileResolves(platform) == env.uuid[platform] # Unset
LeafProfile(platform) ==
  [level |-> assuranceLevelFor(platform), cplRecord |-> env.uuid[platform],
   ocspUrl |-> env.ocspUrl, caIssuersUrl |-> env.caIssuersUrl]
RealReelLeafSubject(platform) == env.subject[platform]

(* A positive INTEGER in DER's shortest form; and the number the ledger is  *)
(* given, derived from the same bytes a second time.                        *)
CertSerial(bytes) ==
  LET positive == Head(bytes) % 128
  IN  <<IF positive = 0 THEN 1 ELSE positive>> \o Tail(bytes)
(* Mutant: without the second of the two transforms. *)
SerialDecimal_Zero(bytes) == <<Head(bytes) % 128>> \o Tail(bytes)
SerialDecimal(bytes) ==
  LET positive == Head(bytes) % 128
  IN  <<IF positive = 0 THEN 1 ELSE positive>> \o Tail(bytes)

Day == 86400
NotBefore == now - 300
NotAfter(days) == NotBefore + days * Day - 1

KeyUsages == [ca |-> FALSE, usage |-> {"digitalSignature", "nonRepudiation"},
              extended |-> {"emailProtection", "documentSigning", "claimSigning"}]
ReadSubjectKeyIdentifier(cert) == cert.ski
KeyIdentifiers(spki, issuer) ==
  [ski |-> spki.key, aki |-> ReadSubjectKeyIdentifier(issuer)]
PolicyExtensions(profile) ==
  [level |-> profile.level, cplRecord |-> profile.cplRecord,
   ocspUrl |-> profile.ocspUrl, caIssuersUrl |-> profile.caIssuersUrl]

BuildLeafCertificate(r, bytes) ==
  LET platform == asks[r].platform
      profile == LeafProfile(platform)
  IN  [serial |-> CertSerial(bytes), issuer |-> env.pem.subject,
       subject |-> RealReelLeafSubject(platform),
       from |-> NotBefore, until |-> NotAfter(leafValidityDays(profile.level)),
       spki |-> asks[r].csr.spki, ca |-> KeyUsages.ca, bytes |-> bytes,
       signature |-> NoKey,
       ext |-> [usages |-> KeyUsages, keys |-> KeyIdentifiers(asks[r].csr.spki, env.pem),
                policy |-> PolicyExtensions(profile)]]

(* issueLeafChainFromCSR up to the signature; `r` is the rest of the        *)
(* serial's twenty bytes.                                                   *)
CanBuild(platform) ==
  /\ ProfileResolves(platform)
  /\ env.pem # Unreadable /\ ReadSubjectKeyIdentifier(env.pem) # NoSki
BuildLeaf(r) ==
  LET f == Issue(r)
  IN  /\ at[f] = "build"
      /\ \/ /\ CanBuild(asks[r].platform)
            /\ \E head \in Heads :
                 leaf' = [leaf EXCEPT ![r] = BuildLeafCertificate(r, <<head, r>>)]
            /\ Goto(f, "token") /\ UNCHANGED outcome
         \/ /\ ~CanBuild(asks[r].platform)
            /\ Refuse(r, "IssuanceFailed") /\ UNCHANGED leaf
      /\ UNCHANGED <<inputs, now, cachedToken, cache, promise, began, bearer, awaited,
                     lost, issued>>

(* asymmetricSign, over the SHA-384 of what is to be signed: KMS refuses a  *)
(* digest that is not its key's.                                            *)
KmsSignature ==
  [by |-> env.resource.spki.key, declared |-> "ecdsa", hash |-> "SHA-384", shape |-> "der"]
FinalizeLeaf(unsigned) == [unsigned EXCEPT !.signature = KmsSignature]
SignatureArrives(r) ==
  LET f == Issue(r)
  IN  /\ at[f] = "kms"
      /\ \/ /\ env.resource.algorithm = KmsExpectedAlgorithm
            /\ issued' = [issued EXCEPT ![r] =
                 [leaf |-> FinalizeLeaf(leaf[r]), intermediate |-> env.pem,
                  serialDecimal |-> SerialDecimal(leaf[r].bytes),
                  notAfter |-> leaf[r].until]]
            /\ Goto(f, "done") /\ outcome' = [outcome EXCEPT ![r] = "Issued"]
            /\ UNCHANGED <<promise, cache>>
         \/ Throw(f) /\ UNCHANGED issued
      /\ UNCHANGED <<inputs, now, cachedToken, began, bearer, awaited, lost, leaf>>

(* Time passes, for no answered exchange longer than Patience: an           *)
(* assumption on Google, the code sets no limit.                            *)
TimePasses ==
  /\ now + Tick <= Horizon /\ now' = now + Tick
  /\ \A f \in Flow : at[f] = "exchange" /\ f \notin silent => now' <= began[f] + Patience
  /\ UNCHANGED <<inputs, cachedToken, cache, promise, at, began, bearer, awaited, lost,
                 leaf, issued, outcome>>

Local(f) ==
  \/ GetAccessToken(f)
  \/ /\ f[1] = "issue"
     /\ CheckCsr(f[2]) \/ LoadKmsCredentials(f[2]) \/ AwaitCheck(f[2]) \/ BuildLeaf(f[2])
Answered(f) ==
  /\ f \notin silent
  /\ \/ TokenExchanged(f)
     \/ f[1] = "check" /\ PublicKeyArrives(f[2])
     \/ f[1] = "issue" /\ SignatureArrives(f[2])
Next == TimePasses \/ \E f \in Flow : Local(f) \/ Answered(f)

Spec == Init /\ [][Next]_vars

(* The event loop runs what is ready; Google answers the flows it is not    *)
(* silent to.                                                               *)
FairSpec == Spec /\ \A f \in Flow : WF_vars(Local(f)) /\ WF_vars(Answered(f))

-----------------------------------------------------------------------------
(* What the secrets can hold: an intermediate is a CA that the root issued  *)
(* and the root is none of its own intermediates, as lintProfile of the CA  *)
(* tooling insists; and a KMS key of the expected algorithm is a key on     *)
(* P-384.                                                                   *)
Certified(e) ==
  /\ IsCert(e.root) /\ e.root.ca
  /\ e.pem # Unreadable =>
       /\ IsCert(e.pem) /\ e.pem.ca /\ ~SelfSigned(e.pem)
       /\ IssuedBy("edge", e.pem, e.root)
  /\ e.resource # Unset /\ e.resource.algorithm = KmsExpectedAlgorithm =>
       /\ e.resource.spki.algorithm = "ec" /\ e.resource.spki.curve = "P384"
       /\ e.resource.spki.oidParams /\ e.resource.spki.uncompressed
ASSUME HierarchyAssumption == \A c \in Cases : Certified(c.env)

(* verifyChainToRealReelRoot, the chain check of the test suite.            *)
VerifyChainToRealReelRoot(chain, root, time) ==
  VerifyChainToTrustedRoots("edge", chain, {root}, time)
Cap(level) == IF level = "AL2" THEN 90 ELSE 366

(* At any time of the leaf's at which its CAs are in date themselves.       *)
ChainsToRoot(given, root) ==
  /\ \A t \in {given.leaf.from, given.leaf.from + 300, given.leaf.until} :
       (\A ca \in {given.intermediate, root} : ca.from <= t /\ t <= ca.until) =>
         TRUE \in VerifyChainToRealReelRoot(<<given.leaf, given.intermediate>>, root, t)
  /\ given.leaf.ext.keys.aki = given.intermediate.ski
WithinCap(given) ==
  given.leaf.until - given.leaf.from + 1 <= Cap(given.leaf.ext.policy.level) * 86400
LedgerEntryHolds(given) ==
  /\ given.serialDecimal = given.leaf.serial /\ given.notAfter = given.leaf.until
  /\ given.serialDecimal[1] \in 1 .. 127

(* A leaf that leaves the isolate stands up: it chains to the root through  *)
(* the intermediate handed out with it, for as long as both of these last   *)
(* (nothing cuts a leaf to its issuer's life), on a device five minutes     *)
(* slow too; it certifies the attested key; it is valid for no longer than  *)
(* its assurance level allows, both ends counted; and the serial and expiry *)
(* for the ledger are the ones a verifier reads off it, a positive number   *)
(* with no leading zero. Whatever the secrets and whoever joined whose      *)
(* check (buildCachedIntermediateCheck, buildLeafCertificate).              *)
EveryLeafStands ==
  \A r \in Requests : issued[r] # NoLeaf =>
    /\ ChainsToRoot(issued[r], env.root) /\ WithinCap(issued[r]) /\ LedgerEntryHolds(issued[r])
    /\ issued[r].leaf.spki = asks[r].sePublicKey

(* A token sent to KMS has more than a minute left on Google's clock, so a  *)
(* slow request does not arrive with an expired one, however the exchange   *)
(* that fetched it was delayed (getAccessToken).                            *)
TokenOutlivesItsUse ==
  \A f \in Flow : bearer[f] # NoToken => bearer[f].value - bearer[f].since > 60

(* An outage is over when it is over: a request is refused on account of    *)
(* the check only by one that had not failed yet when the request asked     *)
(* (`cache = null` in every failing branch).                                *)
OutagesAreForgotten ==
  \A r \in Requests : outcome[r] = "CheckFailed" => awaited[r] \notin lost[r]

(* From its CSR to its leaf, every registration is answered, or waits on a  *)
(* silent Google, which it does only when its own request, or the check it  *)
(* joined, met the silence: nothing else of the isolate is held up (the     *)
(* fetches without a timeout).                                              *)
MeetsSilence(r) ==
  \/ Issue(r) \in silent
  \/ awaited[r] # NoPromise /\ Check(awaited[r]) \in silent
EveryRegistrationEnds ==
  \A r \in Requests : <>(at[Issue(r)] = "done" \/ MeetsSilence(r))

-----------------------------------------------------------------------------
(* The inductive invariant: the types; a check the isolate holds has not    *)
(* failed, and none starts before its request asks...                       *)
Steps == {"idle", "csr", "load", "wait", "build", "token", "exchange", "kms", "done"}
Outcomes == {"none", "InvalidCsr", "IssuanceFailed", "CheckFailed", "Issued"}
Control ==
  /\ at \in [Flow -> Steps] /\ outcome \in [Requests -> Outcomes]
  /\ promise \in [Requests -> {"none", "pending", "fulfilled", "rejected"}]
  /\ cache \in Requests \cup {NoPromise} /\ awaited \in [Requests -> Requests \cup {NoPromise}]
  /\ lost \in [Requests -> SUBSET Requests]
  /\ now \in Nat /\ began \in [Flow -> Nat]
Domains == DOMAIN bearer = Flow /\ DOMAIN leaf = Requests /\ DOMAIN issued = Requests
CheckInv ==
  /\ cache # NoPromise => promise[cache] \in {"pending", "fulfilled"}
  /\ \A r \in Requests :
       /\ at[Issue(r)] \in {"csr", "load"} =>
            at[Check(r)] = "idle" /\ promise[r] = "none" /\ awaited[r] = NoPromise
       /\ at[Issue(r)] = "wait" => awaited[r] \in Requests
       /\ promise[r] = "fulfilled" => IntermediateMatches
       /\ awaited[r] \notin lost[r]
(* ... a token's life is counted short, never long...                       *)
TokenInv ==
  /\ cachedToken # NoToken =>
       /\ cachedToken.value \in Int /\ cachedToken.expiresAt \in Int
       /\ cachedToken.value >= cachedToken.expiresAt
  /\ \A f \in Flow : /\ began[f] <= now
                     /\ at[f] = "exchange" /\ f \notin silent => now <= began[f] + Patience
  /\ TokenOutlivesItsUse
(* ... and what a request has established by the step it is at.             *)
Promising(r) ==
  /\ leaf[r].serial = SerialDecimal(leaf[r].bytes) /\ leaf[r].serial[1] \in 1 .. 127
  /\ leaf[r].until - leaf[r].from + 1 <= Cap(leaf[r].ext.policy.level) * 86400
  /\ leaf[r].spki = asks[r].csr.spki
  /\ {"serial", "from", "until", "spki", "ext"} \subseteq DOMAIN leaf[r]
LeafTruthful(r) ==
  /\ IntermediateMatches /\ WithinCap(issued[r]) /\ LedgerEntryHolds(issued[r])
  /\ issued[r].leaf.spki = asks[r].sePublicKey
Progress(r) ==
  LET here == at[Issue(r)]
  IN  /\ here \notin {"csr", "done"} => asks[r].csr.spki = asks[r].sePublicKey
      /\ here \in {"build", "token", "exchange", "kms"} => IntermediateMatches
      /\ here \in {"token", "exchange", "kms"} => Promising(r)
      /\ issued[r] # NoLeaf => LeafTruthful(r)
ProgressInv == \A r \in Requests : Progress(r)
IssuanceInv == Control /\ Domains /\ CheckInv /\ TokenInv /\ ProgressInv

(* A leaf to be signed is the intermediate's, and not a CA's; one that was  *)
(* signed chains to the root.                                               *)
Fitting(c) ==
  /\ c.issuer = env.pem.subject /\ c.ca = FALSE /\ c.ext.keys.aki = env.pem.ski
  /\ c.from \in Int /\ c.until \in Int /\ c.from + 300 <= c.until
  /\ {"issuer", "ca", "from", "until", "ext", "signature"} \subseteq DOMAIN c
ChainInv ==
  /\ Certified(env)
  /\ \A r \in Requests :
       /\ at[Issue(r)] \notin {"csr", "load", "done"} => env.resource # Unset
       /\ at[Issue(r)] \in {"token", "exchange", "kms"} => Fitting(leaf[r])
       /\ issued[r] # NoLeaf => ChainsToRoot(issued[r], env.root)
=============================================================================
