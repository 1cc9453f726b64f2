# RealReel C2PA: a TLA+ verification of its signing, enrollment and upload pipeline

This directory models the parts of the repository whose correctness depends on
the order in which things happen: who burns a single-use value first, what a
request read before somebody else changed it, what a crash or a lost reply
leaves behind, how long a cached answer outlives the fact it was made from.
The modules are translated from the TypeScript sources; TLC checks them on
small instances and TLAPS proves the main results for every instance.

## 1. The system

RealReel issues hardware-attested C2PA signing certificates to phones and
verifies what those phones upload.

| Component | Source | State it keeps | Operations | Talks to |
|---|---|---|---|---|
| Enrollment functions (edge functions) | `ca/get-attestation-challenge`, `ca/register-signing-key` | none of their own; `enrollment_challenges`, `user_signing_keys`, `issued_certificates` in the database | issue a challenge; register a key | database RPCs, Cloud KMS, Google's revocation list |
| Mint and revoke functions | `ca/mint-attestation-challenges`, `ca/revoke-signing-key` | `attestation_challenges`, `revoked_at` | mint a batch of per-upload nonces; revoke a key | database |
| Leaf issuance and KMS client | `ca/_shared/kms.ts`, `attestation/pki.ts`, the end of `register-signing-key` | a cached access token, the promise of the intermediate check; both of one isolate | CSR check, token exchange, getPublicKey, certificate building, asymmetricSign | Google |
| Rate limiter | `ca/_shared/rate_limit.ts` | counters in Deno KV | `enforceRateLimit` | KV |
| Android revocation cache | `ca/_shared/attestation/android_revocation.ts` | the last list, when it was fetched, when to retry | load | Google |
| Attestation validation | `ca/_shared/attestation/{pki,android,apple,roots}.ts`, `ca/_shared/config.ts` | none | chain check with its curve and hash fallback, the gates on either platform's evidence | - |
| Upload verifier | `verifier/src` | none between requests, besides the database | `POST /verify` | storage, the vendor's OCSP responder, Play Integrity, database |
| Manifest policies and time gates | `trust-core/src/policies`, `verifier/src/profiles`, `verify.ts`, `cert-validity.ts` | none | decide an upload from its manifest store | c2pa-rs, the vendor's OCSP responder |
| Trust sources | `verifier/src/trust`, `trust-core/src/trust-list` | the configuration, from boot on | load `trust-sources.yaml`, resolve an issuer | - |
| Live leaf OCSP responder | `ocsp-leaf` | a response cache, a cached metadata token | answer one status request | database, Cloud KMS |
| OCSP relay and ICA responses | `ocsp/router.ts` | none; reads the published responses from Workers KV | answer for the intermediates, relay for the leaves | `ocsp-leaf` |
| OCSP refresh job | `.github/workflows/refresh-ocsp.yml`, `ocsp/refresh-ops.ts` | the sticky status and the published responses, in Workers KV | scheduled and dispatched refreshes | Cloud KMS, Workers KV |
| PKI worker | `pki` | none | serve certificates and CRLs | - |
| Native capture module | `native` | the device keystore, the enrollment record | generate, attest, sign, rotate, delete | enrollment functions |

How they interact. The phone asks for an enrollment challenge, makes a hardware
key attested over it, and registers the key; the CA burns the challenge, checks
the evidence, has the leaf signed in KMS and inserts one operational row and one
ledger row. Later the phone mints nonces for that key, binds each upload to one,
and posts the asset; the verifier runs the offline gates, asks the vendor's
OCSP responder about a foreign camera, looks the capture's and the signer's keys
up in the ledger, checks the evidence, burns the nonce and answers. Revoking a
key and deleting an account change the same rows while uploads are in flight.
Third parties learn of a revocation from the leaf OCSP responder, through the
relay, and of an intermediate's from the pre-signed responses.

### What is hard

- *Interleaving and atomicity.* Each edge function and each `/verify` request is
  a chain of awaits; two uploads may carry the same nonce, two registrations the
  same challenge or the same key; a key is revoked or its owner deleted between
  two awaits of an upload.
- *Partial failure.* A commit whose reply is lost; a leaf signed in KMS before
  the row that makes it valid; a refresh job that publishes one of two responses.
- *Timeouts and retries.* The OCSP deadline, the storage abort, the Play
  Integrity timeout, and the awaits that have none; which refusals and which
  faults of the server cost the client its nonce or challenge.
- *Stale state.* The response cache of the OCSP responder, the revocation list,
  the KMS token, the shared intermediate check, the sticky status.
- *Bounds.* The rate-limit buckets under contention; certificate windows; patch
  windows counted in months and days.
- *Odd structures.* Stores whose manifests refer to each other in a circle, records that contradict the live findings, chains with a
  superseded copy of the root on top: a sequence of gates, each reading a
  different part, must add up to one statement about the whole.

`PROJECT.json` lists each hazard at its line with the properties that cover it.

## 2. Modules

| Module | Models | Depends on |
|---|---|---|
| `SigningLedger` | the database rows and RPCs the CA functions and the verifier share (external: its SQL is in the app's repository) | |
| `UploadVerifier` | `POST /verify` as a chain of awaits | `SigningLedger` |
| `SingleUseAcceptance` | abstract: exclusive single-use tokens, which the verifier and enrollment both implement | |
| `UploadRefinement` | the refinement mapping and the inductive invariant | `UploadVerifier`, `SingleUseAcceptance` |
| `UploadVerifierProofs` | theorems and proofs | `UploadRefinement` |
| `Enrollment` | challenge issue, burn, validation, issuance, persistence | `SingleUseAcceptance` |
| `EnrollmentProofs` | theorems and proofs | `Enrollment` |
| `SlotAdmission` | abstract: slots taken one at a time, without reads, races or retries | |
| `RateLimiter`, `RateLimiterProofs` | one identity's calls against the KV counters of an endpoint's windows | `SlotAdmission` |
| `AndroidRevocationCache`, `AndroidRevocationProofs` | overlapping loads of Google's list of revoked attestation keys | |
| `LeafOcsp`, `LeafOcspProofs` | the live leaf responder's requests, its reply cache and time | `SigningLedger` |
| `IcaOcspRefresh`, `IcaOcspRefreshProofs` | the scheduled job that signs and publishes the CA's OCSP responses | |
| `TrustSources` | `trust-sources.yaml`: loading, refusal, issuer resolution, the anchor pool | |
| `ManifestStore` | a store, the pure policies over it, what the c2pa-rs engine reports of it | `TrustSources` |
| `ManifestPolicy` | the gates on one upload, from the container sniff to the ledger's window | `ManifestStore` |
| `ManifestVerdict`, `ManifestVerdictProofs` | what the gates amount to, stated by paths through the store | `ManifestPolicy` |
| `CertChain` | `verifyChainToTrustedRoots`: path building, dates, the engine's curve and hash fallback | |
| `DeviceAttestation` | the gates on an Apple or Android attestation | `CertChain` |
| `AttestationVerdict` | what the verdict promises, stated by certificates, keys and the calendar | `DeviceAttestation` |
| `LeafIssuance` | concurrent registrations of one isolate, from the CSR to the signed leaf | `CertChain` |
| `RegistrationProofs` | theorems and proofs of the chain check, the attestation verdict and leaf issuance | `AttestationVerdict`, `LeafIssuance` |
| `MC*` | instances for TLC | |

### `SigningLedger` and `UploadVerifier`

A request `r` has a program counter `pc[r]`, one location per await of the
handler, the upload it carries and the verdict it answered.

| Location | Action | Code |
|---|---|---|
| `fetch` | `FetchAsset` | bearer check, body, URL allow-list, storage GET up to its headers, `server.ts` |
| `body` | `ReadBody` | the bytes, read after the abort timer is cleared and outside the `try` |
| `gates` | `OfflineGates` | offline read and every gate that reads only bytes, `verify.ts` |
| `ocsp` | `OcspAnswer`, `OcspTimeout` | online read with its deadline |
| `capture` | `LookupCapture` | Stage 1 denylist |
| `signer` | `LookupSigner` | Stage 2 row, leaf window, envelope structure |
| `token` | `GetAccessToken` | Google's access token, where Play Integrity is decoded |
| `evidence` | `CheckEvidence` | App Attest and Play Integrity |
| `burn` | `BurnNonce` | `consume_and_record_attestation` |
| `derive` | `DeriveAndAnswer` | metadata, location backstop, the 200 |

`DatabaseFails` is a lookup or burn that fails before any effect; the second
disjunct of a winning `BurnNonce` is a commit whose reply is lost;
`InstanceDies` takes a request away at any await. `Elsewhere` is the rest of the
system: enrollment, revocation, account deletion and minting, one database
transaction each. `VendorRevokes` is the vendor of a foreign camera revoking its
certificate. `spender`, `denied` and `gone` are history: who consumed each
challenge, and which certificates were revoked or orphaned when a request was
submitted. The content of an asset is a record of the facts its verdict depends
on; the pure gates, which `ManifestPolicy` models, are one field, `structure`.

### `Enrollment`

The same style: `pc[r]` runs through `inputs` (Android only), `limit`, `burn`,
`validate`, `issue`, `persist`. An attempt says which challenge it redeems, and
which key its body, its CSR and its attestation name, independently, so that the
checks that tie them together have something to compare. `redeemer`,
`enroller`, `metered` (asked the rate limiter) and `signed` (KMS signed a leaf
for it) are history. An outcome says where a fault was found: `misconfigured`
and `unavailable` are those `index.ts` finds before it meters or burns (the intermediate, the Android
settings, the revocation list), `issuance failed` those of the material it reads
after the burn (KMS credentials, the CPL record, the check that KMS and the
intermediate agree), before or after KMS has signed. Under `ImplementsSingleUse` a challenge is a token, its
redeemer the holder, and a registration is accepted when it is answered with a
leaf: one whose row is committed but whose reply is lost was refused, and keeps
the token.

### `RateLimiter`

A call charges the counter of each of its windows in order; `ReadCounter` is
the read of one attempt and `Charge`, `Retry` and `CommitThrows` the outcomes of
its check-and-set, `OpenKv` the choice between a KV that opens and the fail-open
path. `charged` and `entered` are
history: who incremented each counter, and what it held when a call turned to it.
Under `ImplementsSlots` a counter has `max` minus its value slots left (`left`), a call
needs one of each window's bucket at the instant it read the clock (`needs`), and a
check-and-set that applies is the taking of a slot, the last of them admission; a
read, a conflict and a retry are nothing at all.

### `AndroidRevocationCache`

`Load` answers from the isolate's copy or begins a fetch, keeping its own
reading of the clock and of the copy; `ListRead` is the instant Google's server
reads its list, apart from `FetchSucceeds` and `FetchFails`, so that overlapping
loads end in any order. The list only grows and is the set of serials on it.

### `LeafOcsp`

One request is `Ask` (the synchronous cache lookup), `Lookup` (the ledger's
snapshot), `Stamp` (its reply: unsigned, or stamped and sent to the KMS) and
`Sign` (the signature is back, the reply is cached). `CacheHit`, `CacheMiss` and
`CacheSet` are the LRU over a JavaScript `Map`, whose order is `order`. The
ledger of `SigningLedger` enrolls, revokes and deletes meanwhile; `when` is
`revoked_at`. `LedgerDelay` and `SignDelay` are assumptions about the
environment, not timeouts of the code, which has none: the two bounds are
stated, and proved, in terms of them. With `OCSP_LEAF_VALIDITY_HOURS` at its
limit of 72 the policy's 72-hour clock is thus exceeded by those delays.

### `IcaOcspRefresh`

`pc` walks the job's steps in the order of the workflow. `Prepare` is a step
without `continue-on-error`, whose failure stops the job (`aborted`); `Fails` is
one with it (`failed`), which skips the steps that follow and which the alarm
looks at. A put may be applied although its step fails. `Queue` is the
concurrency group: one run, and the newest of those that wait. `result`,
`lastGreen`, `warned` and `asked` are history.

### `TrustSources`, `ManifestStore`, `ManifestPolicy`, `ManifestVerdict`

`ManifestPolicy` is one request. `at` is the gate it has reached, in the code's
order; an `Answer` ends it with the code the gate throws. Two gates are walks and
take one step per iteration: `ExamineLevel` is a level of the breadth-first
search for AI declarations, `WalkUpdateManifest` one update manifest on the way
to the capture. `NetworkRevocationGate` is the second, online read.

| `at` | Action | Code |
|---|---|---|
| `boot` | `Boot` | `loadTrustConfig` |
| `container`, `ai` | `ReadStore`, `ExamineLevel` | container sniff, reader, `findGenerativeAiSource`; `verify.ts` |
| `issuer` | `ActiveIssuer` | issuer resolution, `verify.ts` |
| `times` | `CertValidityTimeBounds` | Gates 1 and 2, `cert-validity.ts` |
| `strict` | `ValidationStatusGate` | `classifyStrictValidationStatus` |
| `stage2`, `walk` | `Stage2Parent`, `WalkUpdateManifest` | `resolveCaptureThroughUpdateManifests` |
| `fresh` .. `recorded` | `CaptureIsFresh` .. `RecordedIngredientResults` | the gates on the capture, `profiles/_shared.ts` |
| `uploadActions` | `UploadActions` | the active manifest's actions |
| `ocsp` | `NetworkRevocationGate` | `readStoreWithOcsp`, `withOcspTimeout` |
| `ledger` | `LedgerTimeBounds` | Gate 3, once the ledger row is in hand |

A store is any function from labels to manifests: references may dangle, form
circles, or lead back to the upload. A code in an
ingredient's record is a failure unless `recorded-results.ts` lists it as none
(`NonFailureCodes`), and `signingCredential.ocsp.unknown` is listed. So is a
responder's "unknown": the engine reports it as informational, and only "revoked" makes a finding
(`OcspFindings`). The engine (c2pa-rs) is modelled by what it
reports (`Findings`, `StatusOf`, `TrustedParents`): in particular it leaves out
of its status a finding that the ingredient's own record lists, which is why
`findUnverifiedRecordedFailures` exists. An expired chain is untrusted too, as
the engine's trust check includes validity. `Classify` answers with any of the
codes its entries allow, since the order of the engine's entries is its own.
`ManifestVerdict` describes an acceptable upload without gates and without
walks, by the existence of a path, and the properties compare the two.

### `CertChain`, `DeviceAttestation`, `AttestationVerdict`

`DeviceAttestation` is one attestation on its way through `apple.ts` or
`android.ts`, one action per gate. Which of a gate's several codes it refuses
with is abstracted to one, because the client is told only
`ATTESTATION_STALE_PATCH` apart from the rest. `CertChain` models pkijs's engine
as the set of answers it may give (`EngineAnswers`): it validates the *last*
certificate it is given, which is why `verifyChainToTrustedRoots` hands the
chain over in reverse order and without its self-signed top. Signatures are
records of who signed with which hash in which encoding, so that the fallback
(`FallbackApplies`) has cases to tell apart; WebCrypto takes SHA-1 with RSA and
not with ECDSA. A day is a number; patch windows
go through the Gregorian calendar, as a `Date`'s getters do. `AttestationVerdict` states what the
verdict promises by a line of signatures up to a pinned root and by months
stepped one at a time; `StraightUp` is the chain as devices present it, each
certificate issued by the next, the last by a pinned root or itself a copy of
one, and vouched for by in-date CAs only. The field readers keep the code's difference between a field
that is absent, present in a form the reader accepts and present in one it does
not (`FieldForms`).

### `LeafIssuance`

A *flow* is a program that talks to Google: a registration, or the check of the
intermediate one of them started for all. `at[f]` is the step it has reached:
`csr` (`CheckCsr`), `load` (`LoadKmsCredentials`, which joins or starts the
check), `wait` (`AwaitCheck`), `build` (`BuildLeaf`), `token`
(`GetAccessToken`), `exchange` (`TokenExchanged`), `kms` (`PublicKeyArrives` or
`SignatureArrives`). `cache` and `promise` are the closure variable of
`buildCachedIntermediateCheck` and what became of each promise it held;
(A throw of `extractSpkiDer`, `index.ts:211`, would not clear `cache`; it is given a
certificate that was parsed a line before and has nothing left to throw for, and is left out.)
`cachedToken` is the token of `kms.ts`, whose `value` is the expiry Google will
honour and whose `expiresAt` is the one the code believes. `env` holds the
isolate's secrets, any of them missing or wrong. `lost` and `bearer` are
history. The certificate carries what its extensions say, and
`verifyChainToRealReelRoot`, which the repository runs in its tests only, is here
the criterion of what a leaf must satisfy. It is asked at the leaf's first second, five
minutes later and at its last, whenever the intermediate and the root are in
date: nothing in the code cuts a leaf to its issuer's life, so a leaf outlives
an intermediate that is close to its end, and the criterion does not hide that.

## 3. Runs

| Run | Shows |
|---|---|
| `upload_race` | strict mode, two concurrent requests over three uploads that collide on keys, captures and nonces: no replay, no acceptance on another's burn, no acceptance after a revocation or an account deletion, and only the listed refusals cost a nonce; the pipeline implements `SingleUseAcceptance` |
| `upload_ends` | lenient mode, all eight uploads: every submitted one is answered or stays at an await for which the code sets no deadline; a silent OCSP responder, decode or storage server that sends no headers holds nobody |
| `upload_burn_last` | violation: a request burns its nonce and is then refused for its own content (the location backstop) although the source says the burn is last |
| `enroll_race` | two concurrent registrations out of nine attempts: a challenge enrolls once, a leaf that was answered has its row, a row is attested over a challenge its own registration burned, KMS signs for nobody who has not earned it (lost inserts included), and which server faults cost the client a challenge or rate limit; it implements `SingleUseAcceptance` |
| `rate_race` | four concurrent calls through two windows over bucket boundaries, two attempts each: no bucket admits more than its max, failing closed never refuses a lone caller, and the loops implement `SlotAdmission` |
| `android_list` | three overlapping loads: the list an enrollment gets is never older than the usable lifetime, and older than the refresh period only after a failed refresh |
| `ocsp_leaf` | three overlapping requests for one key: how long a good outlives a revocation, on the wire and from the cache, and that a deleted account does not hide one |
| `refresh_job` | any failures over four days and three dispatches: what a green run means, how long responses stay valid, and that a revocation does not revert silently |
| `manifest_walk` | four honest uploads and everything one or two deviations make of them, under odd configurations and every answer of the responders: the gates accept what is sound and refuse nothing that is, AI is named as such, the network is only asked where nothing else can refuse, the uploader's record hides no finding, every store is answered |
| `attest_gates` | iPhones and Android phones of three hierarchies, every single deviation, every mix of patch ages at five dates, on both runtimes: accepted means genuine, genuine is not refused, and stale means that an update helps |
| `issue_leaf` | two registrations in one isolate, each secret wrong in turn or the intermediate near its end, odd CSRs, Google late, failing or silent: leaves stand up, tokens do not expire under way, an outage is not remembered, only silence keeps a registration waiting |
| `refresh_dropped` | violation: a dispatched revocation is dropped by the concurrency group and never published |

Bounds. For the upload and enrollment runs, two keys of two accounts on two
platforms, one nonce per key and two requests are enough for every pairwise
race: every property relates at most two requests and one token, a key and its capture's key. A third request could only
repeat what one of two does, and the theorems of section 5 remove the bound. The
racing uploads are three that get past the offline gates (refused after its burn;
signed by one key over another's capture; over a foreign camera's), since the
others stop before any shared state or, like a plain accepted one, do only what
these do; `upload_ends` and `upload_burn_last` run all eight.
Requests are symmetric in the safety runs; keys are not (their platforms
differ). In the timed models a window, a lifetime or a delay is one or two ticks,
and `Horizon` leaves room for the longest of them to pass after the last event
that matters: in `ocsp_leaf` a revocation in the first two instants still sees
every bound expire, in `android_list` a copy outlives its usable lifetime, in
`refresh_job` a response outlives its validity. `rate_race` uses two attempts
where the code has four: two calls must be overtaken twice, which four calls do;
its three seconds cross a boundary of either window.
In `ocsp_leaf` three requests are there because a third must read what the
second stored over the first.

`manifest_walk` has four labels (upload, up to two stamps, capture), which is one
update manifest more than `MaxUpdateManifestDepth = 1` admits, and
`ReachableMaxDepth = 2` (the code's bounds are larger numbers of the same kind, and the
modules take any); the fourth label also serves as the stray manifest nothing
refers to. Clocks are a few units with `ClockSkewTolerance` 5 and
`IssuanceTolerance` 4, and the claimed times lie at and one past each bound.
`attest_gates` uses five days (2024-02-29, 2024-12-31, 2026-01-15, 2026-03-31,
2026-08-01: a leap day, a year's end, month ends), with patch ages at and one past each window. Its odd
requests deviate in one fact, patch ages in all three levels at once and with
one other fact. In `issue_leaf` a token lives 95 ticks (`TokenLife`), an exchange takes at most
20 (`Patience`), so that one more would violate the minute's margin; `Heads`
128 and 255 are the leading bytes whose sign bit must go, one of which becomes
zero; at most one flow is met with silence, since a second only adds to what is
excused. `CHECK_DEADLOCK FALSE` because a finite set of requests ends and
clocks stop at their horizon.

## 4. Fairness

`FairSpec` is used by three runs.

- `upload_ends`: weak fairness of each request's `Deadlined` steps, those that end by
  themselves: local work, the storage GET up to its headers
  (`SIGNED_URL_FETCH_TIMEOUT_MS`), the online read (`withOcspTimeout`), and Google's decode
  (`DECODE_TIMEOUT_MS`). Nothing is assumed of the `Answerable` ones: the
  storage body is read (`server.ts:324`) after the abort timer was cleared
  (`server.ts:292`), the database's hot path has no `statement_timeout`
  (`db.ts:153-155`), and `GoogleAuth.getAccessToken` (`play_integrity.ts:332`)
  has no timer. Nor of `OcspAnswer`: only `OcspTimeout` gets a request past a
  silent responder. `EndsOrWaitsWithoutDeadline` therefore says what the code
  guarantees: a request is answered, or stays for good at one of those awaits
  (`NoDeadline`).
- `manifest_walk`: weak fairness of `Next`. The gates are synchronous code, and
  the one read is under `withOcspTimeout`. What is left to show is that the
  walks end, on cyclic stores too.
- `issue_leaf`: weak fairness, per flow, of what the event loop runs (`Local`)
  and of Google's answers (`Answered`) *to the flows it is not silent to*: no
  fetch of `kms.ts` has a timeout, so nothing may be assumed about the others, and
  `EveryRegistrationEnds` says exactly which registrations a silence excuses. It
  covers a registration's way from its CSR to its leaf; the steps before and
  after are those of `Enrollment`, which has no liveness property because its
  database calls have no deadline either. That an answered exchange takes no
  longer than `Patience` is an assumption on Google, too.

The leaf responder has no liveness property: neither its ledger query nor its
KMS request has a timeout, and its delays are assumptions of the safety bounds.

## 5. Proofs

Eight modules hold theorems, about any number of keys, accounts, requests, calls
and loads, any manifest store and configuration, and any lifetimes, delays and
bounds. They rest on the named
assumptions of the modules alone: `OwnerAssumption`, `ConfigAssumption` (strict
mode requires Play Integrity to be configured, as `config.ts` enforces),
`UploadAssumption`, `NoTokenAssumption`, those of `Enrollment` and the ranges of
the numeric constants (`WindowsAssumption`, `BoundsAssumption`,
`CallsAssumption`, `TimesAssumption`, `RefreshAssumption`, `HeadsAssumption`,
`IssuanceTimes`, `NoneAssumption`, `InputAssumption`, `RootsAssumption`,
`BatchesAssumption`, `HierarchyAssumption`). In each module an
inductive invariant is shown to hold initially and to be kept by every action,
one lemma per action or per conjunct, and the properties follow from it.

**Upload.** `IInv` (in `UploadRefinement`) is inductive. Its parts:

- `TypeOK`;
- `SpenderInv`: a spent challenge is consumed and belongs to a request that is
  past the burn and carries that very token. This is what makes a winning burn
  exclusive, and what `SingleUse` alone does not say;
- `PipelineInv`: a request that reached `derive`, or was accepted, has passed
  the gates on the way: it owns its token, or none was required;
- `RevocationInv`: what a request found revoked or gone at submission is still
  so (revocation is monotone, enrollment is once per key), and a request past
  the lookup that reads it is not one of those;
- `RefusalKeepsNonce`.

Lemmas: `LedgerStepType` and `LedgerStepMonotone` (database steps keep their
types, and never un-revoke, un-consume or revive), `QuietShape` (the shape of a
step that touches no database row), and one lemma per conjunct over the whole
next-state relation (`SpenderStep`, `PipelineStep`, `RevocationStep`,
`RefusalStep`). From `InvariantHolds` follow `SingleUseHolds`,
`AcceptanceOwnsNonceHolds`, `RevokedNeverAcceptedHolds`,
`DeletedOwnerNeverAcceptedHolds`, `RefusalKeepsNonceHolds`, and `Refinement`:
every step of the verifier is a step of `SingleUseAcceptance` or leaves its
variables unchanged.

**Enrollment.** `EnrollInv` ties the burned challenge to the registration that
burned it (`RedeemerInv`), what a registration has checked to where it stands
(`ProgressInv`), every row to the registration that inserted it (`RowInv`), and
each outcome to what it cost (`CostInv`: who has asked the rate limiter, and
that whoever is at issuance, failed there or got a signature burned its own challenge).
From it follow `SignedLeafIsEarnedHolds` and `FaultCostHolds`.
`ChallengeEnrollsOnce` is not inductive: two rows of one challenge are excluded
because the challenge has one redeemer and a registration inserts one row.
`Refinement` maps the burn to taking the token (`RedeemerInv`: an unconsumed
challenge has no redeemer) and the answered insert to acceptance (`ProgressInv`: a
registration at `persist` redeemed its own challenge); what else a registration does is a
refusal or nothing.

**Rate limiter.** `RateInv`: a counter equals the number of calls that charged
it and never passes its max (`CounterInv`); a call has charged exactly the
windows before its own (`CallInv`); and every attempt it used up is an increment
by another call (`OvertakenInv`), which gives `RejectedOnlyWhenBusy`. The first
two give `AdmittedWithinMax` by comparing cardinalities. They also give
`Refinement`: `ChargeTakes` shows that an applied check-and-set found a slot left, since
the value that was read is still there, that the call had none of that counter's, and that
it has all of its slots exactly when the window is the last.

**Android list.** `LoadInv` rests on `CopyInv`: any copy, cached or kept by a
load as its fallback, misses nothing listed before the instant it is stamped
with. That survives an older copy overwriting a newer one, which is why the
stamp must be the instant the load began.

**Leaf OCSP.** `LeafInv` bounds what the ledger stamped, what the cache holds and
what each request carries by the present, and every good among them by the
revocation it missed. The proof needs nothing of the recency order: whatever is evicted, an entry that is left was once stored.

**Refresh job.** `RefreshInv`: what a run has established at each of its steps
(`RunInv`, `EndInv`), the reach of what is served (`WindowInv`), and that a
served revocation always has somebody who answers for it (`StickyInv`): the
sticky key, the run that is publishing it, or a dispatched run that ended red.

**Attestation verdict.** Three things stand between the gates and what
`AttestationVerdict` says, and each has its own lemmas.

- *The chain search.* `WaysUp` is a recursive function, one certificate
  longer at each length. `WaysUpAreClimbs` gets rid of the recursion: the ways up
  are exactly the sequences that start at the target, go by signatures, repeat
  nothing and end at the first root (`Climbs`). `LinesLeadUp` needs only some
  line of certificates, repetitions and detours included, since a shortest one
  is a climb. Both use `LeastNatural`, that a non-empty set of naturals has a
  least element, where a textbook would use induction. On top of them stand
  `PassedIsAnchored` (a chain that the engine accepts in the order the code
  hands it over is anchored, whatever else it holds) and `StraightUpPasses`
  (a chain as devices present it is accepted, its top dropped or not, on either
  runtime).
- *The calendar.* `MonthWindow` and `DayWindow`: the floors and ceilings the
  code computes with division and remainder from a `Date`'s fields are the
  months the verdict reaches by stepping (`MonthSteps`), for every day of every
  year; `CivilMonth` bounds what the conversion from a day number yields.
- *The records.* `LevelsRead`, `AgesRead`, `TagsRead`, `HardwareRows` and
  `AppRows` say what each reader of a key record returns for each form a field
  may have, and which rows of the AL2 table then hold.

`AttestationInv` (at the end of `AttestationVerdict`) says of an attestation at a
gate that it passed what is checked before it, and what each of those gates
found; `Judged` is what the three properties need of one that was answered.
`AppleGatesAreGenuine` and `AndroidGatesAreGenuine` are the equivalences in the
middle: all gates pass exactly when the statement is genuine. From them follow
`AcceptedIsGenuineHolds`, `GenuineIsNotRefusedHolds` and
`StaleMeansUpdatableHolds`. `RootsAssumption` (the pinned roots are finitely many
certificates that carry no attestation) is a fact about the constants in
`roots.ts`; `BatchesAssumption` only says of what shape the parser's output is.

Looking for these proofs corrected what the verdict is compared with. The engine
judges one of the ways up it finds, so a chain is sure to be accepted only where
none but in-date CAs vouch for any of its certificates (`StraightUp`). A patch
level outside the ranges the readers accept is missing, neither outdated nor
current; and on a TEE any keymaster level but software's will do
(`AndroidGenuine`), as `validateAndroidAttestation` has it.

**Leaf issuance.** `IssuanceInv` (at the end of `LeafIssuance`) has five parts.
`Control` and `Domains` are types. `CheckInv`: the promise the isolate holds has not failed,
nobody's check starts before its request asks, and nobody waits for a check that had
failed when it asked; from this `OutagesAreForgottenHolds`. `TokenInv`: the
expiry the code believes is never later than the one Google honours, and no
exchange is older than `Patience`; from this `TokenOutlivesItsUseHolds`, for
any token that lives longer than an exchange and a minute. `ProgressInv`: what a
request has established by the step it is at (the CSR's key is the attested
one, KMS and the intermediate agree, the certificate keeps its profile's
promises).

`ChainInv` is what the chains need besides: a certificate on its way to KMS names the
intermediate as its issuer, is no CA and begins five minutes before it ends or earlier
(`Fitting`), and one that was handed out chains to the root. `LeafChains` is the step that matters: from
"KMS and the intermediate agree" it finds the climb leaf, intermediate, root in
the engine's search. From both invariants follows
`EveryLeafStandsHolds`. It rests on `HierarchyAssumption`: the intermediate
among the secrets, if it is readable, is a CA that the root issued, and a KMS key of the
expected algorithm is on P-384. The code of the function does not check the first;
`lintProfile` in `ca/tools/build-ca-certs.ts`, which makes those
certificates, does. That KMS's key and the intermediate's agree is
not assumed: the runs give it wrong ones, and the check has to find out.

**Manifest verdict.** `GatesInv` (at the end of `ManifestVerdict`) has four parts.
`ControlInv` says where the request can be. `SieveInv`: a gate that was passed
(the request is at a later one, or got through them all) found what it looks
for; for the walk that is `WalkedPath`, the trail and the current manifest are a
lineage of lone parents. `AiInv`: the breadth-first walk has seen whatever paths
of its depth reach, and examined all of it but the frontier. `NetworkInv`: what the
responders and the ledger's window confirmed. The lemmas come in three groups:
the shape of a step (`Leads`, `NewlyPassed`, `StillPassed`, `StepAt`), paths
(`PathsGrow`, `PathsShrink`, `PathsClosed`), and what a gate's computation amounts
to (`BindingIsClean`, `RecordIsExcused`, `LeftOutIsExcused`, `DeclaringWraps`).
That no path leaves a closed set takes induction along the path;
`LeastNatural`, a non-empty set of naturals has a least element, stands in for
it: the first label outside would have a predecessor inside. From `GatesInv`
follow `AcceptedIsSound`, `AiDeclarationDecides`, `NetworkOnlyForSoundWrap`,
`SuppressionHidesNothing`, `OwnResponderVouches` and, with the bounds of the walks,
`TypeOK`. `SoundIsNotRefused` is the opposite direction and needs an invariant
of its own, `SoundInv`: a request whose upload has a sound path is at that path's
next manifest. Both are invariants about any store, cyclic ones included.

## 6. What is only model-checked, and what is not modelled

TLC only, because fairness and `ENABLED` are out of the prover's reach:
`EndsOrWaitsWithoutDeadline`, `EveryStoreIsAnswered`, `EveryRegistrationEnds`. The
violations are TLC's. Every other property of a passing run is proved. The type
invariants of `Enrollment` and `RateLimiter` are proved and not in a run's list.

What the models also show, without a run of their own:

- A leaf can be signed whose row is never inserted (`persist` fails or the
  isolate dies): it is in nobody's ledger, cost its owner a challenge, and
  `SignedLeafIsEarned` says that it is at least a leaf the client was entitled to.
- Settings of issuance that are wrong (`index.ts:645-678`) are found after the
  burn (`index.ts:488`), so that each retry costs a client another challenge
  until an operator repairs them.
- The recency order of the leaf responder's cache is modelled (`order`,
  `Evicted`); its entry bound follows from one synchronous `set`.
- An unrevoked leaf whose account was deleted is answered unsigned, because the
  lookup "only returns gone rows when revoked" (`verifier/src/db.ts:33`), where
  `ocsp-leaf/responder.ts:236` expects a row for every issued leaf.
- A cached leaf response can be served past its own nextUpdate by as long as its
  signature took (`ocsp-leaf/main.ts:228` counts from after it).
- The rate limiter's windows are called sliding (`rate_limit.ts:11`) but are fixed
  buckets, two of which admit twice the max within one window's length.
- A refresh job that fails in a set-up step opens no tracking issue
  (`refresh-ocsp.yml:190-212`).
- The recorded-results and binding rules read every entry of the store, those of
  stray manifests too; the search for AI declarations follows references only.
- An upload whose parent is recorded as both trusted and untrusted is refused,
  although the verifier's own pool may trust it: the record suppresses the live
  finding that would excuse it.
- `loader.ts:127-131` says that without TSA roots stamps are treated as absent;
  Gate 1 refuses them.
- With OCSP required, a retryable outage is answered before the ledger's
  permanent refusals are reached (`realreel.ts:204-211`).
- The result of the intermediate check is kept for the isolate's life and not per
  credential or certificate, which is sound because both are read from the same
  environment; a silent endpoint during that check holds every registration of
  the isolate that joins it.

Not modelled: ASN.1, CBOR and X.509 encoding beyond the forms the readers tell
apart, image and video bytes, metadata projection, CORS, logging, the
command-line tools, deployment scripts, the OCSP relay and the PKI worker
(stateless routers), and the native capture module. In `LeafIssuance` the secrets do not change while an isolate lives.
The reasons are in `PROJECT.json`.

## 7. Plan

Modelled and checked: the upload pipeline, enrollment, leaf issuance, the
attestation gates, the manifest policies with trust sources and time gates, the
rate limiter, the revocation cache, the leaf responder and the refresh job. Left,
in order of weight:

1. `NativeKeys`: the key lifecycle on the phone (generation, attestation,
   enrollment, rotation, signing, deletion, process death between any two),
   composed with `Enrollment`.
2. An abstract specification of revocation, a feed that only grows and is read with a
   bounded delay, implemented by ledger, cache and responder.
3. The OCSP relay in front of `LeafOcsp` and `IcaOcspRefresh`.
