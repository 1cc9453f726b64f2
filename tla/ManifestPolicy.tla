---------------------------- MODULE ManifestPolicy ---------------------------
(***************************************************************************)
(* The verdict on one upload's manifest store: verifier/src/verify.ts and   *)
(* the structural half of profiles/realreel.ts, from the container sniff to *)
(* the ledger's time bounds, over whatever store the bytes hold and         *)
(* whatever trust-sources.yaml the process booted with.  The walks over the *)
(* store (every lineage for AI declarations, the update manifests down to   *)
(* the capture) go one level or one manifest per step.  UploadVerifier      *)
(* takes this module's answer as its `structure` and `leafTime`.            *)
(***************************************************************************)
EXTENDS ManifestStore, Integers

CONSTANTS Batches,            \* sets of: a configuration to boot with, an upload
          NetworkRevocation,  \* config.networkRevocation
          ReachableMaxDepth,  \* REACHABLE_MAX_DEPTH
          MaxUpdateManifestDepth, \* MAX_UPDATE_MANIFEST_DEPTH
          Now,                \* clock.now() of the request
          ClockSkewTolerance, \* CLOCK_SKEW_TOLERANCE_MS
          IssuanceTolerance,  \* ISSUANCE_TOLERANCE_MS
          NoTime,             \* no or an unparseable time
          NoStamp,            \* no sigTst2 token
          NoIdentity

(* `stamp` is the root the active manifest's time-stamp token chains to;    *)
(* issued and expires are the window the ledger holds for its leaf.         *)
IsUpload(u) ==
  /\ IsStore(u.store) /\ u.readable \in BOOLEAN
  /\ u.stamp \in Roots \cup {NoStamp}
  /\ {u.time, u.issued, u.expires} \subseteq Nat \cup {NoTime}

ASSUME BoundsAssumption ==
  /\ ReachableMaxDepth \in Nat /\ MaxUpdateManifestDepth \in Nat
  /\ Now \in Nat /\ ClockSkewTolerance \in Nat /\ IssuanceTolerance \in Nat
  /\ NetworkRevocation \in BOOLEAN

ASSUME InputAssumption ==
  /\ \A b \in Batches : \A c \in b : c.yaml \in Yaml /\ IsUpload(c.upload)
  /\ NoLabel \notin Labels /\ NoStamp \notin Roots

VARIABLES yaml,      \* trust-sources.yaml of this process
          upload,    \* what the request carries
          at,        \* the gate it has reached
          seen,      \* labels the AI walk has visited
          frontier,  \* those it is about to examine
          level,     \* how far they are from the active manifest
          current,   \* the manifest the update walk is at
          trail,     \* the update manifests it has walked past
          answers,   \* what the responders say when they are asked
          contacted, \* history: labels a responder was asked about
          verdict,
          identity   \* what an accepted upload is deduplicated by

inputVars == <<yaml, upload>>
aiVars == <<seen, frontier, level>>
walkVars == <<current, trail>>
networkVars == <<answers, contacted>>
vars == <<inputVars, at, aiVars, walkVars, networkVars, verdict, identity>>

Gate == {"boot", "container", "ai", "issuer", "times", "strict", "stage2", "walk",
         "fresh", "created", "source", "binding", "recorded", "uploadActions",
         "ocsp", "ledger", "done"}
Refusal == {"MANIFEST_MALFORMED", "AI_GENERATED", "UNTRUSTED_ISSUER",
            "SIGNATURE_INVALID", "CERT_EXPIRED", "CAPTURE_CERT_EXPIRED",
            "PARENT_BINDING_FAILED"}
Verdict == Refusal \cup {"none", "down", "VERIFIER_UNAVAILABLE", "accepted"}
ResponderAnswer == {"good", "revoked", "silent"}  \* silent: or of no use, or unknown

store == upload.store
active == ActiveManifest(store)
trust == LoadTrust(yaml)
resolve(m) == ResolveTrustSource(m.org, m.name, trust)

Init ==
  /\ \E b \in Batches : \E c \in b : yaml = c.yaml /\ upload = c.upload
  /\ answers = [h \in Hosts |-> "silent"]
  /\ at = "boot" /\ verdict = "none" /\ identity = NoIdentity
  /\ seen = {} /\ frontier = {} /\ level = 0
  /\ current = NoLabel /\ trail = <<>>
  /\ contacted = {}

-----------------------------------------------------------------------------
(* Throwing a code. *)
Answer(code) ==
  at' = "done" /\ verdict' = code
  /\ UNCHANGED <<inputVars, aiVars, walkVars, networkVars, identity>>
Pass(next) ==
  at' = next /\ UNCHANGED <<inputVars, aiVars, walkVars, networkVars, verdict, identity>>

(* A gate that throws `code` when `refused` and otherwise falls through.    *)
Check(here, refused, code, next) ==
  at = here /\ IF refused THEN Answer(code) ELSE Pass(next)

Boot == Check("boot", LoadRefused(yaml), "down", "container")

(* MIME allowlist, container sniff, Reader.fromAsset and its null answer.   *)
ReadStore ==
  /\ at = "container"
  /\ IF ~upload.readable THEN Answer("MANIFEST_MALFORMED")
     ELSE IF ~HasActive(store) THEN Pass("issuer")
     ELSE /\ at' = "ai" /\ seen' = {store.active} /\ frontier' = {store.active}
          /\ level' = 0
          /\ UNCHANGED <<inputVars, walkVars, networkVars, verdict, identity>>

(* Mutant: only parents are followed. *)
ExamineLevel_Parents ==
  /\ at = "ai"
  /\ IF \E l \in frontier : DeclaresGenerativeAi(store.manifests[l])
     THEN Answer("AI_GENERATED")
     ELSE LET parents(m) == {m.ingredients[i].ref :
                               i \in {j \in DOMAIN m.ingredients :
                                        m.ingredients[j].relationship = "parentOf"}}
              next == ((UNION {parents(store.manifests[l]) : l \in frontier}) \ seen)
                        \cap DOMAIN store.manifests
          IN  /\ seen' = seen \cup next
              /\ frontier' = next
              /\ level' = level + 1
              /\ at' = IF next = {} \/ level + 1 > ReachableMaxDepth THEN "issuer"
                       ELSE "ai"
              /\ UNCHANGED <<inputVars, walkVars, networkVars, verdict, identity>>

(* findGenerativeAiSource: one level of the breadth-first walk. *)
ExamineLevel ==
  /\ at = "ai"
  /\ IF \E l \in frontier : DeclaresGenerativeAi(store.manifests[l])
     THEN Answer("AI_GENERATED")
     ELSE LET refs == (UNION {References(store.manifests[l]) : l \in frontier}) \ seen
              next == refs \cap DOMAIN store.manifests
          IN  /\ seen' = seen \cup refs
              /\ frontier' = next
              /\ level' = level + 1
              /\ at' = IF next = {} \/ level + 1 > ReachableMaxDepth THEN "issuer"
                       ELSE "ai"
              /\ UNCHANGED <<inputVars, walkVars, networkVars, verdict, identity>>

(* The active manifest needs an issuer, and force-wrap a RealReel one.      *)
ActiveIssuer ==
  /\ at = "issuer"
  /\ IF ~HasActive(store) \/ active.org = "" THEN Answer("MANIFEST_MALFORMED")
     ELSE IF resolve(active).profile # "realreel" THEN Answer("UNTRUSTED_ISSUER")
     ELSE Pass("times")

(* readTsaState and readSignatureTime; Gates 1 and 2. *)
StampTrusted == upload.stamp # NoStamp /\ upload.stamp \in trust.pool
StampRefused == upload.stamp # NoStamp /\ ~StampTrusted
FutureDated == upload.time # NoTime /\ upload.time > Now + ClockSkewTolerance
CertValidityTimeBounds ==
  Check("times", StampRefused \/ FutureDated, "SIGNATURE_INVALID", "strict")

(* classifyStrictValidationStatus: throws on any entry.  The first names    *)
(* the code, revocation apart; the engine decides which is first.           *)
CertExpired(v) ==
  IF v.about \in {store.active, NoLabel} THEN "CERT_EXPIRED"
  ELSE "CAPTURE_CERT_EXPIRED"
Classify(v, status) ==
  IF \E s \in status : s.code \in {"ocspRevoked", "ocspUnknown"}
  THEN "UNTRUSTED_ISSUER"
  ELSE CASE v.code = "expired" -> CertExpired(v)
         [] v.code = "untrusted" ->
              IF [code |-> "expired", about |-> v.about] \in status
              THEN CertExpired(v) ELSE "UNTRUSTED_ISSUER"
         [] v.code = "signature" -> "SIGNATURE_INVALID"
         [] OTHER -> "MANIFEST_MALFORMED"

Strict(here, status, next) ==
  /\ at = here
  /\ IF status = {} THEN Pass(next)
     ELSE \E v \in status : Answer(Classify(v, status))

ValidationStatusGate == Strict("strict", ValidationStatus(store, trust.pool), "stage2")

(* A manifest whose lone parent cannot be resolved. *)
RefuseParent(m) ==
  Answer(IF ParentReason(store, m) = "dangling" THEN "MANIFEST_MALFORMED"
         ELSE "SIGNATURE_INVALID")
WalkTo(label, past) ==
  /\ at' = "walk" /\ current' = label /\ trail' = past
  /\ UNCHANGED <<inputVars, aiVars, networkVars, verdict, identity>>

Stage2Parent ==
  /\ at = "stage2"
  /\ IF ParentReason(store, active) # "ok" THEN RefuseParent(active)
     ELSE WalkTo(ParentOf(active), <<>>)

(* Mutants: the chain's length is not bounded, or not counted. *)
WalkUpdateManifest_Unbounded ==
  /\ at = "walk"
  /\ LET m == store.manifests[current]
     IN  IF ~TimestampUpdate(m) THEN Pass("fresh")
         ELSE IF ParentReason(store, m) # "ok" THEN RefuseParent(m)
         ELSE WalkTo(ParentOf(m), Append(trail, current))
WalkUpdateManifest_Uncounted ==
  /\ at = "walk"
  /\ LET m == store.manifests[current]
     IN  IF ~TimestampUpdate(m) THEN Pass("fresh")
         ELSE IF ParentReason(store, m) # "ok" THEN RefuseParent(m)
         ELSE WalkTo(ParentOf(m), trail)

(* resolveCaptureThroughUpdateManifests: one iteration. *)
WalkUpdateManifest ==
  /\ at = "walk"
  /\ LET m == store.manifests[current]
     IN  IF ~TimestampUpdate(m) THEN Pass("fresh")
         ELSE IF Len(trail) + 1 > MaxUpdateManifestDepth
                 \/ DisallowedActions(m, UpdateAllowed) # {}
         THEN Answer("SIGNATURE_INVALID")
         ELSE IF resolve(m).profile # "realreel" THEN Answer("UNTRUSTED_ISSUER")
         ELSE IF ParentReason(store, m) # "ok" THEN RefuseParent(m)
         ELSE WalkTo(ParentOf(m), Append(trail, current))

(* The gates on the capture, in order. *)
capture == store.manifests[current]
CaptureIsFresh ==
  Check("fresh", ~FreshCapture(capture), "SIGNATURE_INVALID", "created")
CaptureIsCreated ==
  Check("created", DisallowedActions(capture, CaptureAllowed) # {},
        "SIGNATURE_INVALID", "source")
ParentTrustSource ==
  /\ at = "source"
  /\ IF capture.org = "" THEN Answer("MANIFEST_MALFORMED")
     ELSE IF resolve(capture).profile \notin Profile THEN Answer("UNTRUSTED_ISSUER")
     ELSE Pass("binding")
ParentBinding ==
  Check("binding", BindingViolated(store, current), "PARENT_BINDING_FAILED", "recorded")
RecordedIngredientResults ==
  Strict("recorded",
         UnverifiedRecordedFailures(store, TrustedParents(store, trust.pool)),
         "uploadActions")
UploadActions ==
  Check("uploadActions", DisallowedActions(active, UploadAllowed) # {},
        "SIGNATURE_INVALID", "ocsp")

(* readStoreWithOcsp, for a capture whose source declares responders: the   *)
(* read may contact that source's hosts only, and may run into its timeout. *)
fetchesOcsp == NetworkRevocation /\ trust.hosts # {}
(* Mutant: every source's responders may be asked. *)
AllowedHosts_All == trust.hosts

AllowedHosts == resolve(capture).hosts
MustConfirm == resolve(capture).declares /\ fetchesOcsp

OcspStatus(reply) == StatusOf(store, OcspFindings(store, AllowedHosts, reply))
OcspOutcome(reply) ==
  IF OcspStatus(reply) # {} THEN {Classify(v, OcspStatus(reply)) : v \in OcspStatus(reply)}
  ELSE IF FetchedNotRevoked(store, AllowedHosts, reply, current) THEN {"confirmed"}
  ELSE {"VERIFIER_UNAVAILABLE"}

NetworkRevocationGate ==
  /\ at = "ocsp"
  /\ IF ~MustConfirm THEN Pass("ledger")
     ELSE \E reply \in [Hosts -> ResponderAnswer] :
            /\ answers' = reply /\ contacted' = Asked(store, AllowedHosts)
            /\ \E o \in OcspOutcome(reply) \cup {"VERIFIER_UNAVAILABLE"} :
                 IF o = "confirmed" THEN at' = "ledger" /\ UNCHANGED verdict
                 ELSE at' = "done" /\ verdict' = o
            /\ UNCHANGED <<inputVars, aiVars, walkVars, identity>>

(* Gate 3, once the leaf's ledger row is in hand. *)
Unparseable == NoTime \in {upload.issued, upload.expires}
Predates == upload.time # NoTime /\ upload.time < upload.issued - IssuanceTolerance
Outlives == /\ upload.time # NoTime /\ ~StampTrusted
            /\ upload.time > upload.expires + ClockSkewTolerance
LedgerTimeBounds ==
  /\ at = "ledger"
  /\ IF Unparseable \/ Predates THEN Answer("SIGNATURE_INVALID")
     ELSE IF Outlives THEN Answer("CERT_EXPIRED")
     ELSE /\ at' = "done" /\ verdict' = "accepted"
          /\ identity' = ContentIdentity(store, current)
          /\ UNCHANGED <<inputVars, aiVars, walkVars, networkVars>>

Next ==
  \/ Boot \/ ReadStore \/ ExamineLevel \/ ActiveIssuer \/ CertValidityTimeBounds
  \/ ValidationStatusGate \/ Stage2Parent \/ WalkUpdateManifest
  \/ CaptureIsFresh \/ CaptureIsCreated \/ ParentTrustSource \/ ParentBinding
  \/ RecordedIngredientResults \/ UploadActions \/ NetworkRevocationGate
  \/ LedgerTimeBounds

Spec == Init /\ [][Next]_vars
(* The gates are synchronous code and one read bounded by a timeout.        *)
FairSpec == Spec /\ WF_vars(Next)
=============================================================================
