--------------------------- MODULE ManifestVerdict ---------------------------
(***************************************************************************)
(* What the gates of ManifestPolicy amount to: an upload is described by    *)
(* the paths through its store, without the order of the gates and without  *)
(* the walks, and the answer is compared with that.                         *)
(***************************************************************************)
EXTENDS ManifestPolicy

Held == DOMAIN store.manifests
manifest(l) == store.manifests[l]
Only(m, names) == \A a \in ActionEntries(m) : a.name \in names
LoneParent(m, l) ==
  /\ Len(m.ingredients) = 1
  /\ m.ingredients[1].relationship = "parentOf" /\ m.ingredients[1].ref = l

(* A path from the active manifest's parent down to a capture, over update  *)
(* manifests that the app signed and that carry nothing but their stamp.    *)
Paths == UNION {[1..n -> Held] : n \in 1..(MaxUpdateManifestDepth + 1)}
SoundUpdate(m) ==
  m.timestamp /\ Only(m, {"opened"}) /\ resolve(m).profile = "realreel"
SoundCapture(m) ==
  /\ m.ingredients = <<>> /\ Only(m, {"created"})
  /\ resolve(m).profile \in {"realreel", "wrap_parent_only"}
Lineage(path) ==
  LET end == Len(path)
  IN  /\ LoneParent(active, path[1])
      /\ \A i \in 1..(end - 1) : /\ SoundUpdate(manifest(path[i]))
                                 /\ LoneParent(manifest(path[i]), path[i + 1])
      /\ SoundCapture(manifest(path[end]))

(* Whatever manifest holds it, an entry for the capture records that its    *)
(* bytes matched, and no entry records a failure that the verifier's own    *)
(* trust in that parent does not excuse; a record that also calls the       *)
(* parent trusted contradicts itself, and excuses nothing.                  *)
AllIngredients == UNION {{manifest(h).ingredients[i] :
                            i \in DOMAIN manifest(h).ingredients} : h \in Held}
CleanRecord(label) ==
  \A g \in AllIngredients : g.ref = label =>
    /\ g.report = "results"
    /\ \E e \in g.entries : e.code = "hashMatch" /\ e.bucket = "success"
    /\ ~\E e \in g.entries : e.code = "hashMismatch" /\ e.bucket = "failure"
Chained(l) == manifest(l).root \in trust.pool /\ "expired" \notin manifest(l).broken
Excused(h, g, e) ==
  /\ e.code \in {"untrusted", "expired"} /\ e.about = g.ref /\ g.labelled
  /\ h \in Reached(store) /\ g.ref \in Held /\ Chained(g.ref)
  /\ ~\E x \in g.entries : x.code = "trusted" /\ x.about = g.ref
NoRecordedFailure ==
  \A h \in Held : \A i \in DOMAIN manifest(h).ingredients :
    LET g == manifest(h).ingredients[i]
    IN  g.report # "absent" =>
          \A e \in g.entries : \/ e.code \in {"hashMatch", "hashMismatch", "trusted", "ocspUnknown"}
                               \/ Excused(h, g, e)

(* Labels reachable from the active manifest in at most n references.       *)
ReachableIn(n) ==
  {l \in Held : \E k \in 0..n : \E p \in [0..k -> Held] :
      /\ p[0] = store.active /\ p[k] = l
      /\ \A i \in 1..k : p[i] \in References(manifest(p[i - 1]))}
AiDeclared == \E l \in ReachableIn(ReachableMaxDepth) : DeclaresGenerativeAi(manifest(l))

ClaimInWindow ==
  /\ NoTime \notin {upload.issued, upload.expires}
  /\ upload.time # NoTime =>
       /\ upload.time <= Now + ClockSkewTolerance
       /\ upload.time >= upload.issued - IssuanceTolerance
       /\ \/ upload.time <= upload.expires + ClockSkewTolerance
          \/ upload.stamp \in trust.pool

(* Every gate up to the network, in terms of the upload alone. *)
SoundBytes(path) ==
  /\ ~AiDeclared
  /\ resolve(active).profile = "realreel"
  /\ upload.stamp \in trust.pool \cup {NoStamp}
  /\ upload.time # NoTime => upload.time <= Now + ClockSkewTolerance
  /\ ValidationStatus(store, trust.pool) = {}
  /\ Lineage(path)
  /\ CleanRecord(path[Len(path)]) /\ NoRecordedFailure
  /\ Only(active, UploadAllowed)
Sound == upload.readable /\ HasActive(store) /\ \E path \in Paths : SoundBytes(path)

Done == at = "done"
Answered(codes) == Done /\ verdict \in codes
Spared ==
  \/ verdict \in {"accepted", "VERIFIER_UNAVAILABLE"}
  \/ ~ClaimInWindow
  \/ \E l \in contacted : answers[manifest(l).responder] = "revoked"
Confirmable == ResolveTrustSource(capture.org, capture.name, trust)

-----------------------------------------------------------------------------
TypeOK ==
  /\ at \in Gate /\ verdict \in Verdict
  /\ seen \subseteq Labels \cup {NoLabel} /\ frontier \subseteq seen
  /\ level \in 0..(ReachableMaxDepth + 1)
  /\ current \in Labels \cup {NoLabel}
  /\ Len(trail) <= MaxUpdateManifestDepth
  /\ contacted \subseteq Labels

(* An accepted upload is a sound one: one lineage of lone parents leads     *)
(* from the app-signed active manifest, through nothing but app-signed      *)
(* stamps, to the fresh capture the content is identified by, every record  *)
(* of that capture is clean, and the claimed time lies in the leaf's window.*)
AcceptedIsSound ==
  Answered({"accepted"}) =>
    /\ upload.readable /\ HasActive(store) /\ ClaimInWindow
    /\ \E path \in Paths : SoundBytes(path) /\ identity.capture = path[Len(path)]

(* No gate turns a sound upload away: only the leaf's window, a responder   *)
(* that says so, or one that says nothing (retryable).                      *)
SoundIsNotRefused ==
  Done /\ verdict # "down" /\ Sound => Spared

(* Generated content is named as such before anything is said about signer, *)
(* structure or time, wherever in the lineage it is declared, and nothing   *)
(* else is.                                                                 *)
AiDeclarationDecides ==
  Done /\ verdict # "down" /\ upload.readable /\ HasActive(store) =>
    (verdict = "AI_GENERATED" <=> AiDeclared)

(* The network is reached, and a retryable answer given, only for an upload *)
(* nothing else can refuse before the ledger, a wrap of a third-party       *)
(* capture, and only at hosts that capture's own source declares.           *)
NetworkOnlyForSoundWrap ==
  contacted # {} \/ Answered({"VERIFIER_UNAVAILABLE"}) =>
    /\ Sound
    /\ Confirmable.profile = "wrap_parent_only"
    /\ \A l \in contacted : manifest(l).responder \in Confirmable.hosts

(* What the engine leaves out of its status because the uploader recorded   *)
(* it never gets a broken, untrusted or revoked manifest accepted.          *)
SuppressionHidesNothing ==
  Answered({"accepted"}) =>
    /\ \A l \in Reached(store) : Chained(l) /\ manifest(l).broken = {}
    /\ \A l \in contacted : answers[manifest(l).responder] # "revoked"

(* With network revocation on, a capture whose source declares responders   *)
(* is accepted on one's fetched answer alone, never on a stapled one.       *)
OwnResponderVouches ==
  Answered({"accepted"}) /\ NetworkRevocation /\ Confirmable.declares =>
    /\ manifest(current).responder \in Confirmable.hosts
    /\ answers[manifest(current).responder] = "good"
    /\ ~manifest(current).stapled

(* Every store gets an answer, cyclic ones too. *)
EveryStoreIsAnswered == <>Done

-----------------------------------------------------------------------------
(* The inductive invariant.  A gate is passed when the request is at a      *)
(* later one, or got through them all to the network.                       *)
Rank == [boot |-> 0, container |-> 1, ai |-> 2, issuer |-> 3, times |-> 4, strict |-> 5,
         stage2 |-> 6, walk |-> 7, fresh |-> 8, created |-> 9, source |-> 10, binding |-> 11,
         recorded |-> 12, uploadActions |-> 13, ocsp |-> 14, ledger |-> 15, done |-> 16]
Through == contacted # {} \/ Answered({"accepted", "VERIFIER_UNAVAILABLE"})
Passed(gate) == IF Done THEN Through ELSE Rank[at] > Rank[gate]

ControlInv ==
  /\ yaml \in Yaml /\ IsUpload(upload)
  /\ at \in Gate /\ verdict \in Verdict /\ (~Done => verdict = "none")
  /\ contacted # {} => at \in {"ledger", "done"} /\ verdict \notin {"AI_GENERATED", "down"}

(* The breadth-first walk has seen what can be reached in as many steps,    *)
(* and examined it but for the frontier...                                  *)
AiWalk ==
  /\ HasActive(store) /\ level \in 0..ReachableMaxDepth
  /\ frontier \subseteq ReachableIn(level) /\ ReachableIn(level) \subseteq seen
  /\ frontier \subseteq seen /\ seen \subseteq Labels \cup {NoLabel}
  /\ \A l \in (seen \cap Held) \ frontier :
       ~DeclaresGenerativeAi(manifest(l)) /\ References(manifest(l)) \subseteq seen
AiInv ==
  /\ at = "ai" => AiWalk
  /\ at \notin {"boot", "container", "ai"} /\ verdict # "down" /\ upload.readable
       /\ HasActive(store) => (verdict = "AI_GENERATED" <=> AiDeclared)

(* ... the update manifests walked past and the current one are a lineage...*)
WalkedPath ==
  LET path == Append(trail, current)
  IN  /\ trail \in Seq(Held) /\ Len(trail) <= MaxUpdateManifestDepth /\ current \in Held
      /\ LoneParent(active, path[1])
      /\ \A i \in 1..Len(trail) : /\ SoundUpdate(manifest(path[i]))
                                  /\ LoneParent(manifest(path[i]), path[i + 1])

(* ... every gate that is passed found what it looks for...                 *)
SieveInv ==
  /\ Passed("boot") => ~LoadRefused(yaml)
  /\ Passed("container") => upload.readable
  /\ Passed("issuer") => HasActive(store) /\ resolve(active).profile = "realreel"
  /\ Passed("times") => ~StampRefused /\ ~FutureDated
  /\ Passed("strict") => ValidationStatus(store, trust.pool) = {}
  /\ Passed("stage2") => WalkedPath
  /\ Passed("walk") => ~TimestampUpdate(capture)
  /\ Passed("fresh") => FreshCapture(capture)
  /\ Passed("created") => DisallowedActions(capture, CaptureAllowed) = {}
  /\ Passed("source") => resolve(capture).profile \in Profile
  /\ Passed("binding") => ~BindingViolated(store, current)
  /\ Passed("recorded") =>
       UnverifiedRecordedFailures(store, TrustedParents(store, trust.pool)) = {}
  /\ Passed("uploadActions") => DisallowedActions(active, UploadAllowed) = {}

(* ... and the last two gates as well.                                      *)
NetworkInv ==
  /\ contacted # {} \/ Answered({"VERIFIER_UNAVAILABLE"}) =>
       MustConfirm /\ contacted \subseteq Asked(store, AllowedHosts)
  /\ at = "ledger" \/ Answered({"accepted"}) =>
       IF MustConfirm
       THEN /\ OcspStatus(answers) = {}
            /\ FetchedNotRevoked(store, AllowedHosts, answers, current)
       ELSE contacted = {}
  /\ Answered({"accepted"}) => ClaimInWindow /\ identity.capture = current

GatesInv == ControlInv /\ AiInv /\ SieveInv /\ NetworkInv

(* A sound upload is on its way along its path.                             *)
OnPath(path) ==
  /\ at = "walk" => Len(trail) < Len(path) /\ current = path[Len(trail) + 1]
  /\ at \in {"fresh", "created", "source", "binding", "recorded", "uploadActions",
             "ocsp", "ledger"} => current = path[Len(path)]
SoundInv ==
  upload.readable /\ HasActive(store) =>
    \A path \in Paths : SoundBytes(path) =>
      OnPath(path) /\ (Done /\ verdict # "down" => Spared)
=============================================================================
