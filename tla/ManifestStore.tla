---------------------------- MODULE ManifestStore ----------------------------
(***************************************************************************)
(* The manifest store an upload carries (trust-core/src/shapes) and the     *)
(* pure policies over it that app and verifier share                        *)
(* (trust-core/src/policies), with what the c2pa-rs engine reports about a  *)
(* store.  A report entry is a code, the bucket it is filed in and the      *)
(* manifest its url names.                                                  *)
(***************************************************************************)
EXTENDS TrustSources, FiniteSets

CONSTANTS Labels,    \* manifest labels
          Extents,   \* parameters of a trim
          NoLabel    \* no label, or a label the store does not hold

(* "ocspUnknown" stands for the informational codes, about which the engine *)
(* says nothing in its status; "other" for the failures with no code here.  *)
Code == {"hashMatch", "hashMismatch", "trusted", "untrusted", "expired",
         "signature", "other", "ocspRevoked", "ocspUnknown"}
Bucket == {"success", "informational", "failure", "deltas"}
ReportEntry == [code : Code, bucket : Bucket, about : Labels \cup {NoLabel}]

ActionEntry == [name : STRING, source : STRING, extent : Extents, depth : Nat]

(* `labelled`: the ingredient has an assertion label, hence a URI.          *)
(* `report`: a claim-v2 validation report, a pre-v3 one, or none.           *)
Ingredient == [ref : Labels \cup {NoLabel}, relationship : STRING,
               labelled : BOOLEAN, report : {"results", "legacy", "absent"},
               entries : SUBSET ReportEntry]

(* `broken` and `root` are what the engine finds out about the signature,   *)
(* `responder` and `stapled` where its revocation status comes from.        *)
Manifest == [org : STRING, name : STRING, root : Roots,
             actions : Seq(ActionEntry), timestamp : BOOLEAN,
             ingredients : Seq(Ingredient),
             broken : SUBSET {"expired", "signature", "other"},
             responder : Hosts, stapled : BOOLEAN]

IsStore(s) ==
  /\ s.active \in Labels \cup {NoLabel}
  /\ DOMAIN s.manifests \subseteq Labels
  /\ s.manifests \in [DOMAIN s.manifests -> Manifest]

ActiveManifest(s) == s.manifests[s.active]
HasActive(s) == s.active \in DOMAIN s.manifests

-----------------------------------------------------------------------------
(* Actions. *)
RelatedMaxDepth == 4
CaptureAllowed == {"created"}
UpdateAllowed == {"opened"}
UploadAllowed == {"opened", "orientation", "resized.proportional", "transcoded",
                  "trimmed", "redacted", "edited.metadata", "rotated", "resized"}

(* extractActionEntries: nested entries count, down to the depth it reads.  *)
ActionEntries(m) ==
  {m.actions[i] : i \in {j \in DOMAIN m.actions :
                           m.actions[j].depth <= RelatedMaxDepth}}
DisallowedActions(m, allowed) == {a.name : a \in ActionEntries(m)} \ allowed

GenerativeAiSources == {"trainedAlgorithmicMedia",
                        "compositeWithTrainedAlgorithmicMedia"}
DeclaresGenerativeAi(m) ==
  \E a \in ActionEntries(m) : a.source \in GenerativeAiSources

(* extractContentExtent: the trims, as often as each occurs, in any order.  *)
ContentExtent(m) ==
  [x \in Extents |->
     Cardinality({i \in DOMAIN m.actions :
                    /\ m.actions[i].name = "trimmed" /\ m.actions[i].extent = x
                    /\ m.actions[i].depth <= RelatedMaxDepth})]
ContentIdentity(s, capture) ==
  [capture |-> capture, extent |-> ContentExtent(ActiveManifest(s))]

-----------------------------------------------------------------------------
(* Structure. *)
References(m) == {m.ingredients[i].ref : i \in DOMAIN m.ingredients}

(* resolveParentOfIngredient: the reason there is no lone parent, or "ok".  *)
ParentReason(s, m) ==
  IF Len(m.ingredients) # 1 THEN "count"
  ELSE IF m.ingredients[1].relationship # "parentOf" THEN "relationship"
  ELSE IF m.ingredients[1].ref \notin DOMAIN s.manifests THEN "dangling"
  ELSE "ok"
ParentOf(m) == m.ingredients[1].ref

FreshCapture(m) == m.ingredients = <<>>
(* Mutant: the walk past update manifests is missing. *)
TimestampUpdate_Never(m) == FALSE

TimestampUpdate(m) == m.timestamp /\ ~FreshCapture(m)

-----------------------------------------------------------------------------
(* The ingredient entries of a store, by holder and position. *)
Positions(s) ==
  UNION {{h} \X DOMAIN s.manifests[h].ingredients : h \in DOMAIN s.manifests}
IngredientAt(s, p) == s.manifests[p[1]].ingredients[p[2]]

(* findRecordedBindingViolation: every entry that references the capture,   *)
(* in whatever manifest, must record a clean hard binding.                  *)
RecordsCleanBinding(ingredient) ==
  /\ ingredient.report = "results"
  /\ ~\E e \in ingredient.entries : e.bucket = "failure" /\ e.code = "hashMismatch"
  /\ \E e \in ingredient.entries : e.bucket = "success" /\ e.code = "hashMatch"

(* Mutant: one clean entry is enough. *)
BindingViolated_AnyClean(s, capture) ==
  ~\E p \in Positions(s) : /\ IngredientAt(s, p).ref = capture
                           /\ RecordsCleanBinding(IngredientAt(s, p))

BindingViolated(s, capture) ==
  LET about == {p \in Positions(s) : IngredientAt(s, p).ref = capture}
  IN  about = {} \/ \E p \in about : ~RecordsCleanBinding(IngredientAt(s, p))

(* findUnverifiedRecordedFailures: `trusted` holds the positions whose      *)
(* parent the verifier's own pool trusts.                                   *)
NonFailureCodes == {"hashMatch", "trusted", "ocspUnknown"}
BindingCodes == {"hashMatch", "hashMismatch"}
ClearedOnTrustedParent == {"untrusted", "expired"}

RecordedEntries(ingredient) ==
  IF ingredient.report = "absent" THEN {} ELSE ingredient.entries

(* Mutant: the two codes are always excused. *)
Cleared_Always(s, p, e, trusted) == e.code \in ClearedOnTrustedParent

Cleared(s, p, e, trusted) ==
  /\ p \in trusted /\ IngredientAt(s, p).labelled
  /\ e.code \in ClearedOnTrustedParent
  /\ e.about = IngredientAt(s, p).ref

UnverifiedRecordedFailures(s, trusted) ==
  UNION {{[code |-> e.code, about |-> e.about] :
            e \in {x \in RecordedEntries(IngredientAt(s, p)) :
                     /\ x.code \notin NonFailureCodes \cup BindingCodes
                     /\ ~Cleared(s, p, x, trusted)}} : p \in Positions(s)}

-----------------------------------------------------------------------------
(* The engine.  It judges the active manifest and what that reaches, and    *)
(* leaves out of its status a finding about an ingredient that the          *)
(* ingredient's own recorded report lists.  An expired chain is untrusted   *)
(* too: the trust check includes validity.                                  *)
Findings(m, pool) ==
  m.broken \cup (IF m.root \in pool /\ "expired" \notin m.broken THEN {}
                 ELSE {"untrusted"})

(* The labels every reference-closed set with the active manifest has.      *)
Reached(s) ==
  LET held == DOMAIN s.manifests
      closed(S) == /\ {s.active} \cap held \subseteq S
                   /\ \A l \in S : References(s.manifests[l]) \cap held \subseteq S
  IN  {l \in held : \A S \in SUBSET held : closed(S) => l \in S}

LivePositions(s) ==
  {p \in Positions(s) : /\ p[1] \in Reached(s)
                        /\ IngredientAt(s, p).ref \in DOMAIN s.manifests}

Lists(ingredient, code) ==
  \E e \in RecordedEntries(ingredient) : e.code = code /\ e.about = ingredient.ref

(* validation_status, given what `found` says of each manifest. *)
StatusOf(s, found) ==
  {[code |-> c, about |-> s.active] : c \in found[s.active]} \cup
  UNION {LET g == IngredientAt(s, p)
         IN  {[code |-> c, about |-> g.ref] :
                c \in {d \in found[g.ref] : ~Lists(g, d)}} : p \in LivePositions(s)}

ValidationStatus(s, pool) ==
  IF ~HasActive(s) THEN {}
  ELSE StatusOf(s, [l \in DOMAIN s.manifests |-> Findings(s.manifests[l], pool)])

(* liveTrustedUrls: where it reports signingCredential.trusted, which it    *)
(* does unless the record says the same.                                    *)
TrustedParents(s, pool) ==
  {p \in LivePositions(s) :
     LET g == IngredientAt(s, p)
     IN  /\ "untrusted" \notin Findings(s.manifests[g.ref], pool)
         /\ ~Lists(g, "trusted")}

(* A read with OCSP fetch on asks the responders it may contact about every *)
(* chain whose signature carries no stapled answer.  Only a revocation is a *)
(* failure; that a responder knows nothing is informational.                *)
Asked(s, allowed) ==
  {l \in Reached(s) : ~s.manifests[l].stapled /\ s.manifests[l].responder \in allowed}
OcspFindings(s, allowed, answers) ==
  [l \in DOMAIN s.manifests |->
     IF l \in Asked(s, allowed) /\ answers[s.manifests[l].responder] = "revoked"
     THEN {"ocspRevoked"} ELSE {}]
(* Mutant: a stapled notRevoked counts. *)
FetchedNotRevoked_Stapled(s, allowed, answers, capture) ==
  s.manifests[capture].stapled \/ answers[s.manifests[capture].responder] = "good"

FetchedNotRevoked(s, allowed, answers, capture) ==
  /\ capture \in Asked(s, allowed)
  /\ answers[s.manifests[capture].responder] = "good"
  /\ \E p \in LivePositions(s) : /\ IngredientAt(s, p).ref = capture
                                 /\ IngredientAt(s, p).labelled
=============================================================================
