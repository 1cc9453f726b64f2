------------------------ MODULE ManifestVerdictProofs ------------------------
(***************************************************************************)
(* The verdict on a manifest store, for any labels, roots, hosts, depths    *)
(* and tolerances, and any uploads and configurations: GatesInv is          *)
(* inductive, and the safety properties of ManifestVerdict follow from it.  *)
(***************************************************************************)
EXTENDS ManifestVerdict, FiniteSetTheorems, SequenceTheorems, TLAPS

(* A non-empty set of naturals has a least element: what stands in for      *)
(* induction along a path.                                                  *)
LEMMA LeastNatural ==
  ASSUME NEW T, T \subseteq Nat, T # {}
  PROVE  \E x \in T : \A y \in T : x <= y
<1> DEFINE U == {0 .. x : x \in T}
<1>1. U \subseteq FiniteSubsetsOf(Nat)
  <2> SUFFICES ASSUME NEW x \in T PROVE 0 .. x \in FiniteSubsetsOf(Nat)
    OBVIOUS
  <2> QED
    BY FS_Interval DEF FiniteSubsetsOf
<1>2. U # {}
  OBVIOUS
<1>3. PICK u \in U : \A v \in U : <<v, u>> \notin StrictSubsetOrdering(Nat)
  <2> HIDE DEF U
  <2> QED
    BY <1>1, <1>2, FS_StrictSubsetOrderingWellFounded, WFMin
<1>4. PICK x \in T : u = 0 .. x
  OBVIOUS
<1>5. ASSUME NEW y \in T, y < x PROVE FALSE
  <2>1. 0 .. y \in U /\ 0 .. y \in SUBSET Nat /\ 0 .. x \in SUBSET Nat
    OBVIOUS
  <2>2. 0 .. y \subseteq 0 .. x /\ x \notin 0 .. y /\ x \in 0 .. x
    BY <1>5
  <2> QED
    BY <1>3, <1>4, <2>1, <2>2 DEF StrictSubsetOrdering
<1> QED
  BY <1>5

-----------------------------------------------------------------------------
(* The shape of a step. *)
LEMMA InputsKept ==
  ASSUME [Next]_vars
  PROVE  /\ UNCHANGED <<yaml, upload>>
         /\ at \notin {"stage2", "walk"} => UNCHANGED <<current, trail>>
         /\ at # "ocsp" => UNCHANGED <<answers, contacted>>
<1> USE DEF Pass, Answer, Check, inputVars, walkVars, networkVars, aiVars
<1>1. CASE UNCHANGED vars
  BY <1>1 DEF vars
<1>2. CASE Boot \/ ReadStore \/ ExamineLevel \/ ActiveIssuer \/ CertValidityTimeBounds
  BY <1>2 DEF Boot, ReadStore, ExamineLevel, ActiveIssuer, CertValidityTimeBounds
<1>3. CASE ValidationStatusGate \/ Stage2Parent \/ WalkUpdateManifest
  BY <1>3 DEF ValidationStatusGate, Strict, Stage2Parent, WalkUpdateManifest, RefuseParent, WalkTo
<1>4. CASE CaptureIsFresh \/ CaptureIsCreated \/ ParentTrustSource \/ ParentBinding
  BY <1>4 DEF CaptureIsFresh, CaptureIsCreated, ParentTrustSource, ParentBinding
<1>5. CASE RecordedIngredientResults \/ UploadActions \/ NetworkRevocationGate \/ LedgerTimeBounds
  BY <1>5 DEF RecordedIngredientResults, Strict, UploadActions, NetworkRevocationGate,
              LedgerTimeBounds
<1> QED
  BY <1>1, <1>2, <1>3, <1>4, <1>5 DEF Next

(* What a step can do at each gate, and nothing else. *)
LEMMA StepAt ==
  ASSUME [Next]_vars
  PROVE  \/ UNCHANGED vars
         \/ at = "boot" /\ Boot
         \/ at = "container" /\ ReadStore
         \/ at = "ai" /\ ExamineLevel
         \/ at = "issuer" /\ ActiveIssuer
         \/ at = "times" /\ CertValidityTimeBounds
         \/ at = "strict" /\ ValidationStatusGate
         \/ at = "stage2" /\ Stage2Parent
         \/ at = "walk" /\ WalkUpdateManifest
         \/ at = "fresh" /\ CaptureIsFresh
         \/ at = "created" /\ CaptureIsCreated
         \/ at = "source" /\ ParentTrustSource
         \/ at = "binding" /\ ParentBinding
         \/ at = "recorded" /\ RecordedIngredientResults
         \/ at = "uploadActions" /\ UploadActions
         \/ at = "ocsp" /\ NetworkRevocationGate
         \/ at = "ledger" /\ LedgerTimeBounds
<1>1. /\ Boot => at = "boot"
      /\ ReadStore => at = "container"
      /\ ExamineLevel => at = "ai"
      /\ ActiveIssuer => at = "issuer"
      /\ CertValidityTimeBounds => at = "times"
  BY DEF Boot, ReadStore, ExamineLevel, ActiveIssuer, CertValidityTimeBounds, Check
<1>2. /\ ValidationStatusGate => at = "strict"
      /\ Stage2Parent => at = "stage2"
      /\ WalkUpdateManifest => at = "walk"
      /\ CaptureIsFresh => at = "fresh"
      /\ CaptureIsCreated => at = "created"
  BY DEF ValidationStatusGate, Strict, Stage2Parent, WalkUpdateManifest, CaptureIsFresh,
         CaptureIsCreated, Check
<1>3. /\ ParentTrustSource => at = "source"
      /\ ParentBinding => at = "binding"
      /\ RecordedIngredientResults => at = "recorded"
      /\ UploadActions => at = "uploadActions"
      /\ NetworkRevocationGate => at = "ocsp"
      /\ LedgerTimeBounds => at = "ledger"
  BY DEF ParentTrustSource, ParentBinding, RecordedIngredientResults, Strict, UploadActions,
         NetworkRevocationGate, LedgerTimeBounds, Check
<1> QED
  BY <1>1, <1>2, <1>3 DEF Next

LEMMA ClassifyRefuses ==
  ASSUME NEW v, NEW status
  PROVE  Classify(v, status) \in Refusal \ {"AI_GENERATED"}
BY DEF Classify, CertExpired, Refusal

(* Where each gate leads: on to the next one with the verdict open, or to   *)
(* the end with a refusal; the last two gates aside.                        *)
LEMMA Leads ==
  ASSUME [Next]_vars, at \notin {"ocsp", "ledger"}
  PROVE  \/ UNCHANGED vars
         \/ /\ at' = "done" /\ verdict' \in Refusal \cup {"down"}
            /\ verdict' = "AI_GENERATED" => at = "ai"
         \/ /\ verdict' = verdict
            /\ \/ at = "boot" /\ at' = "container"
               \/ at = "container" /\ at' \in {"ai", "issuer"}
               \/ at = "ai" /\ at' \in {"ai", "issuer"}
               \/ at = "issuer" /\ at' = "times"
               \/ at = "times" /\ at' = "strict"
               \/ at = "strict" /\ at' = "stage2"
               \/ at = "stage2" /\ at' = "walk"
               \/ at = "walk" /\ at' \in {"walk", "fresh"}
               \/ at = "fresh" /\ at' = "created"
               \/ at = "created" /\ at' = "source"
               \/ at = "source" /\ at' = "binding"
               \/ at = "binding" /\ at' = "recorded"
               \/ at = "recorded" /\ at' = "uploadActions"
               \/ at = "uploadActions" /\ at' = "ocsp"
<1> USE StepAt DEF Pass, Answer, Check, Refusal
<1>1. CASE at \in {"boot", "container", "ai", "issuer", "times"}
  BY <1>1 DEF Boot, ReadStore, ExamineLevel, ActiveIssuer, CertValidityTimeBounds
<1>2. CASE at = "strict"
  BY <1>2, ClassifyRefuses DEF ValidationStatusGate, Strict
<1>3. CASE at \in {"stage2", "walk"}
  BY <1>3 DEF Stage2Parent, WalkUpdateManifest, RefuseParent, WalkTo
<1>4. CASE at \in {"fresh", "created", "source", "binding", "uploadActions"}
  BY <1>4 DEF CaptureIsFresh, CaptureIsCreated, ParentTrustSource, ParentBinding, UploadActions
<1>5. CASE at = "recorded"
  BY <1>5, ClassifyRefuses DEF RecordedIngredientResults, Strict
<1> QED
  BY <1>1, <1>2, <1>3, <1>4, <1>5

(* The network gate and the ledger gate. *)
LEMMA LeadsAtEnd ==
  ASSUME [Next]_vars, at \in {"ocsp", "ledger"}
  PROVE  \/ UNCHANGED vars
         \/ /\ at' = "done" /\ verdict' \in Refusal /\ verdict' # "AI_GENERATED"
         \/ at = "ocsp" /\ at' = "done" /\ verdict' = "VERIFIER_UNAVAILABLE"
         \/ at = "ocsp" /\ at' = "ledger" /\ verdict' = verdict
         \/ at = "ledger" /\ at' = "done" /\ verdict' = "accepted"
<1>1. CASE at = "ocsp" /\ NetworkRevocationGate
  <2>1. CASE ~MustConfirm
    BY <1>1, <2>1 DEF NetworkRevocationGate, Pass
  <2>2. CASE MustConfirm
    <3>1. PICK reply \in [Hosts -> ResponderAnswer] :
            \E o \in OcspOutcome(reply) \cup {"VERIFIER_UNAVAILABLE"} :
                 IF o = "confirmed" THEN at' = "ledger" /\ UNCHANGED verdict
                 ELSE at' = "done" /\ verdict' = o
      BY <1>1, <2>2 DEF NetworkRevocationGate
    <3>2. \A o \in OcspOutcome(reply) :
            \/ o \in {"confirmed", "VERIFIER_UNAVAILABLE"}
            \/ o \in Refusal /\ o # "AI_GENERATED"
      BY ClassifyRefuses DEF OcspOutcome
    <3> QED
      BY <1>1, <3>1, <3>2
  <2> QED
    BY <2>1, <2>2
<1>2. CASE at = "ledger" /\ LedgerTimeBounds
  BY <1>2 DEF LedgerTimeBounds, Answer, Refusal
<1> QED
  BY <1>1, <1>2, StepAt

LEMMA ControlStep ==
  ASSUME ControlInv, [Next]_vars
  PROVE  ControlInv'
<1> USE DEF ControlInv, Done, Gate, Verdict, Refusal
<1>1. yaml' \in Yaml /\ IsUpload(upload)'
  <2>1. yaml' = yaml /\ upload' = upload
    BY InputsKept
  <2> QED
    BY <2>1 DEF IsUpload
<1>2. CASE UNCHANGED vars
  BY <1>1, <1>2 DEF vars, networkVars
<1>3. CASE at \notin {"ocsp", "ledger"} /\ ~UNCHANGED vars
  <2>1. at # "done" /\ contacted' = {}
    BY <1>3, StepAt, InputsKept
  <2> QED
    BY <1>1, <1>3, <2>1, Leads
<1>4. CASE at \in {"ocsp", "ledger"} /\ ~UNCHANGED vars
  BY <1>1, <1>4, LeadsAtEnd, InputsKept
<1> QED
  BY <1>2, <1>3, <1>4

(* A gate is passed anew only by a request that stood at it.                *)
LEMMA RankOf ==
  /\ Rank["boot"] = 0 /\ Rank["container"] = 1 /\ Rank["ai"] = 2 /\ Rank["issuer"] = 3
  /\ Rank["times"] = 4 /\ Rank["strict"] = 5 /\ Rank["stage2"] = 6 /\ Rank["walk"] = 7
  /\ Rank["fresh"] = 8 /\ Rank["created"] = 9 /\ Rank["source"] = 10
  /\ Rank["binding"] = 11 /\ Rank["recorded"] = 12 /\ Rank["uploadActions"] = 13
  /\ Rank["ocsp"] = 14 /\ Rank["ledger"] = 15 /\ Rank["done"] = 16
BY DEF Rank

LEMMA NewlyPassed ==
  ASSUME ControlInv, [Next]_vars,
         NEW gate \in Gate \ {"ai", "ocsp", "ledger", "done"}, Passed(gate)'
  PROVE  Passed(gate) \/ at = gate
<1> USE RankOf DEF ControlInv, Gate, Passed, Through, Done, Answered
<1>1. CASE UNCHANGED vars
  BY <1>1 DEF vars, networkVars
<1>2. CASE at \notin {"ocsp", "ledger"} /\ ~UNCHANGED vars
  <2>1. UNCHANGED contacted
    BY <1>2, InputsKept
  <2>2. CASE at' = "done" /\ verdict' \in Refusal \cup {"down"}
    BY <1>2, <2>1, <2>2 DEF Refusal
  <2> QED
    BY <1>2, <2>1, <2>2, Leads
<1>3. CASE at \in {"ocsp", "ledger"} /\ ~UNCHANGED vars
  BY <1>3
<1> QED
  BY <1>1, <1>2, <1>3

LEMMA PassedHere ==
  ASSUME ControlInv, [Next]_vars,
         NEW gate \in Gate \ {"ai", "ocsp", "ledger", "done"}, Passed(gate)', at = gate
  PROVE  ~UNCHANGED vars /\ at' # "done" /\ at' # gate /\ verdict' = verdict
<1> USE RankOf DEF ControlInv, Gate, Passed, Through, Done, Answered
<1>1. ~UNCHANGED vars
  BY DEF vars
<1>2. UNCHANGED contacted
  BY InputsKept
<1>3. at' # "done"
  BY <1>1, <1>2, Leads DEF Refusal
<1>4. at' # gate
  BY <1>3
<1> QED
  BY <1>1, <1>3, <1>4, Leads

(* A passed gate stays behind: nothing it looked at has moved.              *)
LEMMA StillPassed ==
  ASSUME ControlInv, [Next]_vars, NEW gate \in Gate, Passed(gate)
  PROVE  /\ UNCHANGED <<yaml, upload>>
         /\ Rank[gate] >= 7 => UNCHANGED <<current, trail>>
<1>1. Rank[gate] >= 7 => at \notin {"stage2", "walk"}
  BY RankOf DEF ControlInv, Gate, Passed, Done
<1> QED
  BY <1>1, InputsKept

(* The walk to the capture: its first manifest, and one more.               *)
LEMMA ParentIsLone ==
  ASSUME NEW s, NEW m, ParentReason(s, m) = "ok"
  PROVE  LoneParent(m, ParentOf(m)) /\ ParentOf(m) \in DOMAIN s.manifests
BY DEF ParentReason, LoneParent, ParentOf

LEMMA AllowedOnly ==
  ASSUME NEW m, NEW names, DisallowedActions(m, names) = {}
  PROVE  Only(m, names)
BY DEF DisallowedActions, Only

LEMMA StoreKept ==
  ASSUME UNCHANGED <<yaml, upload>>
  PROVE  /\ Held' = Held /\ store' = store /\ active' = active
         /\ \A l : SoundUpdate(manifest(l))' = SoundUpdate(manifest(l))
         /\ \A l : manifest(l)' = manifest(l)
BY DEF SoundUpdate, Held, manifest, Only, store, active, resolve, trust

LEMMA WalkStarts ==
  ASSUME ControlInv, [Next]_vars, Passed("stage2")', at = "stage2"
  PROVE  WalkedPath'
<1>1. Stage2Parent /\ at' # "done"
  BY PassedHere, StepAt DEF Gate
<1>2. ParentReason(store, active) = "ok" /\ WalkTo(ParentOf(active), <<>>)
  BY <1>1 DEF Stage2Parent, RefuseParent, Answer
<1>3. /\ current' = ParentOf(active) /\ trail' = <<>> /\ current' \in Held
      /\ LoneParent(active, current')
  BY <1>2, ParentIsLone DEF WalkTo, Held
<1>4. Append(trail, current)' = <<current'>>
  BY <1>3
<1>5. /\ trail' \in Seq(Held) /\ Len(trail') = 0 /\ 1..Len(trail') = {}
  BY <1>3
<1> QED
  BY <1>3, <1>4, <1>5, InputsKept, BoundsAssumption
  DEF WalkedPath, LoneParent, Held, store, active

LEMMA WalkGoesOn ==
  ASSUME ControlInv, WalkedPath, [Next]_vars, Passed("stage2")', at = "walk",
         ~UNCHANGED <<current, trail>>
  PROVE  WalkedPath'
<1> DEFINE path == Append(trail, current)
           path1 == Append(path, current')
           m == manifest(current)
<1>1. WalkUpdateManifest /\ at' # "done"
  <2>1. WalkUpdateManifest
    BY StepAt DEF vars, walkVars
  <2>2. UNCHANGED contacted /\ contacted = {}
    BY InputsKept DEF ControlInv
  <2> QED
    BY <2>1, <2>2, Leads DEF Passed, Through, Done, Answered, Refusal, vars, walkVars
<1>2. /\ TimestampUpdate(m) /\ Len(trail) + 1 <= MaxUpdateManifestDepth
      /\ DisallowedActions(m, UpdateAllowed) = {}
      /\ resolve(m).profile = "realreel" /\ ParentReason(store, m) = "ok"
      /\ WalkTo(ParentOf(m), path)
  BY <1>1, BoundsAssumption
  DEF WalkUpdateManifest, RefuseParent, Answer, Pass, walkVars, manifest, WalkedPath
<1>3. current' = ParentOf(m) /\ trail' = path /\ current' \in Held /\ LoneParent(m, current')
  BY <1>2, ParentIsLone DEF WalkTo, Held
<1>4. SoundUpdate(m)
  BY <1>2, AllowedOnly DEF SoundUpdate, TimestampUpdate, UpdateAllowed
<1>5. /\ path \in Seq(Held) /\ Len(path) = Len(trail) + 1 /\ Len(trail) \in Nat
      /\ path1 \in Seq(Held) /\ path1[1] = path[1]
      /\ path[Len(path)] = current /\ path1[Len(path) + 1] = current'
      /\ \A i \in 1..Len(path) : path1[i] = path[i]
  BY <1>3 DEF WalkedPath
<1>6. ASSUME NEW i \in 1..Len(path)
      PROVE  SoundUpdate(manifest(path1[i])) /\ LoneParent(manifest(path1[i]), path1[i + 1])
  <2>1. CASE i = Len(path)
    BY <1>3, <1>4, <1>5, <2>1
  <2>2. CASE i \in 1..Len(trail)
    <3>1. i + 1 \in 1..Len(path)
      BY <1>5, <2>2
    <3>2. path1[i] = path[i] /\ path1[i + 1] = path[i + 1]
      BY <1>5, <3>1
    <3> QED
      BY <2>2, <3>2 DEF WalkedPath
  <2> QED
    BY <1>5, <2>1, <2>2
<1>7. LoneParent(active, path1[1])
  BY <1>5 DEF WalkedPath
<1>8. Append(trail, current)' = path1
  BY <1>3
<1>9. trail' = path /\ path \in Seq(Held) /\ Len(path) <= MaxUpdateManifestDepth /\ current' \in Held
  BY <1>2, <1>3, <1>5
<1> HIDE DEF path, path1, m
<1> QED
  <2>1. UNCHANGED <<yaml, upload>>
    BY InputsKept
  <2> QED
    BY <1>6, <1>7, <1>8, <1>9, <2>1, StoreKept DEF WalkedPath

LEMMA SieveStep ==
  ASSUME ControlInv, SieveInv, [Next]_vars
  PROVE  SieveInv'
<1> USE RankOf, NewlyPassed, PassedHere, StillPassed, StepAt DEF Gate, SieveInv, Check, Answer
<1>1. ASSUME Passed("boot")' PROVE (~LoadRefused(yaml))'
  <2>1. ~LoadRefused(yaml)
    BY <1>1 DEF Boot
  <2> QED
    BY <2>1, InputsKept
<1>2. ASSUME Passed("container")' PROVE upload'.readable
  <2>1. upload.readable
    BY <1>2 DEF ReadStore
  <2> QED
    BY <2>1, InputsKept
<1>3. ASSUME Passed("issuer")' PROVE (HasActive(store) /\ resolve(active).profile = "realreel")'
  <2>1. HasActive(store) /\ resolve(active).profile = "realreel"
    BY <1>3 DEF ActiveIssuer
  <2> QED
    BY <2>1, InputsKept DEF store, active, resolve, trust
<1>4. ASSUME Passed("times")' PROVE (~StampRefused /\ ~FutureDated)'
  <2>1. ~StampRefused /\ ~FutureDated
    BY <1>4 DEF CertValidityTimeBounds
  <2> QED
    BY <2>1, InputsKept DEF StampRefused, StampTrusted, FutureDated, trust
<1>5. ASSUME Passed("strict")' PROVE (ValidationStatus(store, trust.pool) = {})'
  <2>1. ValidationStatus(store, trust.pool) = {}
    BY <1>5 DEF ValidationStatusGate, Strict
  <2> QED
    BY <2>1, InputsKept DEF store, trust
<1>6. ASSUME Passed("stage2")' PROVE WalkedPath'
  <2>1. CASE at = "stage2"
    BY <1>6, <2>1, WalkStarts
  <2>2. CASE at = "walk" /\ ~UNCHANGED <<current, trail>>
    BY <1>6, <2>2, WalkGoesOn DEF Passed, Done
  <2>3. CASE UNCHANGED <<current, trail>> /\ at # "stage2"
    <3>1. WalkedPath /\ UNCHANGED <<yaml, upload>>
      BY <1>6, <2>3, InputsKept
    <3> QED
      BY <2>3, <3>1, StoreKept DEF WalkedPath
  <2> QED
    BY <2>1, <2>2, <2>3, InputsKept
<1>7. ASSUME Passed("walk")' PROVE (~TimestampUpdate(capture))'
  <2>1. ~TimestampUpdate(capture) /\ UNCHANGED <<current, trail>>
    <3>1. CASE at = "walk"
      <4>1. WalkUpdateManifest /\ at' # "walk" /\ at' # "done"
        BY <1>7, <3>1
      <4>2. ~TimestampUpdate(capture) /\ Pass("fresh")
        BY <4>1 DEF WalkUpdateManifest, RefuseParent, WalkTo, capture
      <4> QED
        BY <4>2 DEF Pass, walkVars
    <3> QED
      BY <1>7, <3>1
  <2> QED
    BY <2>1, InputsKept DEF store, capture
<1>8. ASSUME Passed("fresh")' PROVE FreshCapture(capture)'
  <2>1. FreshCapture(capture)
    BY <1>8 DEF CaptureIsFresh
  <2> QED
    BY <2>1, <1>8, InputsKept DEF store, capture
<1>9. ASSUME Passed("created")' PROVE (DisallowedActions(capture, CaptureAllowed) = {})'
  <2>1. DisallowedActions(capture, CaptureAllowed) = {}
    BY <1>9 DEF CaptureIsCreated
  <2> QED
    BY <2>1, <1>9, InputsKept DEF store, capture
<1>10. ASSUME Passed("source")' PROVE (resolve(capture).profile \in Profile)'
  <2>1. resolve(capture).profile \in Profile
    BY <1>10 DEF ParentTrustSource
  <2> QED
    BY <2>1, <1>10, InputsKept DEF store, capture, resolve, trust
<1>11. ASSUME Passed("binding")' PROVE (~BindingViolated(store, current))'
  <2>1. ~BindingViolated(store, current)
    BY <1>11 DEF ParentBinding
  <2> QED
    BY <2>1, <1>11, InputsKept DEF store
<1>12. ASSUME Passed("recorded")'
       PROVE (UnverifiedRecordedFailures(store, TrustedParents(store, trust.pool)) = {})'
  <2>1. UnverifiedRecordedFailures(store, TrustedParents(store, trust.pool)) = {}
    BY <1>12 DEF RecordedIngredientResults, Strict
  <2> QED
    BY <2>1, InputsKept DEF store, trust
<1>13. ASSUME Passed("uploadActions")' PROVE (DisallowedActions(active, UploadAllowed) = {})'
  <2>1. DisallowedActions(active, UploadAllowed) = {}
    BY <1>13 DEF UploadActions
  <2> QED
    BY <2>1, InputsKept DEF store, active
<1> QED
  BY <1>1, <1>2, <1>3, <1>4, <1>5, <1>6, <1>7, <1>8, <1>9, <1>10, <1>11, <1>12, <1>13

-----------------------------------------------------------------------------
(* Paths through the store.                                                 *)
LEMMA PathsWiden ==
  ASSUME NEW n \in Nat, NEW k \in Nat, n <= k
  PROVE  ReachableIn(n) \subseteq ReachableIn(k)
BY DEF ReachableIn

LEMMA PathsStart ==
  ASSUME HasActive(store), NEW n \in Nat
  PROVE  store.active \in ReachableIn(n) /\ ReachableIn(0) = {store.active}
<1>1. store.active \in Held
  BY DEF HasActive, Held
<1>2. ASSUME NEW k \in Nat PROVE store.active \in ReachableIn(k)
  <2> DEFINE p == [i \in 0..0 |-> store.active]
  <2>1. p \in [0..0 -> Held] /\ p[0] = store.active /\ 1..0 = {} /\ 0 \in 0..k
    BY <1>1
  <2> HIDE DEF p
  <2> QED
    BY <1>1, <2>1 DEF ReachableIn
<1>3. ReachableIn(0) \subseteq {store.active}
  BY DEF ReachableIn
<1> QED
  BY <1>2, <1>3

LEMMA PathsGrow ==
  ASSUME NEW n \in Nat, NEW h \in ReachableIn(n), NEW l \in References(manifest(h)), l \in Held
  PROVE  l \in ReachableIn(n + 1)
<1>1. PICK k \in 0..n : \E p \in [0..k -> Held] :
        /\ p[0] = store.active /\ p[k] = h
        /\ \A i \in 1..k : p[i] \in References(manifest(p[i - 1]))
  BY DEF ReachableIn
<1>2. PICK p \in [0..k -> Held] :
        /\ p[0] = store.active /\ p[k] = h
        /\ \A i \in 1..k : p[i] \in References(manifest(p[i - 1]))
  BY <1>1
<1> DEFINE q == [i \in 0..(k + 1) |-> IF i = k + 1 THEN l ELSE p[i]]
<1>3. q \in [0..(k + 1) -> Held] /\ q[0] = store.active /\ q[k + 1] = l /\ q[k] = h
  BY <1>2
<1>4. ASSUME NEW i \in 1..(k + 1) PROVE q[i] \in References(manifest(q[i - 1]))
  <2>1. CASE i = k + 1
    BY <1>3, <2>1
  <2>2. CASE i \in 1..k
    BY <1>2, <2>2
  <2> QED
    BY <2>1, <2>2
<1>5. k + 1 \in 0..(n + 1)
  OBVIOUS
<1> HIDE DEF q
<1> QED
  BY <1>3, <1>4, <1>5 DEF ReachableIn

LEMMA PathsShrink ==
  ASSUME NEW n \in Nat, NEW l \in ReachableIn(n + 1), l # store.active
  PROVE  \E h \in ReachableIn(n) : l \in References(manifest(h))
<1>1. PICK k \in 0..(n + 1) : \E p \in [0..k -> Held] :
        /\ p[0] = store.active /\ p[k] = l
        /\ \A i \in 1..k : p[i] \in References(manifest(p[i - 1]))
  BY DEF ReachableIn
<1>2. PICK p \in [0..k -> Held] :
        /\ p[0] = store.active /\ p[k] = l
        /\ \A i \in 1..k : p[i] \in References(manifest(p[i - 1]))
  BY <1>1
<1>3. k # 0 /\ k - 1 \in 0..n /\ k \in 1..k
  BY <1>2
<1> DEFINE q == [i \in 0..(k - 1) |-> p[i]]
<1>4. q \in [0..(k - 1) -> Held] /\ q[0] = store.active /\ q[k - 1] = p[k - 1]
  BY <1>2, <1>3
<1>5. \A i \in 1..(k - 1) : q[i] \in References(manifest(q[i - 1]))
  BY <1>2, <1>3
<1>6. l \in References(manifest(q[k - 1])) /\ q[k - 1] \in Held
  BY <1>2, <1>3, <1>4
<1> HIDE DEF q
<1>7. q[k - 1] \in ReachableIn(n)
  BY <1>3, <1>4, <1>5, <1>6 DEF ReachableIn
<1> QED
  BY <1>6, <1>7

(* No path leaves a set that is closed under references.                    *)
LEMMA PathsClosed ==
  ASSUME NEW S, store.active \in S,
         \A h \in S \cap Held : References(manifest(h)) \subseteq S,
         NEW n \in Nat
  PROVE  ReachableIn(n) \subseteq S
<1> SUFFICES ASSUME NEW l \in ReachableIn(n), l \notin S PROVE FALSE
  OBVIOUS
<1>1. PICK k \in 0..n : \E p \in [0..k -> Held] :
        /\ p[0] = store.active /\ p[k] = l
        /\ \A i \in 1..k : p[i] \in References(manifest(p[i - 1]))
  BY DEF ReachableIn
<1>2. PICK p \in [0..k -> Held] :
        /\ p[0] = store.active /\ p[k] = l
        /\ \A i \in 1..k : p[i] \in References(manifest(p[i - 1]))
  BY <1>1
<1> DEFINE T == {i \in 0..k : p[i] \notin S}
<1>3. T \subseteq Nat /\ k \in T
  BY <1>2
<1>4. PICK i \in T : \A j \in T : i <= j
  <2> HIDE DEF T
  <2> QED
    BY <1>3, LeastNatural
<1>5. i # 0 /\ i \in 1..k /\ i - 1 \in 0..k /\ i - 1 \notin T
  BY <1>2, <1>4
<1>6. p[i - 1] \in S \cap Held
  BY <1>2, <1>5
<1> QED
  BY <1>2, <1>4, <1>5, <1>6

-----------------------------------------------------------------------------
(* The walk for AI declarations.                                            *)
LEMMA ReferencesAreLabels ==
  ASSUME ControlInv, NEW l \in Held
  PROVE  References(manifest(l)) \subseteq Labels \cup {NoLabel}
<1>1. manifest(l) \in Manifest
  BY DEF ControlInv, IsUpload, IsStore, store, Held, manifest
<1>2. manifest(l).ingredients \in Seq(Ingredient)
  BY <1>1 DEF Manifest
<1>3. \A i \in DOMAIN manifest(l).ingredients :
        manifest(l).ingredients[i].ref \in Labels \cup {NoLabel}
  <2> SUFFICES ASSUME NEW i \in DOMAIN manifest(l).ingredients
               PROVE  manifest(l).ingredients[i].ref \in Labels \cup {NoLabel}
    OBVIOUS
  <2>1. manifest(l).ingredients[i] \in Ingredient
    BY <1>2
  <2> QED
    BY <2>1 DEF Ingredient
<1> QED
  BY <1>3 DEF References

LEMMA PathsOfInputs ==
  ASSUME UNCHANGED <<yaml, upload>>, NEW n
  PROVE  ReachableIn(n)' = ReachableIn(n) /\ (AiDeclared' <=> AiDeclared)
         /\ Held' = Held /\ UNCHANGED store
BY DEF ReachableIn, AiDeclared, Held, manifest, store

(* Examining one level without finding a declaration: the next level is     *)
(* where the paths lead next, and everything examined is left behind.       *)
LEMMA LevelExamined ==
  ASSUME ControlInv, AiWalk, ~\E l \in frontier : DeclaresGenerativeAi(manifest(l)),
         NEW refs, refs = (UNION {References(manifest(l)) : l \in frontier}) \ seen
  PROVE  /\ refs \cap Held \subseteq ReachableIn(level + 1)
         /\ ReachableIn(level + 1) \subseteq seen \cup refs
         /\ seen \cup refs \subseteq Labels \cup {NoLabel}
         /\ \A l \in ((seen \cup refs) \cap Held) \ (refs \cap Held) :
              /\ ~DeclaresGenerativeAi(manifest(l))
              /\ References(manifest(l)) \subseteq seen \cup refs
<1> USE DEF AiWalk
<1>1. level \in Nat
  BY BoundsAssumption
<1>2. frontier \subseteq Held
  BY DEF ReachableIn
<1>3. \A l \in seen \cap Held :
        /\ ~DeclaresGenerativeAi(manifest(l))
        /\ References(manifest(l)) \subseteq seen \cup refs
  <2> SUFFICES ASSUME NEW l \in seen \cap Held
               PROVE  /\ ~DeclaresGenerativeAi(manifest(l))
                      /\ References(manifest(l)) \subseteq seen \cup refs
    OBVIOUS
  <2>1. CASE l \in frontier
    BY <2>1
  <2>2. CASE l \notin frontier
    BY <2>2
  <2> QED
    BY <2>1, <2>2
<1>4. ASSUME NEW l \in refs \cap Held PROVE l \in ReachableIn(level + 1)
  <2>1. PICK h \in frontier : l \in References(manifest(h))
    BY <1>4
  <2> QED
    BY <1>1, <1>4, <2>1, PathsGrow
<1>5. ASSUME NEW l \in ReachableIn(level + 1) PROVE l \in seen \cup refs
  <2>1. CASE l = store.active
    BY <1>1, <2>1, PathsStart
  <2>2. CASE l # store.active
    <3>1. PICK h \in ReachableIn(level) : l \in References(manifest(h))
      BY <1>1, <2>2, PathsShrink
    <3>2. h \in seen \cap Held
      BY <3>1 DEF ReachableIn
    <3> QED
      BY <1>3, <3>1, <3>2
  <2> QED
    BY <2>1, <2>2
<1>6. refs \subseteq Labels \cup {NoLabel}
  BY <1>2, ReferencesAreLabels
<1> QED
  BY <1>3, <1>4, <1>5, <1>6

LEMMA AiStep ==
  ASSUME ControlInv, AiInv, [Next]_vars
  PROVE  AiInv'
<1> USE InputsKept DEF ControlInv, Done
<1>1. CASE UNCHANGED vars
  <2>1. UNCHANGED <<upload, at, seen, frontier, level, verdict>>
    BY <1>1 DEF vars, inputVars, aiVars
  <2>2. HasActive(store)' = HasActive(store) /\ AiWalk' = AiWalk
    BY <2>1, PathsOfInputs DEF AiWalk, HasActive, manifest
  <2> QED
    BY <2>1, <2>2, PathsOfInputs DEF AiInv
<1>2. CASE at \in {"boot", "container"} /\ ~UNCHANGED vars
  <2>1. CASE at' = "ai"
    <3>1. /\ HasActive(store) /\ seen' = {store.active} /\ frontier' = {store.active}
          /\ level' = 0
      BY <1>2, <2>1, StepAt DEF Boot, Check, Answer, Pass, ReadStore
    <3>2. ReachableIn(0) = {store.active} /\ store.active \in Labels
      BY <3>1, PathsStart DEF HasActive, IsUpload, IsStore, store
    <3>3. AiWalk'
      BY <3>1, <3>2, PathsOfInputs, BoundsAssumption DEF AiWalk, HasActive
    <3> QED
      BY <2>1, <3>3 DEF AiInv
  <2>2. CASE at' # "ai"
    BY <1>2, <2>2, StepAt DEF Boot, Check, Answer, Pass, ReadStore, AiInv, HasActive, store
  <2> QED
    BY <2>1, <2>2
<1>3. CASE at = "ai" /\ ~UNCHANGED vars
  <2> DEFINE refs == (UNION {References(manifest(l)) : l \in frontier}) \ seen
             next == refs \cap Held
  <2>1. AiWalk /\ ExamineLevel
    BY <1>3, StepAt DEF AiInv
  <2>2. CASE \E l \in frontier : DeclaresGenerativeAi(manifest(l))
    <3>1. AiDeclared
      BY <2>1, <2>2, PathsWiden, BoundsAssumption DEF AiWalk, AiDeclared
    <3>2. at' = "done" /\ verdict' = "AI_GENERATED"
      BY <2>1, <2>2 DEF ExamineLevel, Answer, manifest
    <3> QED
      BY <3>1, <3>2, PathsOfInputs DEF AiInv
  <2>3. CASE ~\E l \in frontier : DeclaresGenerativeAi(manifest(l))
    <3>1. /\ seen' = seen \cup refs /\ frontier' = next /\ level' = level + 1
          /\ at' = IF next = {} \/ level + 1 > ReachableMaxDepth THEN "issuer" ELSE "ai"
          /\ verdict' = "none"
      BY <1>3, <2>1, <2>3 DEF ExamineLevel, manifest, Held
    <3>2. /\ refs \cap Held \subseteq ReachableIn(level + 1)
          /\ ReachableIn(level + 1) \subseteq seen \cup refs
          /\ seen \cup refs \subseteq Labels \cup {NoLabel}
          /\ \A l \in ((seen \cup refs) \cap Held) \ (refs \cap Held) :
               /\ ~DeclaresGenerativeAi(manifest(l))
               /\ References(manifest(l)) \subseteq seen \cup refs
      BY <2>1, <2>3, LevelExamined
    <3>3. level \in 0..ReachableMaxDepth /\ HasActive(store)
      BY <2>1 DEF AiWalk
    <3> HIDE DEF refs
    <3>4. CASE next # {} /\ level + 1 <= ReachableMaxDepth
      <4>1. AiWalk'
        BY <3>1, <3>2, <3>3, <3>4, PathsOfInputs, BoundsAssumption
        DEF AiWalk, HasActive, Held, manifest, store
      <4>2. at' = "ai"
        BY <3>1, <3>3, <3>4, BoundsAssumption
      <4> QED
        BY <4>1, <4>2 DEF AiInv
    <3>5. CASE next = {} \/ level + 1 > ReachableMaxDepth
      <4>1. at' = "issuer"
        BY <3>1, <3>5
      <4>2. \A l \in seen \cap Held : ~DeclaresGenerativeAi(manifest(l))
        BY <2>1, <2>3 DEF AiWalk
      <4>3. ReachableIn(ReachableMaxDepth) \subseteq seen
        <5>1. CASE next = {}
          <6>1. \A h \in seen \cap Held : References(manifest(h)) \subseteq seen \cup refs
            BY <3>2, <5>1
          <6>2. \A h \in (seen \cup refs) \cap Held :
                  References(manifest(h)) \subseteq seen \cup refs
            BY <3>2, <5>1
          <6>3. store.active \in seen
            BY <2>1, <3>3, PathsStart, BoundsAssumption DEF AiWalk
          <6>4. ReachableIn(ReachableMaxDepth) \subseteq seen \cup refs
            BY <6>2, <6>3, PathsClosed, BoundsAssumption
          <6> QED
            BY <5>1, <6>4 DEF ReachableIn
        <5>2. CASE level + 1 > ReachableMaxDepth
          <6>1. level = ReachableMaxDepth
            BY <3>3, <5>2, BoundsAssumption
          <6> QED
            BY <2>1, <6>1 DEF AiWalk
        <5> QED
          BY <3>5, <5>1, <5>2
      <4>4. ~AiDeclared
        BY <4>2, <4>3 DEF AiDeclared, ReachableIn
      <4> QED
        BY <3>1, <4>1, <4>4, PathsOfInputs DEF AiInv
    <3> QED
      BY <3>3, <3>4, <3>5, BoundsAssumption
  <2> QED
    BY <2>2, <2>3
<1>4. CASE at \notin {"boot", "container", "ai"} /\ ~UNCHANGED vars
  <2>1. at' \notin {"boot", "container", "ai"} /\ verdict = "none" /\ verdict' # "AI_GENERATED"
    BY <1>4, Leads, LeadsAtEnd, StepAt DEF LedgerTimeBounds
  <2> QED
    BY <1>4, <2>1, PathsOfInputs DEF AiInv, HasActive
<1> QED
  BY <1>1, <1>2, <1>3, <1>4

-----------------------------------------------------------------------------
(* The last two gates.                                                      *)
LEMMA Unmoved ==
  ASSUME UNCHANGED <<yaml, upload, current>>
  PROVE  /\ MustConfirm' = MustConfirm
         /\ Asked(store, AllowedHosts)' = Asked(store, AllowedHosts)
         /\ OcspStatus(answers)' = OcspStatus(answers')
         /\ FetchedNotRevoked(store, AllowedHosts, answers, current)'
              = FetchedNotRevoked(store, AllowedHosts, answers', current)
         /\ ClaimInWindow' = ClaimInWindow
<1>1. store' = store /\ trust' = trust /\ capture' = capture
  BY DEF store, trust, capture
<1>2. AllowedHosts' = AllowedHosts /\ MustConfirm' = MustConfirm
  BY <1>1 DEF AllowedHosts, MustConfirm, fetchesOcsp, resolve
<1>3. ClaimInWindow' = ClaimInWindow
  BY <1>1 DEF ClaimInWindow
<1> QED
  BY <1>1, <1>2, <1>3 DEF OcspStatus

LEMMA NetworkStep ==
  ASSUME ControlInv, SieveInv, NetworkInv, [Next]_vars
  PROVE  NetworkInv'
<1> USE DEF ControlInv, Done, Answered
<1>1. UNCHANGED <<yaml, upload>>
  BY InputsKept
<1>2. CASE UNCHANGED vars
  <2>1. UNCHANGED <<current, answers, contacted, at, verdict, identity>>
    BY <1>2 DEF vars, walkVars, networkVars
  <2> QED
    BY <1>1, <2>1, Unmoved DEF NetworkInv
<1>3. CASE at \notin {"ocsp", "ledger"} /\ ~UNCHANGED vars
  <2>1. contacted' = {} /\ at' # "ledger"
        /\ (at' = "done" => verdict' \in Refusal \cup {"down"})
    <3>1. at # "done"
      BY <1>3, StepAt
    <3> QED
      BY <1>3, <3>1, InputsKept, Leads DEF NetworkInv
  <2> QED
    BY <2>1 DEF NetworkInv, Refusal
<1>4. CASE at = "ocsp" /\ NetworkRevocationGate
  <2>1. current' = current /\ contacted = {}
    BY <1>4, InputsKept
  <2>2. CASE ~MustConfirm
    <3>1. at' = "ledger" /\ contacted' = {}
      BY <1>4, <2>1, <2>2 DEF NetworkRevocationGate, Pass, networkVars
    <3> QED
      BY <1>1, <2>1, <2>2, <3>1, Unmoved DEF NetworkInv
  <2>3. CASE MustConfirm
    <3>1. /\ contacted' = Asked(store, AllowedHosts)
          /\ \E o \in OcspOutcome(answers') \cup {"VERIFIER_UNAVAILABLE"} :
               IF o = "confirmed" THEN at' = "ledger" /\ UNCHANGED verdict
               ELSE at' = "done" /\ verdict' = o
      BY <1>4, <2>3 DEF NetworkRevocationGate
    <3>2. PICK o \in OcspOutcome(answers') \cup {"VERIFIER_UNAVAILABLE"} :
            IF o = "confirmed" THEN at' = "ledger" /\ UNCHANGED verdict
            ELSE at' = "done" /\ verdict' = o
      BY <3>1
    <3>3. o = "confirmed" =>
            /\ OcspStatus(answers') = {}
            /\ FetchedNotRevoked(store, AllowedHosts, answers', current)
      BY <3>2, ClassifyRefuses DEF OcspOutcome, Refusal
    <3>4. o # "accepted"
      BY <3>2, ClassifyRefuses DEF OcspOutcome, Refusal
    <3> QED
      BY <1>1, <2>1, <2>3, <3>1, <3>2, <3>3, <3>4, Unmoved DEF NetworkInv
  <2> QED
    BY <2>2, <2>3
<1>5. CASE at = "ledger" /\ LedgerTimeBounds
  <2>1. UNCHANGED <<current, answers, contacted>>
    BY <1>5, InputsKept
  <2>2. CASE verdict' # "accepted"
    <3>1. at' = "done" /\ verdict' \in Refusal
      BY <1>5, <2>2 DEF LedgerTimeBounds, Answer, Refusal
    <3> QED
      BY <1>1, <1>5, <2>1, <3>1, Unmoved DEF NetworkInv, Refusal
  <2>3. CASE verdict' = "accepted"
    <3>1. ~Unparseable /\ ~Predates /\ ~Outlives /\ identity' = ContentIdentity(store, current)
      BY <1>5, <2>3 DEF LedgerTimeBounds, Answer
    <3>2. ~FutureDated
      BY <1>5, RankOf DEF SieveInv, Passed
    <3>3. {upload.time, upload.issued, upload.expires} \subseteq Nat \cup {NoTime}
      BY DEF IsUpload
    <3>4. ClaimInWindow
      BY <3>1, <3>2, <3>3, BoundsAssumption
      DEF ClaimInWindow, Unparseable, Predates, Outlives, FutureDated, StampTrusted
    <3>5. identity'.capture = current
      BY <3>1 DEF ContentIdentity
    <3> QED
      BY <1>1, <1>5, <2>1, <2>3, <3>4, <3>5, Unmoved DEF NetworkInv
  <2> QED
    BY <2>2, <2>3
<1> QED
  BY <1>2, <1>3, <1>4, <1>5, StepAt

LEMMA InitHolds ==
  Init => GatesInv
<1> SUFFICES ASSUME Init PROVE GatesInv
  OBVIOUS
<1>1. yaml \in Yaml /\ IsUpload(upload)
  BY InputAssumption DEF Init
<1>2. ControlInv
  BY <1>1 DEF Init, ControlInv, Gate, Verdict
<1>3. \A gate \in Gate : ~Passed(gate)
  BY RankOf DEF Init, Passed, Done, Gate
<1> QED
  BY <1>2, <1>3 DEF Init, GatesInv, AiInv, SieveInv, NetworkInv, Gate, Done, Answered

(* GatesInv holds of every state the verdict goes through: the account the  *)
(* gates of verify.ts and realreel.ts keep, whatever store the bytes hold.  *)
THEOREM GatesInvariant == Spec => []GatesInv
<1>1. Init => GatesInv
  BY InitHolds
<1>2. GatesInv /\ [Next]_vars => GatesInv'
  BY ControlStep, AiStep, SieveStep, NetworkStep DEF GatesInv
<1> QED
  BY <1>1, <1>2, PTL DEF Spec

-----------------------------------------------------------------------------
(* What the gates' own computations amount to.                              *)
LEMMA PositionOf ==
  ASSUME NEW h \in Held, NEW i \in DOMAIN manifest(h).ingredients
  PROVE  <<h, i>> \in Positions(store)
         /\ IngredientAt(store, <<h, i>>) = manifest(h).ingredients[i]
<1>1. <<h, i>> \in {h} \X DOMAIN store.manifests[h].ingredients
  BY DEF manifest
<1> QED
  BY <1>1 DEF Positions, IngredientAt, Held, manifest

LEMMA BindingIsClean ==
  ASSUME NEW label, ~BindingViolated(store, label)
  PROVE  CleanRecord(label)
<1> SUFFICES ASSUME NEW h \in Held, NEW i \in DOMAIN manifest(h).ingredients,
                    manifest(h).ingredients[i].ref = label
             PROVE  RecordsCleanBinding(manifest(h).ingredients[i])
  BY DEF CleanRecord, AllIngredients, RecordsCleanBinding
<1> QED
  BY PositionOf DEF BindingViolated

LEMMA RecordIsExcused ==
  ASSUME UnverifiedRecordedFailures(store, TrustedParents(store, trust.pool)) = {}
  PROVE  NoRecordedFailure
<1> SUFFICES ASSUME NEW h \in Held, NEW i \in DOMAIN manifest(h).ingredients,
                    manifest(h).ingredients[i].report # "absent",
                    NEW e \in manifest(h).ingredients[i].entries,
                    e.code \notin {"hashMatch", "hashMismatch", "trusted", "ocspUnknown"}
             PROVE  Excused(h, manifest(h).ingredients[i], e)
  BY DEF NoRecordedFailure
<1> DEFINE p == <<h, i>>
           g == manifest(h).ingredients[i]
           trusted == TrustedParents(store, trust.pool)
<1>1. p \in Positions(store) /\ IngredientAt(store, p) = g /\ RecordedEntries(g) = g.entries
  BY PositionOf DEF RecordedEntries
<1>2. Cleared(store, p, e, trusted)
  <2>1. CASE ~Cleared(store, p, e, trusted)
    <3>1. e \in {x \in RecordedEntries(IngredientAt(store, p)) :
                   /\ x.code \notin NonFailureCodes \cup BindingCodes
                   /\ ~Cleared(store, p, x, trusted)}
      BY <1>1, <2>1 DEF NonFailureCodes, BindingCodes
    <3>2. [code |-> e.code, about |-> e.about] \in UnverifiedRecordedFailures(store, trusted)
      BY <1>1, <3>1 DEF UnverifiedRecordedFailures
    <3> QED
      BY <3>2
  <2> QED
    BY <2>1
<1>3. /\ p \in LivePositions(store) /\ ~Lists(g, "trusted")
      /\ "untrusted" \notin Findings(store.manifests[g.ref], trust.pool)
  BY <1>1, <1>2 DEF Cleared, TrustedParents
<1>4. h \in Reached(store) /\ g.ref \in Held
  BY <1>1, <1>3 DEF LivePositions, Held
<1>5. Chained(g.ref)
  BY <1>3 DEF Findings, Chained, manifest
<1>6. ~\E x \in g.entries : x.code = "trusted" /\ x.about = g.ref
  BY <1>1, <1>3 DEF Lists
<1>7. e.code \in {"untrusted", "expired"} /\ e.about = g.ref /\ g.labelled
  BY <1>1, <1>2 DEF Cleared, ClearedOnTrustedParent
<1> QED
  BY <1>4, <1>5, <1>6, <1>7 DEF Excused

(* A request past the structural gates carries a sound upload: the walk's   *)
(* own trail is the lineage.                                                *)
LEMMA PassedIsSound ==
  ASSUME GatesInv, Passed("uploadActions"), verdict \notin {"AI_GENERATED", "down"}
  PROVE  /\ upload.readable /\ HasActive(store) /\ ~LoadRefused(yaml)
         /\ \E path \in Paths : SoundBytes(path) /\ current = path[Len(path)]
<1> DEFINE path == Append(trail, current)
<1>1. \A gate \in Gate \ {"ocsp", "ledger", "done"} : Passed(gate)
  BY RankOf DEF Passed, Gate, GatesInv, ControlInv
<1>2. SieveInv /\ AiInv /\ ControlInv
  BY DEF GatesInv
<1>3. upload.readable /\ HasActive(store) /\ ~LoadRefused(yaml)
  BY <1>1, <1>2 DEF SieveInv, Gate
<1>4. ~AiDeclared
  <2>1. at \notin {"boot", "container", "ai"}
    BY RankOf DEF Passed, Done
  <2> QED
    BY <1>2, <1>3, <2>1 DEF AiInv
<1>5. WalkedPath
  BY <1>1, <1>2 DEF SieveInv, Gate
<1>6. /\ path \in Seq(Held) /\ Len(path) = Len(trail) + 1 /\ Len(trail) \in Nat
      /\ path[Len(path)] = current
  BY <1>5 DEF WalkedPath
<1>7. path \in Paths
  <2>1. path \in [1..Len(path) -> Held] /\ Len(path) \in 1..(MaxUpdateManifestDepth + 1)
    <3>1. Len(trail) <= MaxUpdateManifestDepth
      BY <1>5 DEF WalkedPath
    <3> HIDE DEF path
    <3> QED
      BY <1>6, <3>1, BoundsAssumption
  <2> HIDE DEF path
  <2> QED
    BY <2>1 DEF Paths
<1>8. SoundCapture(manifest(current))
  <2>1. /\ FreshCapture(capture) /\ DisallowedActions(capture, CaptureAllowed) = {}
        /\ resolve(capture).profile \in Profile
    BY <1>1, <1>2 DEF SieveInv, Gate
  <2> QED
    BY <2>1, AllowedOnly DEF SoundCapture, FreshCapture, CaptureAllowed, Profile, capture, manifest
<1>9. Lineage(path)
  <2>1. LoneParent(active, path[1])
    BY <1>5 DEF WalkedPath
  <2>2. \A i \in 1..Len(trail) : /\ SoundUpdate(manifest(path[i]))
                                 /\ LoneParent(manifest(path[i]), path[i + 1])
    BY <1>5 DEF WalkedPath
  <2> HIDE DEF path
  <2> QED
    BY <1>6, <1>8, <2>1, <2>2 DEF Lineage
<1>10. CleanRecord(current) /\ NoRecordedFailure
  BY <1>1, <1>2, BindingIsClean, RecordIsExcused DEF SieveInv, Gate
<1>11. /\ resolve(active).profile = "realreel" /\ ~StampRefused /\ ~FutureDated
       /\ ValidationStatus(store, trust.pool) = {}
       /\ DisallowedActions(active, UploadAllowed) = {}
  BY <1>1, <1>2 DEF SieveInv, Gate
<1>12. Only(active, UploadAllowed)
  BY <1>11, AllowedOnly
<1>13. /\ upload.stamp \in trust.pool \cup {NoStamp}
       /\ upload.time # NoTime => upload.time <= Now + ClockSkewTolerance
  <2>1. upload.time \in Nat \cup {NoTime}
    BY <1>2 DEF ControlInv, IsUpload
  <2> QED
    BY <1>11, <2>1, BoundsAssumption DEF StampRefused, StampTrusted, FutureDated
<1>14. SoundBytes(path)
  <2> HIDE DEF path
  <2> QED
    BY <1>4, <1>6, <1>9, <1>10, <1>11, <1>12, <1>13 DEF SoundBytes
<1> HIDE DEF path
<1> QED
  BY <1>3, <1>6, <1>7, <1>14

LEMMA ThroughIsPassed ==
  ASSUME GatesInv, contacted # {} \/ Answered({"accepted", "VERIFIER_UNAVAILABLE"})
  PROVE  /\ Passed("uploadActions") /\ verdict \notin {"AI_GENERATED", "down"}
BY RankOf DEF GatesInv, ControlInv, Passed, Through, Answered, Done

(* Accepted is sound: the one lineage, the clean records, the time window,  *)
(* whatever the store says and in whatever order the gates ask.             *)
THEOREM AcceptedIsSoundHolds == Spec => []AcceptedIsSound
<1>1. GatesInv => AcceptedIsSound
  <2> SUFFICES ASSUME GatesInv, Answered({"accepted"}) PROVE AcceptedIsSound
    BY DEF AcceptedIsSound
  <2>1. Passed("uploadActions") /\ verdict \notin {"AI_GENERATED", "down"}
    BY ThroughIsPassed DEF Answered
  <2>2. ClaimInWindow /\ identity.capture = current
    BY DEF GatesInv, NetworkInv
  <2> QED
    BY <2>1, <2>2, PassedIsSound DEF AcceptedIsSound
<1> QED
  BY <1>1, GatesInvariant, PTL

(* The code AI_GENERATED is given exactly for a declaration somewhere on a  *)
(* lineage of at most ReachableMaxDepth references.                         *)
THEOREM AiDeclarationDecidesHolds == Spec => []AiDeclarationDecides
<1>1. GatesInv => AiDeclarationDecides
  BY DEF GatesInv, AiInv, AiDeclarationDecides, Done
<1> QED
  BY <1>1, GatesInvariant, PTL

-----------------------------------------------------------------------------
(* A source that declares responders wraps, and names some.                 *)
LEMMA TripleDomain ==
  ASSUME NEW a, NEW b, NEW c
  PROVE  DOMAIN <<a, b, c>> = 1..3
OBVIOUS

LEMMA DeclaringWraps ==
  ASSUME ~LoadRefused(yaml), NEW org, NEW name, ResolveTrustSource(org, name, trust).declares
  PROVE  /\ ResolveTrustSource(org, name, trust).profile = "wrap_parent_only"
         /\ ResolveTrustSource(org, name, trust).hosts \subseteq trust.hosts
         /\ trust.hosts # {}
<1> DEFINE id == IdentifyTrustSource(org, name, trust)
           hits == {i \in DOMAIN TrustedIssuers :
                      /\ TrustedIssuers[i].id \in trust.loaded
                      /\ TrustedIssuers[i].org = org
                      /\ MatchesCommonName(TrustedIssuers[i], name)}
           e == CHOOSE d \in trust.sources : d.id = id
<1>1. DOMAIN TrustedIssuers = 1..3
  BY TripleDomain, Zenon DEF TrustedIssuers
<1>2. id # "none"
  BY DEF ResolveTrustSource, NoSource
<1>3. hits # {} /\ hits \subseteq Nat
  BY <1>1, <1>2 DEF IdentifyTrustSource
<1>4. PICK i \in hits : \A j \in hits : i <= j
  <2> HIDE DEF hits
  <2> QED
    BY <1>3, LeastNatural
<1>5. id \in trust.loaded
  <2>1. id = TrustedIssuers[CHOOSE k \in hits : \A j \in hits : k <= j].id
    BY <1>3 DEF IdentifyTrustSource
  <2>2. (CHOOSE k \in hits : \A j \in hits : k <= j) \in hits
    <3> HIDE DEF hits
    <3> QED
      BY <1>4
  <2> HIDE DEF id
  <2> QED
    BY <2>1, <2>2
<1>6. e \in trust.sources /\ e.id = id
  <2> HIDE DEF id
  <2> QED
    BY <1>5 DEF trust, LoadTrust
<1>7. PICK k \in Present(yaml.sources) : e = yaml.sources[k]
  BY <1>6 DEF trust, LoadTrust
<1>8. ~SourceRefused(e)
  BY <1>7 DEF LoadRefused, Present
<1>9. /\ ResolveTrustSource(org, name, trust).profile = e.profile
      /\ ResolveTrustSource(org, name, trust).declares = e.declares
      /\ ResolveTrustSource(org, name, trust).hosts = IF e.declares THEN e.hosts ELSE {}
  BY <1>2 DEF ResolveTrustSource
<1>10. e.declares /\ e.profile \in Profile \ {"realreel"} /\ e.hosts # {}
  BY <1>8, <1>9 DEF SourceRefused, RevocationMalformed
<1>11. e.hosts \subseteq trust.hosts
  BY <1>6, <1>10 DEF trust, LoadTrust
<1> HIDE DEF e
<1> QED
  BY <1>9, <1>10, <1>11 DEF Profile

(* The network is reached for a sound wrap only, and only where its own     *)
(* source says.                                                             *)
THEOREM NetworkOnlyForSoundWrapHolds == Spec => []NetworkOnlyForSoundWrap
<1>1. GatesInv => NetworkOnlyForSoundWrap
  <2> SUFFICES ASSUME GatesInv, contacted # {} \/ Answered({"VERIFIER_UNAVAILABLE"})
               PROVE  /\ Sound /\ Confirmable.profile = "wrap_parent_only"
                      /\ \A l \in contacted : manifest(l).responder \in Confirmable.hosts
    BY DEF NetworkOnlyForSoundWrap
  <2>1. Passed("uploadActions") /\ verdict \notin {"AI_GENERATED", "down"}
    BY ThroughIsPassed DEF Answered
  <2>2. MustConfirm /\ contacted \subseteq Asked(store, AllowedHosts)
    BY DEF GatesInv, NetworkInv
  <2>3. Confirmable = resolve(capture)
    BY DEF Confirmable, resolve
  <2>4. \A l \in contacted : manifest(l).responder \in Confirmable.hosts
    BY <2>2, <2>3 DEF Asked, AllowedHosts, manifest
  <2>5. Confirmable.profile = "wrap_parent_only"
    BY <2>1, <2>2, <2>3, PassedIsSound, DeclaringWraps DEF MustConfirm, Confirmable
  <2> QED
    BY <2>1, <2>4, <2>5, PassedIsSound DEF Sound
<1> QED
  BY <1>1, GatesInvariant, PTL

(* With revocation on, the capture's own responder answered good, fetched.  *)
THEOREM OwnResponderVouchesHolds == Spec => []OwnResponderVouches
<1>1. GatesInv => OwnResponderVouches
  <2> SUFFICES ASSUME GatesInv, Answered({"accepted"}), NetworkRevocation, Confirmable.declares
               PROVE  /\ manifest(current).responder \in Confirmable.hosts
                      /\ answers[manifest(current).responder] = "good"
                      /\ ~manifest(current).stapled
    BY DEF OwnResponderVouches
  <2>1. Passed("uploadActions") /\ verdict \notin {"AI_GENERATED", "down"}
    BY ThroughIsPassed DEF Answered
  <2>2. trust.hosts # {} /\ Confirmable = resolve(capture)
    BY <2>1, PassedIsSound, DeclaringWraps DEF Confirmable, resolve
  <2>3. MustConfirm
    BY <2>2 DEF MustConfirm, fetchesOcsp
  <2>4. FetchedNotRevoked(store, AllowedHosts, answers, current)
    BY <2>3 DEF GatesInv, NetworkInv
  <2> QED
    BY <2>2, <2>4 DEF FetchedNotRevoked, Asked, AllowedHosts, manifest
<1> QED
  BY <1>1, GatesInvariant, PTL

-----------------------------------------------------------------------------
(* What the engine leaves out of its status.                                *)
LEMMA ReachedCloses ==
  ASSUME HasActive(store)
  PROVE  /\ store.active \in Reached(store) /\ Reached(store) \subseteq Held
         /\ \A h \in Reached(store) : \A l \in References(manifest(h)) \cap Held :
              l \in Reached(store)
<1> DEFINE closed(S) == /\ {store.active} \cap Held \subseteq S
                        /\ \A l \in S : References(manifest(l)) \cap Held \subseteq S
<1>1. Reached(store) = {l \in Held : \A S \in SUBSET Held : closed(S) => l \in S}
  BY DEF Reached, Held, manifest
<1>2. store.active \in Held
  BY DEF HasActive, Held
<1>3. store.active \in Reached(store)
  BY <1>1, <1>2
<1>4. ASSUME NEW h \in Reached(store), NEW l \in References(manifest(h)) \cap Held
      PROVE  l \in Reached(store)
  <2> SUFFICES ASSUME NEW S \in SUBSET Held, closed(S) PROVE l \in S
    BY <1>1
  <2>1. h \in S
    BY <1>1
  <2> QED
    BY <2>1
<1> QED
  BY <1>1, <1>3, <1>4

(* Whatever is reached, the active manifest aside, some live entry names.   *)
LEMMA ReachedIsNamed ==
  ASSUME HasActive(store), NEW l \in Reached(store), l # store.active
  PROVE  \E p \in LivePositions(store) : IngredientAt(store, p).ref = l
<1> DEFINE named == {k \in Held : \E p \in LivePositions(store) : IngredientAt(store, p).ref = k}
           S == {store.active} \cup named
<1>1. \A p \in LivePositions(store) : IngredientAt(store, p).ref \in Reached(store)
  <2> SUFFICES ASSUME NEW p \in LivePositions(store)
               PROVE  IngredientAt(store, p).ref \in Reached(store)
    OBVIOUS
  <2>1. p[1] \in Reached(store) /\ IngredientAt(store, p).ref \in Held
    BY DEF LivePositions, Held
  <2>2. PICK h \in Held : p \in {h} \X DOMAIN manifest(h).ingredients
    BY DEF LivePositions, Positions, Held, manifest
  <2>3. p[1] = h /\ p[2] \in DOMAIN manifest(h).ingredients
    BY <2>2
  <2>4. IngredientAt(store, p).ref \in References(manifest(h))
    BY <2>3 DEF IngredientAt, References, manifest
  <2> QED
    BY <2>1, <2>3, <2>4, ReachedCloses
<1>2. named \subseteq Reached(store)
  BY <1>1
<1>3. S \subseteq Reached(store) /\ S \subseteq Held
  BY <1>2, ReachedCloses
<1>4. ASSUME NEW h \in S, NEW k \in References(manifest(h)) \cap Held
      PROVE  k \in S
  <2>1. PICK i \in DOMAIN manifest(h).ingredients : k = manifest(h).ingredients[i].ref
    BY DEF References
  <2>2. h \in Held /\ h \in Reached(store)
    BY <1>3
  <2>3. <<h, i>> \in Positions(store) /\ IngredientAt(store, <<h, i>>).ref = k
    BY <2>1, <2>2, PositionOf
  <2>4. <<h, i>> \in LivePositions(store)
    BY <2>2, <2>3 DEF LivePositions, Held
  <2> QED
    BY <1>4, <2>3, <2>4
<1>5. l \in S
  <2>1. /\ {store.active} \cap Held \subseteq S
        /\ \A h \in S : References(manifest(h)) \cap Held \subseteq S
    BY <1>4
  <2> HIDE DEF S
  <2> QED
    BY <1>3, <2>1 DEF Reached, Held, manifest
<1> QED
  BY <1>5

(* A finding that an empty status leaves out is one its record lists, and   *)
(* the record's own failures are all excused.                               *)
LEMMA LeftOutIsExcused ==
  ASSUME HasActive(store), NoRecordedFailure, NEW found, StatusOf(store, found) = {},
         NEW l \in Reached(store), NEW d \in found[l],
         d \notin {"hashMatch", "hashMismatch", "trusted", "ocspUnknown"}
  PROVE  d \in {"untrusted", "expired"} /\ Chained(l)
<1>1. l # store.active
  BY DEF StatusOf
<1>2. PICK p \in LivePositions(store) : IngredientAt(store, p).ref = l
  BY <1>1, ReachedIsNamed
<1> DEFINE g == IngredientAt(store, p)
<1>3. Lists(g, d)
  <2>1. CASE ~Lists(g, d)
    <3>1. [code |-> d, about |-> l] \in StatusOf(store, found)
      BY <1>2, <2>1 DEF StatusOf
    <3> QED
      BY <3>1
  <2> QED
    BY <2>1
<1>4. PICK e \in RecordedEntries(g) : e.code = d /\ e.about = l
  BY <1>2, <1>3 DEF Lists
<1>5. g.report # "absent" /\ e \in g.entries
  BY <1>4 DEF RecordedEntries
<1>6. PICK h \in Held : p \in {h} \X DOMAIN manifest(h).ingredients
  BY DEF LivePositions, Positions, Held, manifest
<1>7. g = manifest(h).ingredients[p[2]] /\ p[2] \in DOMAIN manifest(h).ingredients
  BY <1>6 DEF IngredientAt, manifest
<1>8. Excused(h, g, e)
  BY <1>4, <1>5, <1>7 DEF NoRecordedFailure
<1> QED
  BY <1>2, <1>4, <1>8 DEF Excused

(* Accepted: every manifest reached is chained and unbroken, and no answer  *)
(* was a revocation, whatever the uploader had recorded.                    *)
THEOREM SuppressionHidesNothingHolds == Spec => []SuppressionHidesNothing
<1>1. GatesInv => SuppressionHidesNothing
  <2> SUFFICES ASSUME GatesInv, Answered({"accepted"}) PROVE SuppressionHidesNothing
    BY DEF SuppressionHidesNothing
  <2> DEFINE found == [l \in Held |-> Findings(manifest(l), trust.pool)]
             asked == OcspFindings(store, AllowedHosts, answers)
  <2>1. Passed("uploadActions") /\ verdict \notin {"AI_GENERATED", "down"}
    BY ThroughIsPassed DEF Answered
  <2>2. HasActive(store) /\ NoRecordedFailure /\ ValidationStatus(store, trust.pool) = {}
    BY <2>1, PassedIsSound DEF SoundBytes
  <2>3. StatusOf(store, found) = {}
    BY <2>2 DEF ValidationStatus, Held, manifest
  <2>4. ASSUME NEW l \in Reached(store)
        PROVE  Chained(l) /\ manifest(l).broken = {}
    <3>1. l \in Held /\ found[l] = Findings(manifest(l), trust.pool)
      BY <2>2, ReachedCloses
    <3>2. manifest(l).broken \subseteq {"expired", "signature", "other"}
      <4>1. manifest(l) \in Manifest
        BY <3>1 DEF GatesInv, ControlInv, IsUpload, IsStore, store, Held, manifest
      <4> QED
        BY <4>1 DEF Manifest
    <3>3. \A d \in found[l] : d \in {"untrusted", "expired", "signature", "other"}
      BY <3>1, <3>2 DEF Findings
    <3>4. \A d \in found[l] : d \in {"untrusted", "expired"} /\ Chained(l)
      <4> HIDE DEF found
      <4> QED
        BY <2>2, <2>3, <3>3, LeftOutIsExcused
    <3>5. Chained(l)
      BY <3>1, <3>4 DEF Findings, Chained
    <3> QED
      BY <3>1, <3>2, <3>4, <3>5 DEF Findings, Chained
  <2>5. ASSUME NEW l \in contacted PROVE answers[manifest(l).responder] # "revoked"
    <3>1. /\ l \in Asked(store, AllowedHosts) /\ StatusOf(store, asked) = {}
      BY <2>5 DEF GatesInv, NetworkInv, OcspStatus
    <3>2. l \in Reached(store) /\ l \in Held
      BY <2>2, <3>1, ReachedCloses DEF Asked
    <3>3. answers[manifest(l).responder] = "revoked" => asked[l] = {"ocspRevoked"}
      BY <3>1, <3>2 DEF OcspFindings, Held, manifest
    <3> HIDE DEF asked
    <3> QED
      BY <2>2, <3>1, <3>2, <3>3, LeftOutIsExcused
  <2> QED
    BY <2>4, <2>5 DEF SuppressionHidesNothing
<1> QED
  BY <1>1, GatesInvariant, PTL

-----------------------------------------------------------------------------
(* Which steps move the walks.                                              *)
LEMMA WalksApart ==
  ASSUME [Next]_vars
  PROVE  /\ \/ UNCHANGED <<seen, frontier, level>>
            \/ at = "container" /\ ReadStore
            \/ at = "ai" /\ ExamineLevel
         /\ UNCHANGED <<current, trail>> \/ at' = "walk"
<1> USE DEF Pass, Answer, Check, Strict, inputVars, walkVars, networkVars, aiVars
<1>1. CASE UNCHANGED vars
  BY <1>1 DEF vars
<1>2. CASE at \in {"boot", "container", "ai", "issuer", "times", "strict"} /\ ~UNCHANGED vars
  BY <1>2, StepAt, InputsKept
  DEF Boot, ActiveIssuer, CertValidityTimeBounds, ValidationStatusGate
<1>3. CASE at \in {"stage2", "walk"} /\ ~UNCHANGED vars
  BY <1>3, StepAt DEF Stage2Parent, WalkUpdateManifest, RefuseParent, WalkTo
<1>4. CASE at \in {"fresh", "created", "source", "binding", "recorded", "uploadActions"}
           /\ ~UNCHANGED vars
  BY <1>4, StepAt, InputsKept
  DEF CaptureIsFresh, CaptureIsCreated, ParentTrustSource, ParentBinding,
      RecordedIngredientResults, UploadActions
<1>5. CASE at \in {"ocsp", "ledger"} /\ ~UNCHANGED vars
  BY <1>5, StepAt, InputsKept DEF NetworkRevocationGate, LedgerTimeBounds
<1> QED
  BY <1>1, <1>2, <1>3, <1>4, <1>5, StepAt

(* Every variable keeps to its range, the depth of both walks included.     *)
THEOREM TypeCorrect == Spec => []TypeOK
<1>1. Init => TypeOK
  BY BoundsAssumption DEF Init, TypeOK, Gate, Verdict
<1>2. GatesInv /\ GatesInv' /\ TypeOK /\ [Next]_vars => TypeOK'
  <2> SUFFICES ASSUME GatesInv, GatesInv', TypeOK, [Next]_vars PROVE TypeOK'
    OBVIOUS
  <2>1. at' \in Gate /\ verdict' \in Verdict
    BY DEF GatesInv, ControlInv
  <2>2. /\ seen' \subseteq Labels \cup {NoLabel} /\ frontier' \subseteq seen'
        /\ level' \in 0..(ReachableMaxDepth + 1)
    <3>1. CASE UNCHANGED <<seen, frontier, level>>
      BY <3>1 DEF TypeOK
    <3>2. CASE at = "container" /\ ReadStore /\ ~UNCHANGED <<seen, frontier, level>>
      <4>1. /\ seen' = {store.active} /\ frontier' = {store.active} /\ level' = 0
            /\ HasActive(store)
        BY <3>2 DEF ReadStore, Answer, Pass, aiVars
      <4>2. store.active \in Labels
        BY <4>1 DEF GatesInv, ControlInv, IsUpload, IsStore, HasActive, store
      <4> QED
        BY <4>1, <4>2, BoundsAssumption
    <3>3. CASE at = "ai" /\ ExamineLevel /\ ~UNCHANGED <<seen, frontier, level>>
      <4> DEFINE refs == (UNION {References(manifest(l)) : l \in frontier}) \ seen
      <4>1. /\ seen' = seen \cup refs /\ frontier' = refs \cap Held /\ level' = level + 1
            /\ ~\E l \in frontier : DeclaresGenerativeAi(manifest(l))
        BY <3>3 DEF ExamineLevel, Answer, aiVars, manifest, Held
      <4>2. AiWalk /\ ControlInv
        BY <3>3 DEF GatesInv, AiInv
      <4>3. seen \cup refs \subseteq Labels \cup {NoLabel}
        BY <4>1, <4>2, LevelExamined
      <4> HIDE DEF refs
      <4>4. level + 1 \in 0..(ReachableMaxDepth + 1)
        BY <4>2, BoundsAssumption DEF AiWalk
      <4> QED
        BY <4>1, <4>3, <4>4
    <3> QED
      BY <3>1, <3>2, <3>3, StepAt, WalksApart
  <2>3. current' \in Labels \cup {NoLabel} /\ Len(trail') <= MaxUpdateManifestDepth
    <3>1. CASE UNCHANGED <<current, trail>>
      BY <3>1 DEF TypeOK
    <3>2. CASE at' = "walk"
      <4>1. WalkedPath'
        BY <3>2, RankOf DEF GatesInv, SieveInv, Passed, Done
      <4>2. Held' \subseteq Labels
        BY DEF GatesInv, ControlInv, IsUpload, IsStore, Held, store
      <4> QED
        BY <4>1, <4>2 DEF WalkedPath
    <3> QED
      BY <3>1, <3>2, StepAt, WalksApart
  <2>4. contacted' \subseteq Labels
    <3>1. Asked(store, AllowedHosts)' \subseteq Labels
      BY DEF GatesInv, ControlInv, IsUpload, IsStore, Asked, Reached, store
    <3> QED
      BY <3>1 DEF GatesInv, NetworkInv
  <2> QED
    BY <2>1, <2>2, <2>3, <2>4 DEF TypeOK
<1> QED
  BY <1>1, <1>2, GatesInvariant, PTL DEF Spec

-----------------------------------------------------------------------------
(* The other direction: what a sound upload gives every gate.               *)
LEMMA TripleNamed ==
  ASSUME NEW a, NEW b, NEW c, NEW x, a.org # x, b.org # x, c.org # x
  PROVE  \A i \in DOMAIN <<a, b, c>> : <<a, b, c>>[i].org # x
<1> SUFFICES ASSUME NEW i \in 1..3 PROVE <<a, b, c>>[i].org # x
  BY TripleDomain
<1>1. i = 1 \/ i = 2 \/ i = 3
  OBVIOUS
<1> QED
  BY <1>1

LEMMA TrustedNeedsName ==
  ASSUME NEW name, ResolveTrustSource("", name, trust).profile # "none"
  PROVE  FALSE
<1>1. \A i \in DOMAIN TrustedIssuers : TrustedIssuers[i].org # ""
  BY TripleNamed, Zenon DEF TrustedIssuers
<1>2. IdentifyTrustSource("", name, trust) = "none"
  BY <1>1 DEF IdentifyTrustSource
<1> QED
  BY <1>2 DEF ResolveTrustSource, NoSource

LEMMA OnlyAllowed ==
  ASSUME NEW m, NEW names, Only(m, names)
  PROVE  DisallowedActions(m, names) = {}
BY DEF DisallowedActions, Only

LEMMA LoneIsParent ==
  ASSUME NEW s, NEW m, NEW l \in DOMAIN s.manifests, LoneParent(m, l)
  PROVE  ParentReason(s, m) = "ok" /\ ParentOf(m) = l
BY DEF ParentReason, LoneParent, ParentOf

LEMMA PathInside ==
  ASSUME NEW path \in Paths
  PROVE  /\ Len(path) \in 1..(MaxUpdateManifestDepth + 1)
         /\ \A i \in 1..Len(path) : path[i] \in Held
<1>1. PICK n \in 1..(MaxUpdateManifestDepth + 1) : path \in [1..n -> Held]
  BY DEF Paths
<1>2. Len(path) = n
  BY <1>1, BoundsAssumption
<1> QED
  BY <1>1, <1>2

LEMMA CleanIsBound ==
  ASSUME HasActive(store), NEW path \in Paths, Lineage(path), CleanRecord(path[Len(path)])
  PROVE  ~BindingViolated(store, path[Len(path)])
<1>1. PICK n \in Nat \ {0} : n = Len(path) /\ \A i \in 1..n : path[i] \in Held
  BY PathInside, BoundsAssumption
<1> DEFINE label == path[n]
<1>2. \E h \in Held : LoneParent(manifest(h), label)
  <2>1. CASE n = 1
    BY <1>1, <2>1 DEF Lineage, HasActive, Held, active, ActiveManifest, manifest
  <2>2. CASE n # 1
    <3>1. n - 1 \in 1..(n - 1) /\ n - 1 \in 1..n /\ (n - 1) + 1 = n
      BY <1>1, <2>2
    <3>2. LoneParent(manifest(path[n - 1]), path[(n - 1) + 1])
      BY <1>1, <3>1 DEF Lineage
    <3> QED
      BY <1>1, <3>1, <3>2
  <2> QED
    BY <2>1, <2>2
<1>3. PICK h \in Held : LoneParent(manifest(h), label)
  BY <1>2
<1>4. 1 \in DOMAIN manifest(h).ingredients /\ manifest(h).ingredients[1].ref = label
  <2>1. Len(manifest(h).ingredients) = 1 /\ manifest(h).ingredients[1].ref = label
    BY <1>3 DEF LoneParent
  <2> QED
    BY <2>1
<1>5. <<h, 1>> \in {p \in Positions(store) : IngredientAt(store, p).ref = label}
  BY <1>4, PositionOf
<1>6. ASSUME NEW p \in Positions(store), IngredientAt(store, p).ref = label
      PROVE  RecordsCleanBinding(IngredientAt(store, p))
  <2>1. PICK k \in Held : p \in {k} \X DOMAIN manifest(k).ingredients
    BY DEF Positions, Held, manifest
  <2>2. IngredientAt(store, p) \in AllIngredients
    BY <2>1 DEF IngredientAt, AllIngredients, manifest
  <2> QED
    BY <1>1, <1>6, <2>2 DEF CleanRecord, RecordsCleanBinding
<1> HIDE DEF label
<1> QED
  BY <1>1, <1>5, <1>6 DEF BindingViolated, label

LEMMA ExcusedIsRecorded ==
  ASSUME IsUpload(upload), NoRecordedFailure
  PROVE  UnverifiedRecordedFailures(store, TrustedParents(store, trust.pool)) = {}
<1> DEFINE trusted == TrustedParents(store, trust.pool)
<1>1. ASSUME NEW p \in Positions(store), NEW e \in RecordedEntries(IngredientAt(store, p)),
             e.code \notin NonFailureCodes \cup BindingCodes
      PROVE  Cleared(store, p, e, trusted)
  <2> DEFINE g == IngredientAt(store, p)
  <2>1. PICK h \in Held : p \in {h} \X DOMAIN manifest(h).ingredients
    BY DEF Positions, Held, manifest
  <2>2. p[1] = h /\ p[2] \in DOMAIN manifest(h).ingredients /\ g = manifest(h).ingredients[p[2]]
    BY <2>1 DEF IngredientAt, manifest
  <2>3. g.report # "absent" /\ RecordedEntries(g) = g.entries
    BY DEF RecordedEntries
  <2>4. e.code \notin {"hashMatch", "hashMismatch", "trusted", "ocspUnknown"}
    BY <1>1 DEF NonFailureCodes, BindingCodes
  <2>5. Excused(h, g, e)
    BY <2>2, <2>3, <2>4 DEF NoRecordedFailure
  <2>6. p \in LivePositions(store)
    BY <2>2, <2>5 DEF Excused, LivePositions, Held
  <2>7. "untrusted" \notin Findings(store.manifests[g.ref], trust.pool)
    <3>1. manifest(g.ref) \in Manifest
      BY <2>5 DEF Excused, IsUpload, IsStore, store, Held, manifest
    <3>2. "untrusted" \notin manifest(g.ref).broken
      BY <3>1 DEF Manifest
    <3> QED
      BY <2>5, <3>2 DEF Excused, Chained, Findings, manifest
  <2>8. ~Lists(g, "trusted")
    BY <2>3, <2>5 DEF Excused, Lists
  <2> QED
    BY <2>5, <2>6, <2>7, <2>8 DEF Cleared, TrustedParents, Excused, ClearedOnTrustedParent
<1> HIDE DEF trusted
<1>2. UnverifiedRecordedFailures(store, trusted) = {}
  BY <1>1 DEF UnverifiedRecordedFailures
<1> QED
  BY <1>2 DEF trusted

LEMMA SoundIsKept ==
  ASSUME UNCHANGED <<yaml, upload>>, NEW path
  PROVE  /\ SoundBytes(path)' = SoundBytes(path) /\ Paths' = Paths
         /\ (upload.readable /\ HasActive(store))' = (upload.readable /\ HasActive(store))
<1>1. UNCHANGED <<store, trust, active>> /\ Held' = Held
  BY DEF store, trust, active, Held
<1>2. Lineage(path)' = Lineage(path)
  BY <1>1 DEF Lineage, LoneParent, SoundUpdate, SoundCapture, Only, manifest, resolve
<1>3. CleanRecord(path[Len(path)])' = CleanRecord(path[Len(path)])
  BY <1>1 DEF CleanRecord, AllIngredients, manifest
<1>4. NoRecordedFailure' = NoRecordedFailure
  BY <1>1 DEF NoRecordedFailure, Excused, Chained, manifest
<1>5. Only(active, UploadAllowed)' = Only(active, UploadAllowed)
  BY <1>1 DEF Only
<1>6. (AiDeclared' = AiDeclared) /\ Paths' = Paths
  BY <1>1, PathsOfInputs DEF Paths, AiDeclared, ReachableIn, manifest
<1> QED
  BY <1>1, <1>2, <1>3, <1>4, <1>5, <1>6 DEF SoundBytes, resolve, HasActive

(* The gates in order, for an upload with a sound path.                     *)
LEMMA NamedPasses ==
  ASSUME NEW m, resolve(m).profile # "none"
  PROVE  m.org # ""
<1>1. ResolveTrustSource(m.org, m.name, trust).profile # "none"
  BY DEF resolve
<1> QED
  BY <1>1, TrustedNeedsName, Zenon

LEMMA SoundBeforeWalk ==
  ASSUME ControlInv, AiInv, upload.readable, HasActive(store),
         NEW path \in Paths, SoundBytes(path), [Next]_vars,
         at \in {"boot", "container", "ai", "issuer", "times", "strict"}
  PROVE  \/ at' \in {"boot", "container", "ai", "issuer", "times", "strict", "stage2"}
         \/ at' = "done" /\ verdict' = "down"
<1> USE StepAt DEF Check, Answer, Pass
<1>1. CASE UNCHANGED vars
  BY <1>1 DEF vars
<1>2. CASE at = "boot" /\ ~UNCHANGED vars
  BY <1>2 DEF Boot
<1>3. CASE at = "container" /\ ~UNCHANGED vars
  BY <1>3 DEF ReadStore
<1>4. CASE at = "ai" /\ ~UNCHANGED vars
  <2>1. ~\E l \in frontier : DeclaresGenerativeAi(manifest(l))
    BY <1>4, PathsWiden, BoundsAssumption DEF AiInv, AiWalk, AiDeclared, SoundBytes
  <2> QED
    BY <1>4, <2>1 DEF ExamineLevel, manifest
<1>5. CASE at = "issuer" /\ ~UNCHANGED vars
  <2>1. resolve(active).profile = "realreel"
    BY DEF SoundBytes
  <2>2. active.org # ""
    <3>1. resolve(active).profile # "none"
      BY <2>1
    <3> QED
      BY <3>1, NamedPasses, Zenon
  <2> QED
    BY <1>5, <2>1, <2>2, Zenon DEF ActiveIssuer
<1>6. CASE at = "times" /\ ~UNCHANGED vars
  <2>1. ~StampRefused
    BY DEF SoundBytes, StampRefused, StampTrusted
  <2>2. ~FutureDated
    BY BoundsAssumption DEF SoundBytes, FutureDated, ControlInv, IsUpload
  <2> QED
    BY <1>6, <2>1, <2>2 DEF CertValidityTimeBounds
<1>7. CASE at = "strict" /\ ~UNCHANGED vars
  BY <1>7 DEF ValidationStatusGate, Strict, SoundBytes
<1> QED
  BY <1>1, <1>2, <1>3, <1>4, <1>5, <1>6, <1>7

LEMMA SoundWalks ==
  ASSUME HasActive(store), NEW path \in Paths, SoundBytes(path), OnPath(path), [Next]_vars,
         at \in {"stage2", "walk"}, ~UNCHANGED vars,
         at = "walk" => trail \in Seq(Held)
  PROVE  /\ at' \in {"walk", "fresh"}
         /\ at' = "walk" => Len(trail') < Len(path) /\ current' = path[Len(trail') + 1]
         /\ at' = "fresh" => current' = path[Len(path)]
<1>1. PICK n \in 1..(MaxUpdateManifestDepth + 1) :
        n = Len(path) /\ \A i \in 1..n : path[i] \in Held
  BY PathInside
<1>2. Lineage(path) /\ n \in Nat /\ 1 \in 1..n
  BY <1>1, BoundsAssumption DEF SoundBytes
<1>3. CASE at = "stage2"
  <2>1. LoneParent(active, path[1]) /\ path[1] \in DOMAIN store.manifests
    BY <1>1, <1>2 DEF Lineage, Held
  <2>2. ParentReason(store, active) = "ok" /\ ParentOf(active) = path[1]
    BY <2>1, LoneIsParent
  <2>3. WalkTo(path[1], <<>>)
    BY <1>3, <2>2, StepAt DEF Stage2Parent
  <2>4. at' = "walk" /\ current' = path[1] /\ trail' = <<>> /\ Len(trail') = 0
    BY <2>3 DEF WalkTo
  <2> QED
    BY <1>1, <1>2, <2>4
<1>4. CASE at = "walk"
  <2> DEFINE k == Len(trail) + 1
             m == manifest(current)
  <2>1. k \in 1..n /\ current = path[k] /\ Len(trail) \in Nat
    BY <1>1, <1>4 DEF OnPath
  <2>2. WalkUpdateManifest
    BY <1>4, StepAt
  <2>3. CASE k = n
    <3>1. SoundCapture(m)
      BY <1>1, <1>2, <2>1, <2>3 DEF Lineage
    <3>2. ~TimestampUpdate(m)
      BY <3>1 DEF SoundCapture, TimestampUpdate, FreshCapture
    <3>3. at' = "fresh" /\ current' = current
      BY <2>2, <3>2 DEF WalkUpdateManifest, Pass, walkVars, manifest
    <3> QED
      BY <1>1, <2>1, <2>3, <3>3
  <2>4. CASE k # n
    <3>1. k \in 1..(n - 1) /\ k + 1 \in 1..n
      BY <1>2, <2>1, <2>4
    <3>2. SoundUpdate(m) /\ LoneParent(m, path[k + 1]) /\ path[k + 1] \in DOMAIN store.manifests
      BY <1>1, <1>2, <2>1, <3>1 DEF Lineage, Held
    <3>3. ParentReason(store, m) = "ok" /\ ParentOf(m) = path[k + 1]
      BY <3>2, LoneIsParent
    <3>4. TimestampUpdate(m)
      BY <3>2 DEF SoundUpdate, LoneParent, TimestampUpdate, FreshCapture
    <3>5. DisallowedActions(m, UpdateAllowed) = {} /\ resolve(m).profile = "realreel"
      BY <3>2, OnlyAllowed DEF SoundUpdate, UpdateAllowed
    <3>6. ~(Len(trail) + 1 > MaxUpdateManifestDepth)
      BY <1>1, <2>1, <2>4, BoundsAssumption
    <3>7. WalkTo(path[k + 1], Append(trail, current))
      BY <2>2, <3>3, <3>4, <3>5, <3>6 DEF WalkUpdateManifest, manifest
    <3>8. at' = "walk" /\ current' = path[k + 1] /\ trail' = Append(trail, current)
      BY <3>7 DEF WalkTo
    <3>9. Len(trail') = k
      BY <3>8
    <3> HIDE DEF m, k
    <3> QED
      BY <1>1, <3>1, <3>8, <3>9
  <2> QED
    BY <2>3, <2>4
<1> QED
  BY <1>3, <1>4

LEMMA SoundAfterWalk ==
  ASSUME ControlInv, HasActive(store), NEW path \in Paths, SoundBytes(path), OnPath(path),
         [Next]_vars, ~UNCHANGED vars,
         at \in {"fresh", "created", "source", "binding", "recorded", "uploadActions"}
  PROVE  /\ at' \in {"created", "source", "binding", "recorded", "uploadActions", "ocsp"}
         /\ current' = path[Len(path)]
<1> USE StepAt DEF Check, Pass
<1>1. current = path[Len(path)] /\ SoundCapture(capture) /\ current' = current
  BY InputsKept DEF OnPath, SoundBytes, Lineage, capture, manifest
<1>2. CASE at = "fresh"
  BY <1>1, <1>2 DEF CaptureIsFresh, SoundCapture, FreshCapture
<1>3. CASE at = "created"
  <2>1. DisallowedActions(capture, CaptureAllowed) = {}
    BY <1>1, OnlyAllowed DEF SoundCapture, CaptureAllowed
  <2> QED
    BY <1>1, <1>3, <2>1 DEF CaptureIsCreated
<1>4. CASE at = "source"
  <2>1. resolve(capture).profile \in Profile
    BY <1>1 DEF SoundCapture, Profile
  <2>2. capture.org # ""
    <3>1. resolve(capture).profile # "none"
      BY <2>1 DEF Profile
    <3> QED
      BY <3>1, NamedPasses, Zenon
  <2>3. at' = "binding"
    BY <1>4, <2>1, <2>2, Zenon DEF ParentTrustSource
  <2> QED
    BY <1>1, <2>3
<1>5. CASE at = "binding"
  BY <1>1, <1>5, CleanIsBound DEF ParentBinding, SoundBytes
<1>6. CASE at = "recorded"
  BY <1>1, <1>6, ExcusedIsRecorded DEF RecordedIngredientResults, Strict, SoundBytes, ControlInv
<1>7. CASE at = "uploadActions"
  BY <1>1, <1>7, OnlyAllowed DEF UploadActions, SoundBytes
<1> QED
  BY <1>2, <1>3, <1>4, <1>5, <1>6, <1>7

LEMMA PoolIsRoots ==
  ASSUME yaml \in Yaml
  PROVE  trust.pool \subseteq Roots
<1>1. /\ \A i \in Present(yaml.sources) : yaml.sources[i].root \in Roots
      /\ \A i \in Present(yaml.tsas) : yaml.tsas[i].root \in Roots
  <2>1. yaml.sources \in Seq(SourceEntry) /\ yaml.tsas \in Seq(TsaEntry)
    BY DEF Yaml
  <2>2. ASSUME NEW i \in DOMAIN yaml.sources PROVE yaml.sources[i].root \in Roots
    <3>1. yaml.sources[i] \in SourceEntry
      BY <2>1
    <3> QED
      BY <3>1 DEF SourceEntry
  <2>3. ASSUME NEW i \in DOMAIN yaml.tsas PROVE yaml.tsas[i].root \in Roots
    <3>1. yaml.tsas[i] \in TsaEntry
      BY <2>1
    <3> QED
      BY <3>1 DEF TsaEntry
  <2> QED
    BY <2>2, <2>3 DEF Present
<1> QED
  BY <1>1 DEF trust, LoadTrust

(* A code about a revocation comes from a responder that was asked.         *)
LEMMA AnswersAreAsked ==
  ASSUME NEW allowed, NEW reply, NEW s, s \in StatusOf(store, OcspFindings(store, allowed, reply)),
         HasActive(store)
  PROVE  \E l \in Asked(store, allowed) : reply[manifest(l).responder] = "revoked"
<1> DEFINE found == OcspFindings(store, allowed, reply)
<1>1. \A l \in Held : found[l] # {} =>
        l \in Asked(store, allowed) /\ reply[manifest(l).responder] = "revoked"
  BY DEF OcspFindings, Held, manifest
<1>2. \E l \in Held : found[l] # {}
  <2>1. CASE found[store.active] # {}
    BY <2>1 DEF HasActive, Held
  <2>2. CASE found[store.active] = {}
    <3> HIDE DEF found
    <3>1. PICK p \in LivePositions(store) : found[IngredientAt(store, p).ref] # {}
      BY <2>2 DEF StatusOf, found
    <3>2. IngredientAt(store, p).ref \in Held
      BY DEF LivePositions, Held
    <3> QED
      BY <3>1, <3>2
  <2> QED
    BY <2>1, <2>2
<1> QED
  BY <1>1, <1>2

LEMMA SoundAtEnd ==
  ASSUME ControlInv, upload.readable, HasActive(store), NEW path \in Paths, SoundBytes(path),
         OnPath(path), [Next]_vars, ~UNCHANGED vars, at \in {"ocsp", "ledger"}
  PROVE  /\ at' \in {"ledger", "done"} /\ current' = path[Len(path)]
         /\ at' = "done" => Spared'
<1> USE StepAt
<1>1. current' = path[Len(path)] /\ UNCHANGED <<yaml, upload, current>>
  BY InputsKept DEF OnPath
<1>2. ClaimInWindow' = ClaimInWindow
  BY <1>1, Unmoved
<1>3. CASE at = "ocsp" /\ at' # "ledger"
  <2>1. MustConfirm
    BY <1>3 DEF NetworkRevocationGate, Pass
  <2>2. /\ contacted' = Asked(store, AllowedHosts)
        /\ \E o \in OcspOutcome(answers') \cup {"VERIFIER_UNAVAILABLE"} :
             IF o = "confirmed" THEN at' = "ledger" /\ UNCHANGED verdict
             ELSE at' = "done" /\ verdict' = o
    BY <1>3, <2>1 DEF NetworkRevocationGate
  <2>3. at' = "done" /\ verdict' \in OcspOutcome(answers') \cup {"VERIFIER_UNAVAILABLE"}
        /\ verdict' # "confirmed"
    BY <1>3, <2>2
  <2>4. CASE verdict' = "VERIFIER_UNAVAILABLE"
    BY <1>1, <2>3, <2>4 DEF Spared
  <2>5. CASE OcspStatus(answers') # {}
    <3>1. PICK l \in Asked(store, AllowedHosts) :
            answers'[manifest(l).responder] = "revoked"
      BY <2>5, AnswersAreAsked DEF OcspStatus
    <3>2. store' = store
      BY <1>1 DEF store
    <3> QED
      BY <1>1, <2>2, <2>3, <3>1, <3>2 DEF Spared, manifest
  <2> QED
    BY <2>3, <2>4, <2>5 DEF OcspOutcome
<1>4. CASE at = "ocsp" /\ at' = "ledger"
  BY <1>1, <1>4
<1>5. CASE at = "ledger"
  <2>1. LedgerTimeBounds
    BY <1>5
  <2>2. CASE Unparseable \/ Predates \/ Outlives
    <3>1. {upload.time, upload.issued, upload.expires} \subseteq Nat \cup {NoTime}
      BY DEF ControlInv, IsUpload
    <3>2. upload.stamp = NoStamp => upload.stamp \notin trust.pool
      BY InputAssumption, PoolIsRoots DEF ControlInv
    <3>3. ~ClaimInWindow
      <4>1. CASE Unparseable
        BY <4>1 DEF ClaimInWindow, Unparseable
      <4>2. CASE ~Unparseable /\ Predates
        BY <3>1, <4>2, BoundsAssumption DEF ClaimInWindow, Unparseable, Predates
      <4>3. CASE ~Unparseable /\ Outlives
        BY <3>1, <3>2, <4>3, BoundsAssumption
        DEF ClaimInWindow, Unparseable, Outlives, StampTrusted
      <4> QED
        BY <2>2, <4>1, <4>2, <4>3
    <3>4. at' = "done"
      BY <2>1, <2>2 DEF LedgerTimeBounds, Answer
    <3> QED
      BY <1>1, <1>2, <3>3, <3>4 DEF Spared
  <2>3. CASE ~(Unparseable \/ Predates \/ Outlives)
    <3>1. at' = "done" /\ verdict' = "accepted"
      BY <2>1, <2>3 DEF LedgerTimeBounds
    <3> QED
      BY <1>1, <3>1 DEF Spared
  <2> QED
    BY <2>2, <2>3
<1> QED
  BY <1>3, <1>4, <1>5

(* No sound upload is turned away by any gate, only by its leaf's window or *)
(* by what a responder says or fails to say.                                *)
THEOREM SoundIsNotRefusedHolds == Spec => []SoundIsNotRefused
<1>1. Init => SoundInv
  BY DEF Init, SoundInv, OnPath, Done
<1>2. GatesInv /\ SoundInv /\ [Next]_vars => SoundInv'
  <2> SUFFICES ASSUME GatesInv, SoundInv, [Next]_vars, (upload.readable /\ HasActive(store))',
                      NEW path \in Paths', SoundBytes(path)'
               PROVE  OnPath(path)' /\ (Done' /\ verdict' # "down" => Spared')
    BY DEF SoundInv
  <2>1. UNCHANGED <<yaml, upload>> /\ ControlInv /\ AiInv /\ SieveInv
    BY InputsKept DEF GatesInv
  <2>2. /\ upload.readable /\ HasActive(store) /\ path \in Paths /\ SoundBytes(path)
    BY <2>1, SoundIsKept
  <2>3. OnPath(path) /\ (Done /\ verdict # "down" => Spared)
    BY <2>2 DEF SoundInv
  <2>4. CASE UNCHANGED vars
    <3>1. UNCHANGED <<at, current, trail, verdict, contacted, answers>>
      BY <2>4 DEF vars, walkVars, networkVars
    <3>2. ClaimInWindow' = ClaimInWindow /\ store' = store
      BY <2>1, <3>1, Unmoved DEF store
    <3> QED
      BY <2>3, <3>1, <3>2 DEF OnPath, Spared, Done, manifest
  <2>5. CASE at \in {"boot", "container", "ai", "issuer", "times", "strict"}
    BY <2>1, <2>2, <2>5, SoundBeforeWalk DEF OnPath, Done
  <2>6. CASE at \in {"stage2", "walk"} /\ ~UNCHANGED vars
    <3>1. at = "walk" => trail \in Seq(Held)
      BY <2>1, RankOf DEF SieveInv, Passed, Done, WalkedPath
    <3> QED
      BY <2>2, <2>3, <2>6, <3>1, SoundWalks DEF OnPath, Done
  <2>7. CASE at \in {"fresh", "created", "source", "binding", "recorded", "uploadActions"}
             /\ ~UNCHANGED vars
    BY <2>1, <2>2, <2>3, <2>7, SoundAfterWalk DEF OnPath, Done
  <2>8. CASE at \in {"ocsp", "ledger"} /\ ~UNCHANGED vars
    BY <2>1, <2>2, <2>3, <2>8, SoundAtEnd DEF OnPath, Done
  <2> QED
    BY <2>4, <2>5, <2>6, <2>7, <2>8, StepAt
<1>3. SoundInv => SoundIsNotRefused
  BY DEF SoundInv, SoundIsNotRefused, Sound
<1> QED
  BY <1>1, <1>2, <1>3, GatesInvariant, PTL DEF Spec
=============================================================================
