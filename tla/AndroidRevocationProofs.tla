----------------------- MODULE AndroidRevocationProofs -----------------------
(***************************************************************************)
(* Machine-checked proofs about the Android revocation list's cache, for   *)
(* any number of overlapping loads and any refresh, use and retry windows. *)
(***************************************************************************)
EXTENDS AndroidRevocationCache, TLAPS

Copy == [list : SUBSET Serials, fetchedAt : Instant]

LoadInv == TypeOK /\ CopyInv /\ ServedListBound /\ StaleOnlyAfterFailure

LEMMA TimesNat ==
  /\ RefreshAfter \in Nat \ {0} /\ UsableFor \in Nat \ {0}
  /\ RetryAfterFailure \in Nat \ {0} /\ FetchTimeout \in Nat \ {0} /\ Horizon \in Nat \ {0}
  /\ RefreshAfter <= UsableFor
BY TimesAssumption

(* What was listed early is among what was listed later.                   *)
LEMMA ListedGrows ==
  ASSUME TypeOK, NEW t \in Int, NEW u \in Int, t <= u
  PROVE  Listed(t) \subseteq Listed(u)
BY TimesNat DEF TypeOK, Listed, Never

(* A publication adds to no instant before its own.                        *)
LEMMA PublishLater ==
  ASSUME TypeOK, NEW s \in Serials, Publish(s), NEW t \in Int, t < now
  PROVE  Listed(t)' = Listed(t)
BY TimesNat DEF TypeOK, Publish, Listed, Never, Instant

LEMMA TypeStep ==
  ASSUME TypeOK, [Next]_vars
  PROVE  TypeOK'
<1> USE TimesNat DEF Instant, Never
<1>1. CASE Tick
  BY <1>1 DEF TypeOK, Tick, loadVars
<1>2. ASSUME NEW s \in Serials, Publish(s) PROVE TypeOK'
  BY <1>2 DEF TypeOK, Publish, loadVars
<1>3. ASSUME NEW l \in Loads, Load(l) PROVE TypeOK'
  <2>1. cached # NoCopy => cached.list \in SUBSET Serials
    BY DEF TypeOK
  <2>2. served' \in [Loads -> SUBSET Serials]
    BY <1>3, <2>1 DEF TypeOK, Load, ServedFromCopy, Usable, Return
  <2>3. fallback' \in [Loads -> {NoCopy} \cup Copy]
    BY <1>3 DEF TypeOK, Load, Return, Copy
  <2>4. pc' \in [Loads -> {"idle", "request", "response", "returned", "threw"}]
    BY <1>3 DEF TypeOK, Load, Return
  <2>5. QED
    BY <1>3, <2>2, <2>3, <2>4 DEF TypeOK, Load, Copy
<1>4. ASSUME NEW l \in Loads, ListRead(l) PROVE TypeOK'
  BY <1>4 DEF TypeOK, ListRead, Listed
<1>5. ASSUME NEW l \in Loads, FetchSucceeds(l) PROVE TypeOK'
  BY <1>5 DEF TypeOK, FetchSucceeds, Return
<1>6. ASSUME NEW l \in Loads, FetchFails(l) PROVE TypeOK'
  <2>1. fallback[l] # NoCopy => fallback[l].list \in SUBSET Serials
    BY DEF TypeOK
  <2>2. served' \in [Loads -> SUBSET Serials]
    BY <1>6, <2>1 DEF TypeOK, FetchFails, Return
  <2>3. pc' \in [Loads -> {"idle", "request", "response", "returned", "threw"}]
    BY <1>6 DEF TypeOK, FetchFails, Return
  <2>4. began[l] \in Instant /\ retryAt' = began[l] + RetryAfterFailure
        /\ failedAt' = failedAt \cup {began[l]} /\ failedAt \subseteq Instant
    BY <1>6 DEF TypeOK, FetchFails
  <2>5. QED
    <3>1. retryAt' \in Nat
      BY <2>4
    <3>2. failedAt' \subseteq Instant
      BY <2>4
    <3>3. QED
      BY <1>6, <2>2, <2>3, <3>1, <3>2 DEF TypeOK, FetchFails
<1>7. CASE UNCHANGED vars
  BY <1>7 DEF TypeOK, vars, loadVars
<1>8. QED
  BY <1>1, <1>2, <1>3, <1>4, <1>5, <1>6, <1>7 DEF Next

-----------------------------------------------------------------------------
(* A copy that is usable is complete up to UsableFor ago, and one that is  *)
(* young up to RefreshAfter ago.                                           *)
LEMMA UsableIsComplete ==
  ASSUME TypeOK, NEW copy \in Copy, NEW t \in Instant, NEW age \in Nat,
         Listed(copy.fetchedAt - 1) \subseteq copy.list, t - copy.fetchedAt < age
  PROVE  Listed(t - age) \subseteq copy.list
<1>1. copy.fetchedAt \in Int /\ t - age \in Int /\ copy.fetchedAt - 1 \in Int
  BY TimesNat DEF Copy, Instant
<1>2. t - age <= copy.fetchedAt - 1
  BY <1>1, TimesNat DEF Instant
<1>3. QED
  BY <1>1, <1>2, ListedGrows

(* Each action preserves what is said of copies and answers.               *)
LEMMA LoadStep ==
  ASSUME LoadInv, NEW l \in Loads, Load(l), TypeOK'
  PROVE  CopyInv' /\ ServedListBound' /\ StaleOnlyAfterFailure'
<1> USE TimesNat
<1>1. /\ UNCHANGED <<now, listedAt, cached, retryAt, fetched, failedAt>>
      /\ began' = [began EXCEPT ![l] = now] /\ pc[l] = "idle" /\ now \in Instant
      /\ TypeOK /\ CopyInv /\ pc \in [Loads -> {"idle", "request", "response", "returned", "threw"}]
      /\ began \in [Loads -> Instant] /\ served \in [Loads -> SUBSET Serials]
  BY DEF Load, LoadInv, TypeOK
<1>2. \A t : Listed(t)' = Listed(t)
  BY <1>1 DEF Listed
<1>3. \/ /\ ServedFromCopy(now) /\ pc' = [pc EXCEPT ![l] = "returned"]
         /\ served' = [served EXCEPT ![l] = cached.list] /\ fallback' = fallback
      \/ /\ pc' = [pc EXCEPT ![l] = "request"] /\ served' = served
         /\ fallback' = [fallback EXCEPT ![l] = IF Usable(cached, now) THEN cached ELSE NoCopy]
  BY DEF Load, Return
<1>4. \A copy : Complete(copy)' <=> Complete(copy)
  BY <1>2 DEF Complete, NoCopy
<1>5. ServedFromCopy(now) =>
        /\ Listed(now - UsableFor) \subseteq cached.list
        /\ \/ Listed(now - RefreshAfter) \subseteq cached.list
           \/ \E t \in failedAt : now - RetryAfterFailure < t
  <2>1. SUFFICES ASSUME ServedFromCopy(now)
                 PROVE  /\ Listed(now - UsableFor) \subseteq cached.list
                        /\ \/ Listed(now - RefreshAfter) \subseteq cached.list
                           \/ \E t \in failedAt : now - RetryAfterFailure < t
    OBVIOUS
  <2>2. cached \in Copy /\ Listed(cached.fetchedAt - 1) \subseteq cached.list
    BY <1>1, <2>1 DEF ServedFromCopy, Usable, CopyInv, Complete, TypeOK, Copy
  <2>3. Listed(now - UsableFor) \subseteq cached.list
    BY <1>1, <2>1, <2>2, UsableIsComplete DEF ServedFromCopy, Usable
  <2>4. now - cached.fetchedAt < RefreshAfter => Listed(now - RefreshAfter) \subseteq cached.list
    BY <1>1, <2>2, UsableIsComplete
  <2>5. now < retryAt => \E t \in failedAt : now - RetryAfterFailure < t
    <3>1. SUFFICES ASSUME now < retryAt PROVE retryAt - RetryAfterFailure \in failedAt
      BY <1>1 DEF TypeOK, Instant
    <3>2. QED
      BY <1>1, <3>1 DEF CopyInv, TypeOK, Instant
  <2>6. QED
    BY <2>1, <2>3, <2>4, <2>5 DEF ServedFromCopy
<1>6. CopyInv'
  <2>1. Complete(cached)'
    BY <1>1, <1>2 DEF CopyInv, Complete
  <2>2. ASSUME NEW m \in Loads
        PROVE /\ Complete(fallback[m])'
              /\ fallback'[m] # NoCopy =>
                   Usable(fallback'[m], began'[m]) /\ fallback'[m].fetchedAt <= began'[m]
              /\ pc'[m] = "response" => Listed(began[m] - 1)' \subseteq fetched'[m]
              /\ began'[m] <= now'
              /\ pc'[m] = "idle" => fallback'[m] = NoCopy
    <3>1. CASE m # l
      BY <1>1, <1>2, <1>3, <3>1 DEF CopyInv, Complete, TypeOK
    <3>2. CASE m = l
      <4>1. fallback'[l] \in {cached, NoCopy, fallback[l]}
        BY <1>1, <1>3 DEF TypeOK
      <4>2. Complete(fallback[l])'
        BY <1>1, <1>2, <4>1 DEF CopyInv, Complete
      <4>3. fallback'[l] # NoCopy =>
              Usable(fallback'[l], began'[l]) /\ fallback'[l].fetchedAt <= began'[l]
        BY <1>1, <1>3 DEF CopyInv, TypeOK, Load
      <4>4. QED
        BY <1>1, <1>3, <3>2, <4>2, <4>3 DEF Instant
    <3>3. QED
      BY <3>1, <3>2
  <2>3. QED
    BY <1>1, <2>1, <2>2 DEF CopyInv
<1>7. ServedListBound'
  BY <1>1, <1>2, <1>3, <1>5 DEF LoadInv, ServedListBound
<1>8. StaleOnlyAfterFailure'
  BY <1>1, <1>2, <1>3, <1>5 DEF LoadInv, StaleOnlyAfterFailure
<1>9. QED
  BY <1>6, <1>7, <1>8

LEMMA FetchSucceedsStep ==
  ASSUME LoadInv, NEW l \in Loads, FetchSucceeds(l), TypeOK'
  PROVE  CopyInv' /\ ServedListBound' /\ StaleOnlyAfterFailure'
<1> USE TimesNat
<1>1. /\ UNCHANGED <<now, listedAt, retryAt, began, fallback, fetched, failedAt>>
      /\ pc[l] = "response" /\ pc' = [pc EXCEPT ![l] = "returned"]
      /\ served' = [served EXCEPT ![l] = fetched[l]]
      /\ cached' = [list |-> fetched[l], fetchedAt |-> began[l]]
      /\ pc \in [Loads -> {"idle", "request", "response", "returned", "threw"}]
      /\ began \in [Loads -> Instant] /\ served \in [Loads -> SUBSET Serials]
      /\ TypeOK /\ CopyInv
  BY DEF FetchSucceeds, Return, LoadInv, TypeOK
<1>2. \A t : Listed(t)' = Listed(t)
  BY <1>1 DEF Listed
<1>3. Listed(began[l] - 1) \subseteq fetched[l] /\ began[l] <= now /\ began[l] \in Instant
  BY <1>1 DEF CopyInv
<1>4. CopyInv'
  <2>1. Complete(cached)'
    BY <1>1, <1>2, <1>3 DEF Complete
  <2>2. QED
    BY <1>1, <1>2, <1>3, <2>1 DEF CopyInv, Complete, Usable
<1>5. /\ Listed(began[l] - UsableFor) \subseteq fetched[l]
      /\ Listed(began[l] - RefreshAfter) \subseteq fetched[l]
  <2>1. /\ began[l] - UsableFor \in Int /\ began[l] - UsableFor <= began[l] - 1
        /\ began[l] - RefreshAfter \in Int /\ began[l] - RefreshAfter <= began[l] - 1
        /\ began[l] - 1 \in Int
    BY <1>3 DEF Instant
  <2>2. QED
    BY <1>1, <1>3, <2>1, ListedGrows
<1>6. ServedListBound'
  BY <1>1, <1>2, <1>5 DEF LoadInv, ServedListBound
<1>7. StaleOnlyAfterFailure'
  BY <1>1, <1>2, <1>5 DEF LoadInv, StaleOnlyAfterFailure
<1>8. QED
  BY <1>4, <1>6, <1>7

LEMMA FetchFailsStep ==
  ASSUME LoadInv, NEW l \in Loads, FetchFails(l), TypeOK'
  PROVE  CopyInv' /\ ServedListBound' /\ StaleOnlyAfterFailure'
<1> USE TimesNat
<1>1. /\ UNCHANGED <<now, listedAt, cached, began, fallback, fetched>>
      /\ retryAt' = began[l] + RetryAfterFailure /\ failedAt' = failedAt \cup {began[l]}
      /\ pc \in [Loads -> {"idle", "request", "response", "returned", "threw"}]
      /\ began \in [Loads -> Instant] /\ served \in [Loads -> SUBSET Serials]
      /\ TypeOK /\ CopyInv /\ began[l] \in Instant
  BY DEF FetchFails, LoadInv, TypeOK
<1>2. \A t : Listed(t)' = Listed(t)
  BY <1>1 DEF Listed
<1>3. \/ /\ fallback[l] # NoCopy /\ pc' = [pc EXCEPT ![l] = "returned"]
         /\ served' = [served EXCEPT ![l] = fallback[l].list]
      \/ pc' = [pc EXCEPT ![l] = "threw"] /\ served' = served
  BY DEF FetchFails, Return
<1>4. CopyInv'
  <2>1. Complete(cached)' /\ \A m \in Loads : Complete(fallback[m])'
    BY <1>1, <1>2 DEF CopyInv, Complete
  <2>2. retryAt' - RetryAfterFailure \in failedAt'
    BY <1>1 DEF Instant
  <2>3. QED
    BY <1>1, <1>2, <1>3, <2>1, <2>2 DEF CopyInv, Usable
<1>5. fallback[l] # NoCopy => Listed(began[l] - UsableFor) \subseteq fallback[l].list
  <2>1. fallback[l] # NoCopy => /\ fallback[l] \in Copy
                               /\ Listed(fallback[l].fetchedAt - 1) \subseteq fallback[l].list
                               /\ began[l] - fallback[l].fetchedAt < UsableFor
    BY <1>1 DEF CopyInv, Complete, Usable, TypeOK, Copy
  <2>2. QED
    BY <1>1, <2>1, UsableIsComplete
<1>6. ServedListBound'
  BY <1>1, <1>2, <1>3, <1>5 DEF LoadInv, ServedListBound
<1>7. StaleOnlyAfterFailure'
  <2>1. began[l] \in failedAt' /\ began[l] - RetryAfterFailure < began[l]
    BY <1>1 DEF Instant
  <2>2. QED
    BY <1>1, <1>2, <1>3, <2>1 DEF LoadInv, StaleOnlyAfterFailure
<1>8. QED
  BY <1>4, <1>6, <1>7

LEMMA ListReadStep ==
  ASSUME LoadInv, NEW l \in Loads, ListRead(l), TypeOK'
  PROVE  CopyInv' /\ ServedListBound' /\ StaleOnlyAfterFailure'
<1> USE TimesNat
<1>1. /\ UNCHANGED <<now, listedAt, cached, retryAt, began, fallback, served, failedAt>>
      /\ pc' = [pc EXCEPT ![l] = "response"] /\ fetched' = [fetched EXCEPT ![l] = Listed(now)]
      /\ TypeOK /\ CopyInv /\ began[l] \in Instant /\ now \in Instant /\ began[l] <= now
  BY DEF ListRead, LoadInv, TypeOK, CopyInv
<1>2. \A t : Listed(t)' = Listed(t)
  BY <1>1 DEF Listed
<1>3. Listed(began[l] - 1) \subseteq Listed(now)
  BY <1>1, ListedGrows DEF Instant
<1>4. CopyInv'
  <2>1. Complete(cached)' /\ \A m \in Loads : Complete(fallback[m])'
    BY <1>1, <1>2 DEF CopyInv, Complete
  <2>2. QED
    BY <1>1, <1>2, <1>3, <2>1 DEF CopyInv, Usable, TypeOK
<1>5. ServedListBound' /\ StaleOnlyAfterFailure'
  BY <1>1, <1>2 DEF LoadInv, ServedListBound, StaleOnlyAfterFailure, TypeOK
<1>6. QED
  BY <1>4, <1>5

LEMMA PublishStep ==
  ASSUME LoadInv, NEW s \in Serials, Publish(s), TypeOK'
  PROVE  CopyInv' /\ ServedListBound' /\ StaleOnlyAfterFailure'
<1> USE TimesNat
<1>1. /\ UNCHANGED <<now, cached, retryAt, pc, began, fallback, fetched, served, failedAt>>
      /\ TypeOK /\ CopyInv
  BY DEF Publish, loadVars, LoadInv
<1>2. /\ cached # NoCopy => Listed(cached.fetchedAt - 1)' = Listed(cached.fetchedAt - 1)
      /\ \A m \in Loads :
           /\ fallback[m] # NoCopy =>
                Listed(fallback[m].fetchedAt - 1)' = Listed(fallback[m].fetchedAt - 1)
           /\ Listed(began[m] - 1)' = Listed(began[m] - 1)
           /\ Listed(began[m] - UsableFor)' = Listed(began[m] - UsableFor)
           /\ Listed(began[m] - RefreshAfter)' = Listed(began[m] - RefreshAfter)
  <2>1. cached # NoCopy => cached.fetchedAt - 1 \in Int /\ cached.fetchedAt - 1 < now
    BY <1>1 DEF CopyInv, TypeOK, Instant
  <2>2. ASSUME NEW m \in Loads
        PROVE  /\ began[m] \in Int /\ now \in Int /\ began[m] <= now
               /\ fallback[m] # NoCopy =>
                    fallback[m].fetchedAt - 1 \in Int /\ fallback[m].fetchedAt - 1 < now
    BY <1>1 DEF CopyInv, TypeOK, Instant
  <2>3. QED
    BY <1>1, <2>1, <2>2, PublishLater
<1>3. QED
  BY <1>1, <1>2
     DEF CopyInv, Complete, Usable, LoadInv, ServedListBound, StaleOnlyAfterFailure

-----------------------------------------------------------------------------
LEMMA InvInit == Init => LoadInv
<1> SUFFICES ASSUME Init PROVE LoadInv
  OBVIOUS
<1> USE TimesNat
<1>1. TypeOK
  BY DEF Init, TypeOK, Instant, Never
<1>2. CopyInv /\ ServedListBound /\ StaleOnlyAfterFailure
  BY DEF Init, CopyInv, Complete, ServedListBound, StaleOnlyAfterFailure
<1>3. QED
  BY <1>1, <1>2 DEF LoadInv

LEMMA InvStep == LoadInv /\ [Next]_vars => LoadInv'
<1> SUFFICES ASSUME LoadInv, [Next]_vars PROVE LoadInv'
  OBVIOUS
<1>0. TypeOK'
  BY TypeStep DEF LoadInv
<1>1. ASSUME now' \in Instant, now' >= now,
             UNCHANGED <<listedAt, cached, retryAt, loadVars, failedAt>>
      PROVE  CopyInv' /\ ServedListBound' /\ StaleOnlyAfterFailure'
  <2>1. now \in Instant /\ began \in [Loads -> Instant]
        /\ (cached # NoCopy => cached.fetchedAt \in Instant)
    BY DEF LoadInv, TypeOK
  <2>2. \A t : Listed(t)' = Listed(t)
    BY <1>1 DEF Listed
  <2>3. CopyInv'
    BY <1>1, <2>1, <2>2 DEF LoadInv, CopyInv, Complete, Usable, loadVars, Instant
  <2>4. ServedListBound' /\ StaleOnlyAfterFailure'
    BY <1>1, <2>2 DEF LoadInv, ServedListBound, StaleOnlyAfterFailure, loadVars
  <2>5. QED
    BY <2>3, <2>4
<1>2. CASE Tick
  BY <1>0, <1>1, <1>2, TimesNat DEF Tick, LoadInv, TypeOK, Instant
<1>3. CASE UNCHANGED vars
  BY <1>0, <1>1, <1>3 DEF vars, LoadInv, TypeOK, Instant
<1>4. CopyInv' /\ ServedListBound' /\ StaleOnlyAfterFailure'
  BY <1>0, <1>1, <1>2, <1>3, LoadStep, ListReadStep, FetchSucceedsStep, FetchFailsStep,
     PublishStep DEF Next, Tick, vars, LoadInv, TypeOK, Instant
<1>5. QED
  BY <1>0, <1>4 DEF LoadInv

LEMMA InvariantHolds == Spec => []LoadInv
BY InvInit, InvStep, PTL DEF Spec

(* Whatever the overlap of loads, a served list names every key that was   *)
(* listed UsableFor before the load began: copies carry the instant their  *)
(* load began, not the one their response arrived.                         *)
THEOREM ServedListBoundHolds == Spec => []ServedListBound
BY InvariantHolds, PTL DEF LoadInv

(* A list older than RefreshAfter is only served within RetryAfterFailure  *)
(* of a load whose fetch failed.                                           *)
THEOREM StaleOnlyAfterFailureHolds == Spec => []StaleOnlyAfterFailure
BY InvariantHolds, PTL DEF LoadInv
=============================================================================
