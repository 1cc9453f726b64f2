------------------------ MODULE IcaOcspRefreshProofs ------------------------
(***************************************************************************)
(* Machine-checked proofs about the OCSP refresh job, for any validity and *)
(* any run of triggers, failures and outages.                              *)
(***************************************************************************)
EXTENDS IcaOcspRefresh, TLAPS

LEMMA ConstantsNat ==
  Validity \in Nat \ {0} /\ MaxDispatches \in Nat \ {0} /\ Horizon \in Nat \ {0}
BY RefreshAssumption

(* Nothing is published, signed or under way at first. *)
LEMMA RefreshInit == Init => RefreshInv
<1> SUFFICES ASSUME Init PROVE RefreshInv
  OBVIOUS
<1>1. lastGreen \in Nat \cup {-1} /\ day \in Nat /\ dispatches \in Nat /\ ~(lastGreen >= 0) /\ lastGreen <= day
  BY DEF Init
<1>2. kv \in [Slots -> Response] /\ built \in Response
  BY DEF Init, Response
<1>3. cronDone \in BOOLEAN /\ explicit \in BOOLEAN /\ failed \in BOOLEAN /\ aborted \in BOOLEAN
      /\ warned \in BOOLEAN
  BY Zenon DEF Init
<1>4. TypeOK
  BY <1>1, <1>2, <1>3 DEF Init, TypeOK, Status, Input
<1>5. RunInv /\ EndInv /\ GreenRunTakesEffect /\ StickyInv
  BY DEF Init, RunInv, EndInv, GreenRunTakesEffect, StickyInv, At, Signing, Unset
<1> QED
  BY <1>1, <1>4, <1>5 DEF RefreshInv, WindowInv

(* Triggers and days pass by the stores and the run. *)
LEMMA WorldKeeps ==
  ASSUME RefreshInv, Cron \/ NextDay \/ Begin \/ (\E i \in Input : Dispatch(i)) \/ UNCHANGED vars
  PROVE  RefreshInv'
<1> USE ConstantsNat
<1>1. TypeOK'
  <2>1. CASE Cron
    BY <2>1 DEF RefreshInv, TypeOK, Cron, Queue, stores, run, history, Input
  <2>2. CASE NextDay
    <3>1. day' \in Nat
      BY <2>2 DEF RefreshInv, TypeOK, NextDay
    <3>2. cronDone' \in BOOLEAN
      BY <2>2, Zenon DEF NextDay
    <3> QED
      BY <2>2, <3>1, <3>2 DEF RefreshInv, TypeOK, NextDay, stores, run, history
  <2>3. CASE Begin
    BY <2>3 DEF RefreshInv, TypeOK, Begin, world, stores, history, Input
  <2>4. ASSUME NEW i \in Input, Dispatch(i) PROVE TypeOK'
    BY <2>4 DEF RefreshInv, TypeOK, Dispatch, Queue, stores, run, Input
  <2>5. CASE UNCHANGED vars
    BY <2>5 DEF RefreshInv, TypeOK, vars, world, stores, run, history
  <2> QED
    BY <2>1, <2>2, <2>3, <2>4, <2>5
<1>2. CASE Begin
  BY <1>1, <1>2 DEF RefreshInv, RunInv, EndInv, GreenRunTakesEffect, WindowInv, StickyInv, At,
     Signing, Begin, world, stores, history
<1>3. CASE NextDay
  BY <1>1, <1>3 DEF RefreshInv, TypeOK, RunInv, EndInv, GreenRunTakesEffect, WindowInv, StickyInv,
     At, Signing, TookEffect, NextDay, stores, run, history
<1>4. ASSUME Cron \/ (\E i \in Input : Dispatch(i)) \/ UNCHANGED vars PROVE RefreshInv'
  <2>1. UNCHANGED <<day, stores, run, result, lastGreen, warned>>
    BY <1>4 DEF Cron, Dispatch, vars, world, history
  <2> QED
    BY <1>1, <2>1 DEF RefreshInv, RunInv, EndInv, GreenRunTakesEffect, WindowInv, StickyInv,
       At, TookEffect, stores, run
<1> QED
  BY <1>2, <1>3, <1>4

(* Steps that read, sign and check: the stores stand still. *)
LEMMA QuietStepsKeep ==
  ASSUME RefreshInv,
         \/ Prepare("checkout", "resolve") \/ Prepare("auth", "build") \/ Prepare("node", "sha1")
         \/ Resolve \/ Build \/ CrossVerify \/ VerifyLive
         \/ \E at \in {"resolve", "build", "crossverify", "live"} : Fails(at)
  PROVE  RefreshInv'
<1> USE ConstantsNat
<1>1. ASSUME \/ Prepare("checkout", "resolve") \/ Prepare("auth", "build")
             \/ Prepare("node", "sha1")
      PROVE RefreshInv'
  <2>1. UNCHANGED <<world, stores, queued, input, target, explicit, built, failed, history>>
    BY <1>1 DEF Prepare
  <2>2. aborted' \in BOOLEAN
    BY <1>1, Zenon DEF RefreshInv, TypeOK, Prepare
  <2>3. pc' \in {"resolve", "build", "sha1", "report"}
    BY <1>1 DEF Prepare, Goto
  <2>4. TypeOK'
    BY <2>1, <2>2, <2>3 DEF RefreshInv, TypeOK, world, stores, history
  <2> QED
    BY <1>1, <2>1, <2>4 DEF RefreshInv, RunInv, EndInv, GreenRunTakesEffect, WindowInv,
       StickyInv, At, Signing, TookEffect, Prepare, Goto, world, stores, history
<1>2. CASE Resolve
  <2>1. TypeOK'
    BY <1>2 DEF RefreshInv, TypeOK, Resolve, Goto, world, stores, history, Input, Status
  <2> QED
    BY <1>2, <2>1 DEF RefreshInv, TypeOK, RunInv, EndInv, GreenRunTakesEffect, WindowInv,
       StickyInv, At, Signing, TookEffect, Resolve, Goto, world, stores, history
<1>3. CASE Build
  <2>1. TypeOK'
    BY <1>3 DEF RefreshInv, TypeOK, Build, Goto, world, stores, history, Response
  <2> QED
    BY <1>3, <2>1 DEF RefreshInv, TypeOK, RunInv, EndInv, GreenRunTakesEffect, WindowInv,
       StickyInv, At, Signing, TookEffect, Build, Goto, world, stores, history
<1>4. CASE CrossVerify
  <2>1. TypeOK'
    BY <1>4 DEF RefreshInv, TypeOK, CrossVerify, Goto, world, stores, history
  <2> QED
    BY <1>4, <2>1 DEF RefreshInv, RunInv, EndInv, GreenRunTakesEffect, WindowInv,
       StickyInv, At, Signing, TookEffect, CrossVerify, Goto, world, stores, history
<1>5. CASE VerifyLive
  <2>1. TypeOK'
    BY <1>5 DEF RefreshInv, TypeOK, VerifyLive, Goto, world, stores, history
  <2>2. /\ pc = "live" /\ ~failed /\ ~aborted /\ kv["sha1"] = built /\ kv["sha256"] = built
        /\ built = [status |-> target, until |-> day + Validity]
        /\ explicit = (input # "inherit")
        /\ target = IF input # "inherit" THEN input
                    ELSE IF persisted = "absent" THEN "good" ELSE persisted
        /\ pc' = IF explicit THEN "persist" ELSE "report"
        /\ UNCHANGED <<world, stores, queued, input, target, explicit, built, failed, aborted,
                       history>>
    BY <1>5 DEF RefreshInv, RunInv, At, Signing, VerifyLive, Goto
  <2>3. RunInv'
    BY <2>2 DEF RunInv, At, Signing, world, stores
  <2>4. EndInv'
    <3>1. CASE explicit
      BY <2>2, <3>1 DEF EndInv, At
    <3>2. CASE ~explicit
      <4>1. input = "inherit"
        BY <2>2, <3>2
      <4>2. built.status = (IF persisted = "absent" THEN "good" ELSE persisted)
            /\ built.until = day + Validity
        BY <2>2, <4>1
      <4>3. TookEffect
        BY <2>2, <4>1, <4>2 DEF TookEffect, Slots
      <4> QED
        BY <2>2, <4>2, <4>3 DEF EndInv, TookEffect, world, stores
    <3> QED
      BY <3>1, <3>2
  <2>5. GreenRunTakesEffect' /\ WindowInv' /\ StickyInv'
    BY <2>2 DEF RefreshInv, GreenRunTakesEffect, WindowInv, StickyInv, At, world, stores, history
  <2> QED
    BY <2>1, <2>3, <2>4, <2>5 DEF RefreshInv
<1>6. ASSUME NEW at \in {"resolve", "build", "crossverify", "live"}, Fails(at) PROVE RefreshInv'
  <2>1. TypeOK'
    BY <1>6 DEF RefreshInv, TypeOK, Fails, Goto, world, stores, history
  <2> QED
    BY <1>6, <2>1 DEF RefreshInv, RunInv, EndInv, GreenRunTakesEffect, WindowInv,
       StickyInv, At, Signing, TookEffect, Fails, Goto, world, stores, history
<1> QED
  BY <1>1, <1>2, <1>3, <1>4, <1>5, <1>6

(* One put: the response it may store has the widest window there is, and a *)
(* revocation it replaces is one that somebody still answers for.           *)
LEMMA PublishKeeps ==
  ASSUME RefreshInv, NEW s \in Slots, NEW to,
         <<s, to>> \in {<<"sha1", "sha256">>, <<"sha256", "live">>}, Publish(s, to)
  PROVE  RefreshInv' /\ (kv[s].status = "revoked" /\ kv'[s].status = "good"
                           => input = "good" \/ warned)
<1> USE ConstantsNat DEF Slots
<1>1. /\ pc = s /\ s \in Signing
      /\ built = [status |-> target, until |-> day + Validity] /\ ~failed /\ ~aborted
      /\ UNCHANGED <<world, persisted, queued, input, target, explicit, built, aborted,
                     result, lastGreen, asked>>
  BY DEF RefreshInv, RunInv, At, Signing, Publish, Goto
<1>2. \/ pc' = to /\ failed' = failed /\ Store(s)
      \/ pc' = "report" /\ failed' /\ (Store(s) \/ UNCHANGED <<kv, warned>>)
  BY Zenon DEF Publish, Goto
<1>3. built \in Response /\ day \in Nat /\ built.status = target /\ built.until = day + Validity
      /\ to \in {"sha256", "live"} /\ to # s /\ kv \in [Slots -> Response]
  BY <1>1 DEF RefreshInv, TypeOK
<1>4. kv' \in [Slots -> Response] /\ \A t \in Slots : kv'[t] = kv[t] \/ (t = s /\ kv'[t] = built)
  BY <1>2, <1>3 DEF Store
<1>5. TypeOK'
  <2>1. failed' \in BOOLEAN /\ warned' \in BOOLEAN
    BY <1>2, Zenon DEF Store, RefreshInv, TypeOK
  <2>2. pc' \in {"sha256", "live", "report"}
    BY <1>2, <1>3
  <2> QED
    BY <1>1, <1>4, <2>1, <2>2 DEF RefreshInv, TypeOK, world
<1>6. RunInv' /\ EndInv' /\ GreenRunTakesEffect'
  <2>1. CASE pc' = to /\ failed' = failed /\ Store(s)
    <3>1. kv'[s] = built /\ (s = "sha256" => kv'["sha1"] = kv["sha1"])
      BY <2>1, <1>3 DEF Store
    <3>2. s = "sha256" => kv["sha1"] = built
      BY <1>1 DEF RefreshInv, RunInv, At
    <3>3. RunInv'
      BY <1>1, <2>1, <3>1, <3>2 DEF RefreshInv, RunInv, At, Signing, world
    <3> QED
      BY <1>3, <2>1, <3>3 DEF EndInv, GreenRunTakesEffect, At
  <2>2. CASE pc' = "report" /\ failed'
    BY <2>2 DEF RunInv, EndInv, GreenRunTakesEffect, At, Signing
  <2> QED
    BY <1>2, <2>1, <2>2
<1>7. WindowInv'
  BY <1>1, <1>3, <1>4 DEF RefreshInv, TypeOK, WindowInv, world
<1>8. input = "inherit" /\ persisted = "revoked" => target = "revoked"
  BY <1>1 DEF RefreshInv, RunInv, At, Signing
<1>9. input # "inherit" => target = input
  BY <1>1 DEF RefreshInv, RunInv, At, Signing
<1>10. input = "inherit" /\ target = "revoked" => persisted = "revoked"
  BY <1>1 DEF RefreshInv, TypeOK, RunInv, At, Signing
<1>11. StickyInv'
  <2>1. CASE Store(s) /\ target = "revoked"
    <3>1. input = "revoked" \/ persisted = "revoked"
      BY <2>1, <1>9, <1>10
    <3>2. pc' \in {"sha256", "live", "report"}
      BY <1>2, <1>3
    <3> QED
      BY <1>1, <3>1, <3>2 DEF StickyInv, At
  <2>2. CASE (Store(s) /\ target # "revoked") \/ UNCHANGED <<kv, warned>>
    <3>1. warned' = warned
      BY <2>2, <1>3 DEF Store
    <3>2. \A t \in Slots : kv'[t].status = "revoked" => kv[t].status = "revoked"
      BY <2>2, <1>3, <1>4 DEF Store
    <3>3. pc' \in {"sha256", "live", "report"}
      BY <1>2, <1>3
    <3>4. (\E t \in Slots : kv[t].status = "revoked") =>
            warned \/ persisted = "revoked" \/ input = "revoked"
      BY DEF RefreshInv, StickyInv
    <3> QED
      BY <1>1, <3>1, <3>2, <3>3, <3>4 DEF StickyInv, At
  <2> QED
    BY <1>2, <2>1, <2>2
<1>12. kv[s].status = "revoked" /\ kv'[s].status = "good" => input = "good" \/ warned
  <2> SUFFICES ASSUME kv[s].status = "revoked", kv'[s].status = "good", ~warned
               PROVE  input = "good"
    OBVIOUS
  <2>1. target = "good"
    BY <1>3, <1>4
  <2>2. persisted = "revoked" \/ input = "revoked"
    BY DEF RefreshInv, StickyInv
  <2> QED
    BY <2>1, <2>2, <1>8, <1>9
<1> QED
  BY <1>5, <1>6, <1>7, <1>11, <1>12 DEF RefreshInv

LEMMA PersistKeeps ==
  ASSUME RefreshInv, PersistStatus
  PROVE  RefreshInv'
<1> USE ConstantsNat
<1>1. TypeOK'
  <2>1. /\ TypeOK /\ UNCHANGED <<day, cronDone, dispatches, kv, queued, input, target, explicit,
                                built, aborted, result, lastGreen, warned, asked>>
    BY DEF RefreshInv, PersistStatus, world, history
  <2>2. pc' = "report" /\ persisted' \in Status \cup {"absent"} /\ failed' \in BOOLEAN
    BY DEF RefreshInv, TypeOK, PersistStatus, Goto
  <2> QED
    BY <2>1, <2>2 DEF TypeOK
<1>2. RunInv' /\ EndInv' /\ GreenRunTakesEffect'
  BY DEF RefreshInv, TypeOK, RunInv, EndInv, GreenRunTakesEffect, TookEffect, At, Signing,
         PersistStatus, Goto, world, Slots, Input, Status
<1>3. WindowInv'
  BY DEF RefreshInv, TypeOK, RunInv, WindowInv, At, Signing, PersistStatus, Goto,
         world, history, Slots, Input, Status
<1>4. StickyInv'
  BY DEF RefreshInv, TypeOK, RunInv, StickyInv, At, Signing, PersistStatus, Goto,
         world, history, Slots, Input, Status
<1> QED
  BY <1>1, <1>2, <1>3, <1>4 DEF RefreshInv

(* How a run ends: a dispatched one that was not persisted ends red. *)
LEMMA EndKeeps ==
  ASSUME RefreshInv, Report \/ RunnerLost
  PROVE  RefreshInv'
<1> USE ConstantsNat
<1>1. TypeOK'
  BY DEF RefreshInv, TypeOK, Report, RunnerLost, EndRed, Goto, world, stores
<1>2. RunInv' /\ EndInv'
  BY DEF RefreshInv, RunInv, EndInv, At, Signing, Report, RunnerLost, Goto
<1>3. GreenRunTakesEffect'
  BY DEF RefreshInv, EndInv, GreenRunTakesEffect, TookEffect, At, Report, RunnerLost, EndRed,
         Goto, stores
<1>4. WindowInv'
  <2>1. CASE Report /\ lastGreen' = day /\ ~failed /\ ~aborted
    <3>1. \A s \in Slots : kv[s].until = day + Validity
      BY <2>1 DEF RefreshInv, EndInv, TookEffect, At, Report, Goto
    <3>2. kv' = kv /\ day' = day /\ day \in Nat
      BY <2>1 DEF RefreshInv, TypeOK, Report, world, stores
    <3> QED
      BY <2>1, <3>1, <3>2 DEF WindowInv
  <2>2. CASE EndRed /\ UNCHANGED <<day, kv>>
    BY <2>2 DEF RefreshInv, WindowInv, EndRed
  <2> QED
    BY <2>1, <2>2 DEF Report, RunnerLost, world, stores
<1>5. StickyInv'
  BY DEF RefreshInv, TypeOK, EndInv, StickyInv, TookEffect, At, Report, RunnerLost, EndRed, Goto,
         stores, Slots, Input, Status
<1> QED
  BY <1>1, <1>2, <1>3, <1>4, <1>5 DEF RefreshInv

-----------------------------------------------------------------------------
LEMMA RefreshStep == RefreshInv /\ [Next]_vars => RefreshInv'
<1> SUFFICES ASSUME RefreshInv, [Next]_vars PROVE RefreshInv'
  OBVIOUS
<1>1. CASE Publish("sha1", "sha256") \/ Publish("sha256", "live")
  BY <1>1, PublishKeeps DEF Slots
<1> QED
  BY <1>1, WorldKeeps, QuietStepsKeep, PersistKeeps, EndKeeps DEF Next

(* The inductive invariant: what a run has done by each of its steps, what  *)
(* is served and who answers for a revocation that is.                      *)
THEOREM RefreshInvHolds == Spec => []RefreshInv
BY RefreshInit, RefreshStep, PTL DEF Spec

(* A green run leaves both responses and the sticky key as dispatched.      *)
THEOREM GreenRunTakesEffectHolds == Spec => []GreenRunTakesEffect
<1>1. RefreshInv => GreenRunTakesEffect
  BY DEF RefreshInv
<1> QED
  BY <1>1, RefreshInvHolds, PTL

(* What is served is valid for Validity days after a green run.             *)
THEOREM FreshWhileGreenHolds == Spec => []FreshWhileGreen
<1>1. RefreshInv => FreshWhileGreen
  <2> SUFFICES ASSUME RefreshInv, lastGreen >= 0, day <= lastGreen + Validity, NEW s \in Slots
               PROVE  day <= kv[s].until
    BY DEF FreshWhileGreen
  <2>1. kv[s] \in Response /\ kv[s].until >= lastGreen + Validity
    BY DEF RefreshInv, TypeOK, WindowInv
  <2>2. kv[s].until \in Int /\ day \in Int /\ lastGreen \in Int /\ Validity \in Int
    BY <2>1, ConstantsNat DEF RefreshInv, TypeOK, Response, Unset
  <2> QED
    BY <2>1, <2>2
<1> QED
  BY <1>1, RefreshInvHolds, PTL

(* A revocation is not taken back but by a dispatch or after a red one.     *)
THEOREM NoSilentRevertHolds == Spec => NoSilentRevert
<1> DEFINE Sticks == \A s \in Slots :
             kv[s].status = "revoked" /\ kv'[s].status = "good" => input = "good" \/ warned
<1>1. RefreshInv /\ [Next]_vars => [Sticks]_vars
  <2> SUFFICES ASSUME RefreshInv, [Next]_vars PROVE Sticks \/ UNCHANGED vars
    OBVIOUS
  <2>1. CASE UNCHANGED kv
    BY <2>1
  <2>2. ASSUME NEW s \in Slots, NEW to,
               <<s, to>> \in {<<"sha1", "sha256">>, <<"sha256", "live">>}, Publish(s, to)
        PROVE  Sticks
    <3>1. \A t \in Slots \ {s} : kv'[t] = kv[t]
      BY <2>2 DEF RefreshInv, TypeOK, Publish, Store
    <3> QED
      BY <2>2, <3>1, PublishKeeps
  <2>3. CASE Publish("sha1", "sha256") \/ Publish("sha256", "live")
    BY <2>2, <2>3 DEF Slots
  <2>4. UNCHANGED kv \/ Publish("sha1", "sha256") \/ Publish("sha256", "live")
    BY DEF Next, vars, stores, Cron, NextDay, Begin, Dispatch, Prepare, Resolve, Build,
       CrossVerify, VerifyLive, PersistStatus, Fails, Report, RunnerLost
  <2> QED
    BY <2>1, <2>3, <2>4
<1> QED
  BY <1>1, RefreshInvHolds, PTL DEF Spec, NoSilentRevert
=============================================================================
