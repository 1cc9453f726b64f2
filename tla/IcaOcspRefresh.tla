--------------------------- MODULE IcaOcspRefresh ---------------------------
(***************************************************************************)
(* The job that signs and publishes the OCSP responses of the issuing CA   *)
(* (.github/workflows/refresh-ocsp.yml and the commands its steps run),    *)
(* with the two stores it writes: the served responses, one for each       *)
(* CertID hash, and the sticky status that the daily run signs again.      *)
(*                                                                         *)
(* A step fails, a write fails after it was applied, a runner is lost, the *)
(* schedule skips a day: each is a choice here.  A response is its status  *)
(* and the last day it is valid; the day is the unit of time and a run     *)
(* ends on the day it began.                                               *)
(***************************************************************************)
EXTENDS Integers

CONSTANTS Validity,      \* OCSP_VALIDITY_DAYS
          Outages,       \* whether runners are lost
          MaxDispatches, \* bound: manual dispatches
          Horizon        \* bound: days

ASSUME RefreshAssumption ==
  /\ {Validity, MaxDispatches, Horizon} \subseteq Nat \ {0}
  /\ Outages \in BOOLEAN

Slots == {"sha1", "sha256"}
Status == {"good", "revoked"}
Input == Status \cup {"inherit"}
Unset == [status |-> "none", until |-> -1]

VARIABLES day, cronDone, dispatches,
          kv,         \* the response:sha1 and response:sha256 keys
          persisted,  \* the ica-status key, "absent" before its first write
          queued,     \* the run the concurrency group holds back
          pc, input, target, explicit, built,
          failed,     \* a step the alarm looks at has failed
          aborted     \* another step has: the job stops, the alarm runs

(* History: how the last run ended, the day of the last green one, whether  *)
(* a dispatched run ended red since revoked was last published, and the     *)
(* last status dispatched that no red run has followed.                     *)
VARIABLES result, lastGreen, warned, asked

world == <<day, cronDone, dispatches>>
stores == <<kv, persisted>>
run == <<pc, input, target, explicit, built, failed, aborted>>
history == <<result, lastGreen, warned, asked>>
vars == <<world, stores, queued, run, history>>

Init ==
  /\ day = 0 /\ cronDone = FALSE /\ dispatches = 0
  /\ kv = [s \in Slots |-> Unset]
  /\ persisted = "absent"
  /\ queued = "none"
  /\ pc = "idle" /\ input = "inherit" /\ target = "good" /\ explicit = FALSE
  /\ built = Unset /\ failed = FALSE /\ aborted = FALSE
  /\ result = "none" /\ lastGreen = -1
  /\ warned = FALSE /\ asked = "none"

-----------------------------------------------------------------------------
(* Triggers.  The concurrency group runs one at a time and keeps one: a     *)
(* newer trigger takes the place of the one that waits.                     *)
Queue(i) ==
  /\ pc # "idle" \/ queued = "none"
  /\ queued' = i

Cron ==
  /\ ~cronDone
  /\ cronDone' = TRUE
  /\ Queue("inherit")
  /\ UNCHANGED <<day, dispatches, stores, run, history>>

Dispatch(i) ==
  /\ dispatches < MaxDispatches
  /\ dispatches' = dispatches + 1
  /\ Queue(i)
  /\ asked' = IF i = "inherit" THEN asked ELSE i
  /\ UNCHANGED <<day, cronDone, stores, run, result, lastGreen, warned>>

NextDay ==
  /\ pc = "idle" /\ queued = "none" /\ day < Horizon
  /\ day' = day + 1
  /\ cronDone' = FALSE
  /\ UNCHANGED <<dispatches, stores, queued, run, history>>

Begin ==
  /\ pc = "idle" /\ queued # "none"
  /\ pc' = "checkout"
  /\ input' = queued
  /\ queued' = "none"
  /\ failed' = FALSE /\ aborted' = FALSE
  /\ UNCHANGED <<world, stores, target, explicit, built, history>>

-----------------------------------------------------------------------------
(* The steps, in their order.                                               *)
Goto(at, to) == pc = at /\ pc' = to

(* A step without continue-on-error that the alarm does not look at.        *)
Prepare(at, to) ==
  /\ \/ Goto(at, to) /\ UNCHANGED aborted
     \/ Goto(at, "report") /\ aborted' = TRUE
  /\ UNCHANGED <<world, stores, queued, input, target, explicit, built, failed, history>>

(* A step the alarm looks at, failing with nothing else done.               *)
Fails(at) ==
  /\ Goto(at, "report")
  /\ failed' = TRUE
  /\ UNCHANGED <<world, stores, queued, input, target, explicit, built, aborted, history>>

(* A failed read of the sticky status taken for one that was never written. *)
Resolve_FlakyIsGood ==
  /\ Goto("resolve", "auth")
  /\ explicit' = (input # "inherit")
  /\ target' \in IF input # "inherit" THEN {input}
                 ELSE {"good"} \cup ({persisted} \ {"absent"})
  /\ UNCHANGED <<world, stores, queued, input, built, failed, aborted, history>>

(* Dispatch input, then the persisted status, then good. *)
Resolve ==
  /\ Goto("resolve", "auth")
  /\ explicit' = (input # "inherit")
  /\ target' = IF input # "inherit" THEN input
               ELSE IF persisted = "absent" THEN "good" ELSE persisted
  /\ UNCHANGED <<world, stores, queued, input, built, failed, aborted, history>>

(* A build that keeps a window which is still open. *)
Build_KeepsWindow ==
  /\ Goto("build", "crossverify")
  /\ built' = IF kv["sha1"].status = target /\ day < kv["sha1"].until
              THEN kv["sha1"] ELSE [status |-> target, until |-> day + Validity]
  /\ UNCHANGED <<world, stores, queued, input, target, explicit, failed, aborted, history>>

(* Both responses are signed, verified against the status asked for and     *)
(* kept; neither is if one does not verify.                                 *)
Build ==
  /\ Goto("build", "crossverify")
  /\ built' = [status |-> target, until |-> day + Validity]
  /\ UNCHANGED <<world, stores, queued, input, target, explicit, failed, aborted, history>>

CrossVerify ==
  /\ Goto("crossverify", "node")
  /\ UNCHANGED <<world, stores, queued, input, target, explicit, built, failed, aborted, history>>

Store(s) ==
  /\ kv' = [kv EXCEPT ![s] = built]
  /\ warned' = IF built.status = "revoked" THEN FALSE ELSE warned

(* Puts whose failure the shell ignores. *)
Publish_FailureIgnored(s, to) ==
  /\ Goto(s, to)
  /\ Store(s) \/ UNCHANGED <<kv, warned>>
  /\ UNCHANGED <<world, persisted, queued, input, target, explicit, built, failed, aborted,
                 result, lastGreen, asked>>

(* One wrangler put.  The shell stops at the first that fails (pipefail),   *)
(* which the store may have applied all the same.                           *)
Publish(s, to) ==
  /\ \/ Goto(s, to) /\ Store(s) /\ UNCHANGED failed
     \/ Goto(s, "report") /\ failed' = TRUE /\ (Store(s) \/ UNCHANGED <<kv, warned>>)
  /\ UNCHANGED <<world, persisted, queued, input, target, explicit, built, aborted,
                 result, lastGreen, asked>>

(* The endpoint serves the bytes just built, under the SHA-1 CertID. *)
VerifyLive ==
  /\ kv["sha1"] = built
  /\ Goto("live", IF explicit THEN "persist" ELSE "report")
  /\ UNCHANGED <<world, stores, queued, input, target, explicit, built, failed, aborted, history>>

PersistStatus ==
  /\ Goto("persist", "report")
  /\ \/ persisted' = target /\ failed' \in BOOLEAN
     \/ UNCHANGED persisted /\ failed' = TRUE
  /\ UNCHANGED <<world, kv, queued, input, target, explicit, built, aborted, history>>

EndRed ==
  /\ result' = "red"
  /\ warned' = (warned \/ input # "inherit")
  /\ asked' = "none"
  /\ UNCHANGED lastGreen

(* The alarm steps run always, on a failure of the steps they name.         *)
Report ==
  /\ Goto("report", "idle")
  /\ \/ (failed \/ aborted) /\ EndRed
     \/ /\ ~failed /\ ~aborted
        /\ result' = "green"
        /\ lastGreen' = day
        /\ UNCHANGED <<warned, asked>>
  /\ UNCHANGED <<world, stores, queued, input, target, explicit, built, failed, aborted>>

(* The runner is lost, or the job is stopped at its time limit. *)
RunnerLost ==
  /\ Outages /\ pc # "idle"
  /\ pc' = "idle"
  /\ EndRed
  /\ UNCHANGED <<world, stores, queued, input, target, explicit, built, failed, aborted>>

Next ==
  \/ Cron \/ NextDay \/ Begin
  \/ \E i \in Input : Dispatch(i)
  \/ Prepare("checkout", "resolve") \/ Prepare("auth", "build") \/ Prepare("node", "sha1")
  \/ Resolve \/ Build \/ CrossVerify \/ VerifyLive \/ PersistStatus
  \/ \E at \in {"resolve", "build", "crossverify", "live"} : Fails(at)
  \/ Publish("sha1", "sha256") \/ Publish("sha256", "live")
  \/ Report \/ RunnerLost

Spec == Init /\ [][Next]_vars

-----------------------------------------------------------------------------
Response == [status : Status, until : Nat] \cup {Unset}

TypeOK ==
  /\ day \in Nat /\ cronDone \in BOOLEAN /\ dispatches \in Nat
  /\ kv \in [Slots -> Response]
  /\ persisted \in Status \cup {"absent"}
  /\ queued \in Input \cup {"none"}
  /\ pc \in {"idle", "checkout", "resolve", "auth", "build", "crossverify", "node",
             "sha1", "sha256", "live", "persist", "report"}
  /\ input \in Input /\ target \in Status /\ explicit \in BOOLEAN
  /\ built \in Response /\ failed \in BOOLEAN /\ aborted \in BOOLEAN
  /\ result \in {"none", "green", "red"}
  /\ lastGreen \in Nat \cup {-1}
  /\ warned \in BOOLEAN /\ asked \in Status \cup {"none"}

TookEffect ==
  /\ \A s \in Slots : kv[s] = built
  /\ built.status = IF persisted = "absent" THEN "good" ELSE persisted
  /\ input # "inherit" => persisted = input

(* What green means: both CertIDs are answered with the same response, of   *)
(* the status the sticky key holds, which an explicit dispatch has set.     *)
(* The live check alone covers one of the two.                              *)
GreenRunTakesEffect == pc = "idle" /\ result = "green" => TookEffect

(* The sticky status: a published revocation goes back to good only by an   *)
(* explicit dispatch, or after a dispatched run that ended red: a failure   *)
(* of any step of a scheduled run does not bring it about.                  *)
NoSilentRevert ==
  [][\A s \in Slots :
       kv[s].status = "revoked" /\ kv'[s].status = "good" => input = "good" \/ warned]_vars

(* What is served is valid for Validity days after a green run, however     *)
(* many runs fail or are missed meanwhile and wherever they fail.           *)
FreshWhileGreen ==
  lastGreen >= 0 /\ day <= lastGreen + Validity => \A s \in Slots : day <= kv[s].until

(* The same, inductively: what a run under way has done up to each step...  *)
At(steps) == pc \in steps
Signing == {"crossverify", "node", "sha1", "sha256", "live", "persist"}

RunInv ==
  /\ At(Signing \cup {"auth", "build"}) =>
       /\ ~failed /\ ~aborted
       /\ explicit = (input # "inherit")
       /\ target = IF input # "inherit" THEN input
                   ELSE IF persisted = "absent" THEN "good" ELSE persisted
  /\ At({"checkout", "resolve"}) => ~failed /\ ~aborted
  /\ At(Signing) => built = [status |-> target, until |-> day + Validity]
  /\ At({"sha256", "live", "persist"}) => kv["sha1"] = built
  /\ At({"live", "persist"}) => kv["sha256"] = built
  /\ At({"persist"}) => input # "inherit"

EndInv ==
  At({"report"}) /\ ~failed /\ ~aborted => TookEffect /\ built.until = day + Validity

(* ... how far the windows of what is served reach...                       *)
WindowInv ==
  /\ lastGreen <= day
  /\ lastGreen >= 0 => \A s \in Slots : kv[s].until >= lastGreen + Validity

(* ... and who still answers for a revocation that is served.               *)
StickyInv ==
  (\E s \in Slots : kv[s].status = "revoked") =>
    \/ warned
    \/ persisted = "revoked"
    \/ At({"sha256", "live", "persist", "report"}) /\ input = "revoked"

RefreshInv ==
  TypeOK /\ RunInv /\ EndInv /\ GreenRunTakesEffect /\ WindowInv /\ StickyInv

(* "An ICA compromise is one dispatch with status=revoked" (refresh-ocsp.yml). *)
OneDispatchRevokes ==
  pc = "idle" /\ queued = "none" /\ asked = "revoked" =>
    \A s \in Slots : kv[s].status = "revoked"
=============================================================================
