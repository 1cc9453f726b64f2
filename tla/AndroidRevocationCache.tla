------------------------ MODULE AndroidRevocationCache -----------------------
(***************************************************************************)
(* buildAndroidRevocationLoader of ca/_shared/attestation/                 *)
(* android_revocation.ts: one isolate's copy of Google's list of revoked   *)
(* attestation keys, loaded by concurrent enrollments.  A load keeps its   *)
(* own reading of the clock and of the copy across the fetch, so loads     *)
(* that overlap finish in any order and overwrite each other.              *)
(*                                                                         *)
(* The list only grows; it is abstracted to the set of serials on it, and  *)
(* listedAt records when Google put each one there.                        *)
(***************************************************************************)
EXTENDS Integers

CONSTANTS Loads,        \* calls of the loader
          Serials,      \* attestation keys Google may revoke
          RefreshAfter, UsableFor, RetryAfterFailure,
          FetchTimeout, \* longest a fetch lasts (AbortSignal.timeout)
          Horizon       \* bound: the last instant modelled

ASSUME TimesAssumption ==
  /\ {RefreshAfter, UsableFor, RetryAfterFailure, FetchTimeout, Horizon} \subseteq Nat \ {0}
  /\ RefreshAfter <= UsableFor

Never == Horizon + 1
Instant == 0 .. Horizon
NoCopy == [list |-> {}, fetchedAt |-> -1]

VARIABLES now,
          listedAt,  \* when Google listed each serial, Never if it has not
          cached,    \* the isolate's copy, NoCopy at cold start
          retryAt,   \* no refresh before this instant while a copy is usable
          pc, began, fallback, fetched,
          served,    \* what each load returned
          failedAt   \* history: starts of the loads whose fetch failed

loadVars == <<pc, began, fallback, fetched, served>>
vars == <<now, listedAt, cached, retryAt, loadVars, failedAt>>

Listed(t) == {s \in Serials : listedAt[s] <= t}

Init ==
  /\ now = 0
  /\ listedAt = [s \in Serials |-> Never]
  /\ cached = NoCopy
  /\ retryAt = 0
  /\ pc = [l \in Loads |-> "idle"]
  /\ began = [l \in Loads |-> 0]
  /\ fallback = [l \in Loads |-> NoCopy]
  /\ fetched = [l \in Loads |-> {}]
  /\ served = [l \in Loads |-> {}]
  /\ failedAt = {}

Usable(copy, t) == copy # NoCopy /\ t - copy.fetchedAt < UsableFor

(* A copy kept as long as it is usable. *)
ServedFromCopy_Unrefreshed(t) == Usable(cached, t)

(* A usable copy that is young, or that a recent failure says to keep.      *)
ServedFromCopy(t) ==
  /\ Usable(cached, t)
  /\ t - cached.fetchedAt < RefreshAfter \/ t < retryAt

Return(l, list) ==
  /\ pc' = [pc EXCEPT ![l] = "returned"]
  /\ served' = [served EXCEPT ![l] = list]

(* A call: answered from the copy, or a fetch begins.                       *)
Load(l) ==
  /\ pc[l] = "idle"
  /\ began' = [began EXCEPT ![l] = now]
  /\ \/ /\ ServedFromCopy(now)
        /\ Return(l, cached.list)
        /\ UNCHANGED fallback
     \/ /\ ~ServedFromCopy(now)
        /\ pc' = [pc EXCEPT ![l] = "request"]
        /\ fallback' = [fallback EXCEPT ![l] =
                          IF Usable(cached, now) THEN cached ELSE NoCopy]
        /\ UNCHANGED served
  /\ UNCHANGED <<now, listedAt, cached, retryAt, fetched, failedAt>>

(* Google answers with the list of this instant; the bytes are under way.   *)
ListRead(l) ==
  /\ pc[l] = "request"
  /\ pc' = [pc EXCEPT ![l] = "response"]
  /\ fetched' = [fetched EXCEPT ![l] = Listed(now)]
  /\ UNCHANGED <<now, listedAt, cached, retryAt, began, fallback, served, failedAt>>

(* The copy stamped with the time its response arrived.                     *)
FetchSucceeds_StampedLate(l) ==
  /\ pc[l] = "response"
  /\ cached' = [list |-> fetched[l], fetchedAt |-> now]
  /\ Return(l, fetched[l])
  /\ UNCHANGED <<now, listedAt, retryAt, began, fallback, fetched, failedAt>>

(* It parses: the copy is replaced, whatever a later load may have stored,  *)
(* and stamped with the instant this load began.                            *)
FetchSucceeds(l) ==
  /\ pc[l] = "response"
  /\ cached' = [list |-> fetched[l], fetchedAt |-> began[l]]
  /\ Return(l, fetched[l])
  /\ UNCHANGED <<now, listedAt, retryAt, began, fallback, fetched, failedAt>>

(* Any failure, the timeout included: the copy the load saw, or a throw.    *)
FetchFails(l) ==
  /\ pc[l] \in {"request", "response"}
  /\ retryAt' = began[l] + RetryAfterFailure
  /\ failedAt' = failedAt \cup {began[l]}
  /\ \/ fallback[l] # NoCopy /\ Return(l, fallback[l].list)
     \/ /\ fallback[l] = NoCopy
        /\ pc' = [pc EXCEPT ![l] = "threw"]
        /\ UNCHANGED served
  /\ UNCHANGED <<now, listedAt, cached, began, fallback, fetched>>

Publish(s) ==
  /\ listedAt[s] = Never
  /\ listedAt' = [listedAt EXCEPT ![s] = now]
  /\ UNCHANGED <<now, cached, retryAt, loadVars, failedAt>>

(* No fetch outlasts its timeout. *)
Tick ==
  /\ now < Horizon
  /\ \A l \in Loads : pc[l] \in {"request", "response"} => now < began[l] + FetchTimeout
  /\ now' = now + 1
  /\ UNCHANGED <<listedAt, cached, retryAt, loadVars, failedAt>>

Next ==
  \/ Tick
  \/ \E s \in Serials : Publish(s)
  \/ \E l \in Loads : Load(l) \/ ListRead(l) \/ FetchSucceeds(l) \/ FetchFails(l)

Spec == Init /\ [][Next]_vars

-----------------------------------------------------------------------------
TypeOK ==
  /\ now \in Instant
  /\ listedAt \in [Serials -> 0 .. Never]
  /\ \A s \in Serials : listedAt[s] # Never => listedAt[s] <= now
  /\ cached \in {NoCopy} \cup [list : SUBSET Serials, fetchedAt : Instant]
  /\ retryAt \in Nat
  /\ pc \in [Loads -> {"idle", "request", "response", "returned", "threw"}]
  /\ began \in [Loads -> Instant]
  /\ fallback \in [Loads -> {NoCopy} \cup [list : SUBSET Serials, fetchedAt : Instant]]
  /\ fetched \in [Loads -> SUBSET Serials]
  /\ served \in [Loads -> SUBSET Serials]
  /\ failedAt \subseteq Instant

(* The bound an enrollment relies on: a list that was served names every    *)
(* key Google had revoked UsableFor before the enrollment asked, although   *)
(* overlapping loads may overwrite a newer copy with an older one.          *)
ServedListBound ==
  \A l \in Loads :
    pc[l] = "returned" => Listed(began[l] - UsableFor) \subseteq served[l]

(* And only a failed refresh lets it be that old: otherwise it names every  *)
(* key revoked RefreshAfter ago.                                            *)
StaleOnlyAfterFailure ==
  \A l \in Loads :
    pc[l] = "returned" /\ ~(Listed(began[l] - RefreshAfter) \subseteq served[l]) =>
      \E t \in failedAt : began[l] - RetryAfterFailure < t

(* A copy misses nothing that Google listed before the instant it carries,  *)
(* and every refresh that was put off is owed to a failure.                 *)
Complete(copy) == copy # NoCopy => Listed(copy.fetchedAt - 1) \subseteq copy.list

CopyInv ==
  /\ Complete(cached)
  /\ \A l \in Loads :
       /\ Complete(fallback[l])
       /\ fallback[l] # NoCopy =>
            Usable(fallback[l], began[l]) /\ fallback[l].fetchedAt <= began[l]
       /\ pc[l] = "response" => Listed(began[l] - 1) \subseteq fetched[l]
       /\ began[l] <= now
       /\ pc[l] = "idle" => fallback[l] = NoCopy
  /\ cached # NoCopy => cached.fetchedAt <= now
  /\ retryAt > 0 => retryAt - RetryAfterFailure \in failedAt
=============================================================================
