------------------------------ MODULE LeafOcsp ------------------------------
(***************************************************************************)
(* The live OCSP responder for leaf certificates (ocsp-leaf/): requests    *)
(* that overlap, each a ledger lookup and a KMS signature apart from its   *)
(* answer, and the LRU cache of signed replies they share, against keys    *)
(* that are enrolled, revoked and deleted meanwhile.                       *)
(*                                                                         *)
(* A request names one CertID under the issuing CA, so here one key; the   *)
(* forms refused before the cache is asked (malformed, several CertIDs,    *)
(* another issuer, no relay secret) touch no state and are left out.       *)
(* Neither the query nor the signature has a timeout in the code:          *)
(* LedgerDelay and SignDelay are what the environment is assumed to keep.  *)
(***************************************************************************)
EXTENDS SigningLedger, Integers, Sequences

CONSTANTS Requests,
          Validity,    \* OCSP_LEAF_VALIDITY_HOURS
          MaxEntries,  \* entries the cache holds
          LedgerDelay, \* from a request to the ledger's reply, at most
          SignDelay,   \* from there to the signature, at most
          Horizon      \* bound: the last instant modelled

ASSUME TimesAssumption ==
  /\ {Validity, MaxEntries, Horizon} \subseteq Nat \ {0}
  /\ {LedgerDelay, SignDelay} \subseteq Nat

Never == Horizon + 1

VARIABLES now,
          when,    \* the revoked_at of each ledger row, Never if null
          cache,   \* signed reply of each key, NoEntry if none
          order,   \* keys of the cache's Map in its order, oldest use first
          pc, key, began, status, nextUpdate

respondVars == <<pc, key, began, status, nextUpdate>>
cacheVars == <<cache, order>>
vars == <<ledgerVars, now, when, cacheVars, respondVars>>

NoEntry == [status |-> "none", nextUpdate |-> 0, expiresAt |-> 0]

Init ==
  /\ LedgerInit
  /\ now = 0
  /\ when = [k \in Keys |-> Never]
  /\ cache = [k \in Keys |-> NoEntry]
  /\ order = <<>>
  /\ pc = [r \in Requests |-> "idle"]
  /\ key \in [Requests -> Keys]
  /\ began = [r \in Requests |-> 0]
  /\ status = [r \in Requests |-> "none"]
  /\ nextUpdate = [r \in Requests |-> 0]

-----------------------------------------------------------------------------
(* The cache.                                                               *)
Without(s, k) == SelectSeq(s, LAMBDA j : j # k)

Fresh(k) == cache[k] # NoEntry /\ now < cache[k].expiresAt

(* A get that renews the entry it moves. *)
CacheHit_Renews(k) ==
  /\ Fresh(k)
  /\ order' = Append(Without(order, k), k)
  /\ cache' = [cache EXCEPT ![k].expiresAt = now + Validity]

(* get: a live entry moves to the recent end; an expired one is dropped.    *)
CacheHit(k) ==
  /\ Fresh(k)
  /\ order' = Append(Without(order, k), k)
  /\ UNCHANGED cache

CacheMiss(k) ==
  /\ ~Fresh(k)
  /\ order' = Without(order, k)
  /\ cache' = [cache EXCEPT ![k] = NoEntry]

(* A full cache gives up its oldest entry, even to store a key it holds.    *)
Evicted == IF Len(order) >= MaxEntries THEN {Head(order)} ELSE {}

(* set: a key the Map still holds keeps its place.                          *)
CacheSet(k, entry) ==
  LET kept == SelectSeq(order, LAMBDA j : j \notin Evicted)
  IN  /\ order' = IF \E i \in DOMAIN kept : kept[i] = k THEN kept ELSE Append(kept, k)
      /\ cache' = [j \in Keys |-> IF j = k THEN entry
                                  ELSE IF j \in Evicted THEN NoEntry ELSE cache[j]]

-----------------------------------------------------------------------------
(* The steps of respond, one for each await.                                *)
Ask(r) ==
  /\ pc[r] = "idle"
  /\ began' = [began EXCEPT ![r] = now]
  /\ \/ /\ CacheHit(key[r])
        /\ pc' = [pc EXCEPT ![r] = "answered"]
        /\ status' = [status EXCEPT ![r] = cache[key[r]].status]
        /\ nextUpdate' = [nextUpdate EXCEPT ![r] = cache[key[r]].nextUpdate]
     \/ /\ CacheMiss(key[r])
        /\ pc' = [pc EXCEPT ![r] = "lookup"]
        /\ UNCHANGED <<status, nextUpdate>>
  /\ UNCHANGED <<ledgerVars, now, when, key>>

(* The query reads its snapshot; its reply is under way. *)
Lookup(r) ==
  /\ pc[r] = "lookup"
  /\ pc' = [pc EXCEPT ![r] = "reply"]
  /\ status' = [status EXCEPT ![r] =
       CASE LookupRow(key[r]) = "none" -> "unauthorized"
         [] LookupRow(key[r]) = "live" -> "good"
         [] LookupRow(key[r]) = "revoked" -> "revoked"]
  /\ UNCHANGED <<ledgerVars, now, when, cacheVars, key, began, nextUpdate>>

(* The reply arrives: no row is answered unsigned, anything else is stamped *)
(* thisUpdate = now and sent to be signed.                                  *)
Stamp(r) ==
  /\ pc[r] = "reply"
  /\ \/ /\ status[r] = "unauthorized"
        /\ pc' = [pc EXCEPT ![r] = "answered"]
        /\ UNCHANGED nextUpdate
     \/ /\ status[r] # "unauthorized"
        /\ pc' = [pc EXCEPT ![r] = "sign"]
        /\ nextUpdate' = [nextUpdate EXCEPT ![r] = now + Validity]
  /\ UNCHANGED <<ledgerVars, now, when, cacheVars, key, began, status>>

(* The validity window taken when the signature is back. *)
Sign_StampsLate(r) ==
  /\ pc[r] = "sign"
  /\ pc' = [pc EXCEPT ![r] = "answered"]
  /\ nextUpdate' = [nextUpdate EXCEPT ![r] = now + Validity]
  /\ CacheSet(key[r], [status |-> status[r], nextUpdate |-> now + Validity,
                       expiresAt |-> now + Validity])
  /\ UNCHANGED <<ledgerVars, now, when, key, began, status>>

(* The signature is back: the reply is cached, whatever another request has *)
(* cached since, for Validity from now.                                     *)
Sign(r) ==
  /\ pc[r] = "sign"
  /\ pc' = [pc EXCEPT ![r] = "answered"]
  /\ CacheSet(key[r], [status |-> status[r], nextUpdate |-> nextUpdate[r],
                       expiresAt |-> now + Validity])
  /\ UNCHANGED <<ledgerVars, now, when, key, began, status, nextUpdate>>

(* The ledger or KMS fails: internalError, nothing cached. *)
Fails(r) ==
  /\ pc[r] \in {"lookup", "reply", "sign"}
  /\ pc' = [pc EXCEPT ![r] = "internalError"]
  /\ UNCHANGED <<ledgerVars, now, when, cacheVars, key, began, status, nextUpdate>>

Enroll(k) ==
  /\ EnrollKey(k)
  /\ UNCHANGED <<now, when, cacheVars, respondVars>>

Revoke(k) ==
  /\ RevokeKey(k)
  /\ when' = [when EXCEPT ![k] = now]
  /\ UNCHANGED <<now, cacheVars, respondVars>>

Delete(u) ==
  /\ DeleteAccount(u)
  /\ UNCHANGED <<now, when, cacheVars, respondVars>>

Tick ==
  /\ now < Horizon
  /\ \A r \in Requests :
       /\ pc[r] \in {"lookup", "reply"} => now < began[r] + LedgerDelay
       /\ pc[r] = "sign" => now < nextUpdate[r] - Validity + SignDelay
  /\ now' = now + 1
  /\ UNCHANGED <<ledgerVars, when, cacheVars, respondVars>>

Next ==
  \/ Tick
  \/ \E k \in Keys : Enroll(k) \/ Revoke(k)
  \/ \E u \in Users : Delete(u)
  \/ \E r \in Requests : Ask(r) \/ Lookup(r) \/ Stamp(r) \/ Sign(r) \/ Fails(r)

Spec == Init /\ [][Next]_vars

-----------------------------------------------------------------------------
Signed == {"good", "revoked"}
Answers == Signed \cup {"unauthorized"}

ReplyTypeOK ==
  /\ now \in 0 .. Horizon
  /\ revoked \subseteq Keys
  /\ when \in [Keys -> 0 .. Never]
  /\ cache \in [Keys -> [status : Signed \cup {"none"}, nextUpdate : Nat, expiresAt : Nat]]
  /\ pc \in [Requests -> {"idle", "lookup", "reply", "sign", "answered", "internalError"}]
  /\ key \in [Requests -> Keys]
  /\ began \in [Requests -> 0 .. Horizon]
  /\ status \in [Requests -> Answers \cup {"none"}]
  /\ nextUpdate \in [Requests -> Nat]

Answered(r, s) == pc[r] = "answered" /\ status[r] = s

(* The revocation clock of the policy: no signed good, however long its     *)
(* signature took, is valid past its key's revocation by more than Validity *)
(* and the ledger's delay.                                                  *)
GoodExpiresAfterRevocation ==
  \A r \in Requests :
    Answered(r, "good") => nextUpdate[r] <= when[key[r]] + LedgerDelay + Validity

(* What a caller sees: nobody who asks later than that, and the delay of a  *)
(* signature, is told good, although a slow request may put its good back   *)
(* over the revoked another request has cached.                             *)
RevocationReachesAnswers ==
  \A r \in Requests :
    Answered(r, "good") => began[r] < when[key[r]] + LedgerDelay + SignDelay + Validity

(* Deleting the account of a revoked key does not turn its answer into that *)
(* of a serial that was never issued.                                       *)
RevokedIsAnswered ==
  \A r \in Requests : Answered(r, "unauthorized") => began[r] <= when[key[r]]

(* The two clocks as an induction sees them: what the ledger stamped, what  *)
(* the cache holds and what each request carries are all within reach of    *)
(* the present, and a good is within reach of the revocation it missed.     *)
StampInv ==
  \A k \in Keys : IF k \in revoked THEN when[k] <= now ELSE when[k] = Never

CacheInv ==
  \A k \in Keys :
    /\ cache[k].expiresAt <= now + Validity /\ cache[k].nextUpdate <= now + Validity
    /\ cache[k].status = "good" =>
         /\ cache[k].expiresAt <= when[k] + LedgerDelay + SignDelay + Validity
         /\ cache[k].nextUpdate <= when[k] + LedgerDelay + Validity

RequestInv ==
  \A r \in Requests :
    /\ began[r] <= now /\ nextUpdate[r] <= now + Validity
    /\ pc[r] \in {"lookup", "reply"} => now <= began[r] + LedgerDelay
    /\ pc[r] = "sign" => /\ status[r] \in Signed
                         /\ now <= nextUpdate[r] - Validity + SignDelay
                         /\ nextUpdate[r] <= began[r] + LedgerDelay + Validity
    /\ pc[r] = "reply" => status[r] \in Answers
    /\ pc[r] \in {"reply", "sign"} /\ status[r] # "revoked" => began[r] <= when[key[r]]

LeafInv ==
  /\ ReplyTypeOK /\ StampInv /\ CacheInv /\ RequestInv
  /\ GoodExpiresAfterRevocation /\ RevocationReachesAnswers /\ RevokedIsAnswered
=============================================================================
