--------------------------- MODULE LeafOcspProofs ---------------------------
(***************************************************************************)
(* Machine-checked proofs about the live OCSP responder, for any overlap   *)
(* of its requests and any validity, cache size and delays.                *)
(***************************************************************************)
EXTENDS LeafOcsp, TLAPS

LEMMA TimesNat ==
  /\ Validity \in Nat \ {0} /\ Horizon \in Nat \ {0}
  /\ LedgerDelay \in Nat /\ SignDelay \in Nat
BY TimesAssumption

(* Before anything is asked, every clock is at the start. *)
LEMMA LeafInit == Init => LeafInv
<1> SUFFICES ASSUME Init PROVE LeafInv
  OBVIOUS
<1> USE TimesNat DEF Never
<1>1. ReplyTypeOK
  BY DEF Init, LedgerInit, ReplyTypeOK, NoEntry, Signed, Answers
<1>2. StampInv /\ CacheInv /\ RequestInv
  BY <1>1 DEF Init, LedgerInit, StampInv, CacheInv, RequestInv, NoEntry, ReplyTypeOK
<1>3. GoodExpiresAfterRevocation /\ RevocationReachesAnswers /\ RevokedIsAnswered
  BY DEF Init, GoodExpiresAfterRevocation, RevocationReachesAnswers, RevokedIsAnswered, Answered
<1> QED
  BY <1>1, <1>2, <1>3 DEF LeafInv

-----------------------------------------------------------------------------
(* Steps of the world: the clock and the ledger.                            *)
LEMMA TickKeeps ==
  ASSUME LeafInv, Tick
  PROVE  LeafInv'
<1> USE TimesNat DEF Never
<1>1. ReplyTypeOK'
  BY DEF LeafInv, Tick, ReplyTypeOK, ledgerVars, cacheVars, respondVars
<1>2. StampInv' /\ CacheInv'
  BY DEF LeafInv, Tick, ReplyTypeOK, StampInv, CacheInv, ledgerVars, cacheVars, respondVars
<1>3. RequestInv'
  BY DEF LeafInv, Tick, ReplyTypeOK, RequestInv, ledgerVars, cacheVars, respondVars
<1>4. (GoodExpiresAfterRevocation /\ RevocationReachesAnswers /\ RevokedIsAnswered)'
  BY DEF LeafInv, Tick, GoodExpiresAfterRevocation, RevocationReachesAnswers, RevokedIsAnswered,
         Answered, respondVars
<1> QED
  BY <1>1, <1>2, <1>3, <1>4 DEF LeafInv

(* A revocation is stamped with the present, which every clock is within    *)
(* reach of already.                                                        *)
LEMMA RevokeKeeps ==
  ASSUME LeafInv, NEW k \in Keys, Revoke(k)
  PROVE  LeafInv'
<1> USE TimesNat DEF Never
<1>1. ReplyTypeOK'
  BY DEF LeafInv, Revoke, RevokeKey, ReplyTypeOK, cacheVars, respondVars
<1>2. StampInv'
  BY DEF LeafInv, Revoke, RevokeKey, ReplyTypeOK, StampInv
<1>3. when[k] = Never /\ when' = [when EXCEPT ![k] = now] /\ now \in 0 .. Horizon
  BY DEF LeafInv, Revoke, RevokeKey, StampInv, ReplyTypeOK
<1>4. CacheInv'
  BY <1>3 DEF LeafInv, Revoke, ReplyTypeOK, CacheInv, cacheVars
<1>5. RequestInv'
  BY <1>3 DEF LeafInv, Revoke, ReplyTypeOK, RequestInv, respondVars, Signed, Answers
<1>6. GoodExpiresAfterRevocation'
  BY <1>3 DEF LeafInv, Revoke, ReplyTypeOK, RequestInv, GoodExpiresAfterRevocation, Answered,
         respondVars
<1>7. RevocationReachesAnswers'
  BY <1>3 DEF LeafInv, Revoke, ReplyTypeOK, RequestInv, RevocationReachesAnswers, Answered,
         respondVars
<1>8. RevokedIsAnswered'
  BY <1>3 DEF LeafInv, Revoke, ReplyTypeOK, RequestInv, RevokedIsAnswered, Answered, respondVars
<1> QED
  BY <1>1, <1>2, <1>4, <1>5, <1>6, <1>7, <1>8 DEF LeafInv

(* A step that moves neither the clock, nor a stamp, nor the responder.     *)
LEMMA StillKeeps ==
  ASSUME LeafInv, UNCHANGED <<revoked, now, when, cache, respondVars>>
  PROVE  LeafInv'
BY DEF LeafInv, ReplyTypeOK, StampInv, CacheInv, RequestInv, GoodExpiresAfterRevocation,
       RevocationReachesAnswers, RevokedIsAnswered, Answered, respondVars, Never

-----------------------------------------------------------------------------
(* Steps of a request.                                                      *)
LEMMA AskKeeps ==
  ASSUME LeafInv, NEW r \in Requests, Ask(r)
  PROVE  LeafInv'
<1> USE TimesNat DEF Never
<1> DEFINE k == key[r]
<1>1. /\ k \in Keys /\ pc[r] = "idle" /\ now \in 0 .. Horizon
      /\ began' = [began EXCEPT ![r] = now]
      /\ UNCHANGED <<revoked, now, when, key>>
  BY DEF LeafInv, Ask, ReplyTypeOK, ledgerVars
<1>2. CASE CacheHit(k) /\ pc' = [pc EXCEPT ![r] = "answered"]
  <2>1. /\ Fresh(k) /\ cache' = cache
        /\ status' = [status EXCEPT ![r] = cache[k].status]
        /\ nextUpdate' = [nextUpdate EXCEPT ![r] = cache[k].nextUpdate]
    BY <1>2, <1>1 DEF Ask, CacheHit, LeafInv, ReplyTypeOK
  <2>2. cache[k] \in [status : Signed \cup {"none"}, nextUpdate : Nat, expiresAt : Nat]
    BY <1>1 DEF LeafInv, ReplyTypeOK
  <2>3. ReplyTypeOK'
    BY <1>1, <1>2, <2>1, <2>2 DEF LeafInv, ReplyTypeOK, Answers, Signed
  <2>4. StampInv' /\ CacheInv'
    BY <1>1, <2>1 DEF LeafInv, StampInv, CacheInv
  <2>5. cache[k].nextUpdate <= now + Validity /\ now < cache[k].expiresAt
    BY <1>1, <2>1 DEF LeafInv, CacheInv, Fresh
  <2>6. RequestInv'
    BY <1>1, <1>2, <2>1, <2>2, <2>5 DEF LeafInv, ReplyTypeOK, RequestInv
  <2>7. cache[k].status = "good" =>
          /\ cache[k].expiresAt <= when[k] + LedgerDelay + SignDelay + Validity
          /\ cache[k].nextUpdate <= when[k] + LedgerDelay + Validity
    BY <1>1 DEF LeafInv, CacheInv
  <2>8. GoodExpiresAfterRevocation'
    BY <1>1, <1>2, <2>1, <2>7 DEF LeafInv, ReplyTypeOK, GoodExpiresAfterRevocation, Answered
  <2>9. when[k] \in Nat /\ cache[k].expiresAt \in Nat
    BY <1>1, <2>2 DEF LeafInv, ReplyTypeOK
  <2>10. RevocationReachesAnswers'
    BY <1>1, <1>2, <2>1, <2>5, <2>7, <2>9
       DEF LeafInv, ReplyTypeOK, RevocationReachesAnswers, Answered
  <2>11. RevokedIsAnswered'
    BY <1>1, <1>2, <2>1, <2>2 DEF LeafInv, ReplyTypeOK, RevokedIsAnswered, Answered, Signed
  <2> QED
    BY <2>3, <2>4, <2>6, <2>8, <2>10, <2>11 DEF LeafInv
<1>3. CASE CacheMiss(k) /\ pc' = [pc EXCEPT ![r] = "lookup"]
  <2>1. /\ cache' = [cache EXCEPT ![k] = NoEntry]
        /\ UNCHANGED <<status, nextUpdate>>
    BY <1>3, <1>1 DEF Ask, CacheMiss, LeafInv, ReplyTypeOK
  <2>2. ReplyTypeOK'
    BY <1>1, <1>3, <2>1 DEF LeafInv, ReplyTypeOK, NoEntry, Signed
  <2>3. StampInv'
    BY <1>1 DEF LeafInv, StampInv
  <2>4. CacheInv'
    BY <1>1, <2>1 DEF LeafInv, ReplyTypeOK, CacheInv, NoEntry
  <2>5. RequestInv'
    BY <1>1, <1>3, <2>1 DEF LeafInv, ReplyTypeOK, RequestInv
  <2>6. (GoodExpiresAfterRevocation /\ RevocationReachesAnswers /\ RevokedIsAnswered)'
    BY <1>1, <1>3, <2>1 DEF LeafInv, ReplyTypeOK, GoodExpiresAfterRevocation,
       RevocationReachesAnswers, RevokedIsAnswered, Answered
  <2> QED
    BY <2>2, <2>3, <2>4, <2>5, <2>6 DEF LeafInv
<1> QED
  BY <1>2, <1>3 DEF Ask

(* The snapshot: a key that reads as anything but revoked has no stamp yet. *)
LEMMA LookupKeeps ==
  ASSUME LeafInv, NEW r \in Requests, Lookup(r)
  PROVE  LeafInv'
<1> USE TimesNat DEF Never
<1>1. /\ key[r] \in Keys /\ pc[r] = "lookup"
      /\ pc' = [pc EXCEPT ![r] = "reply"]
      /\ UNCHANGED <<revoked, now, when, cache, key, began, nextUpdate>>
  BY DEF LeafInv, Lookup, ReplyTypeOK, ledgerVars, cacheVars
<1>2. PICK s \in Answers : /\ status' = [status EXCEPT ![r] = s]
                           /\ s # "revoked" => key[r] \notin revoked
  BY DEF Lookup, LookupRow, Answers, Signed
<1>3. ReplyTypeOK'
  BY <1>1, <1>2 DEF LeafInv, ReplyTypeOK
<1>4. StampInv' /\ CacheInv'
  BY <1>1 DEF LeafInv, StampInv, CacheInv
<1>5. s # "revoked" => began[r] <= when[key[r]]
  BY <1>1, <1>2 DEF LeafInv, ReplyTypeOK, StampInv
<1>6. RequestInv'
  BY <1>1, <1>2, <1>5 DEF LeafInv, ReplyTypeOK, RequestInv
<1>7. (GoodExpiresAfterRevocation /\ RevocationReachesAnswers /\ RevokedIsAnswered)'
  BY <1>1, <1>2 DEF LeafInv, ReplyTypeOK, GoodExpiresAfterRevocation,
     RevocationReachesAnswers, RevokedIsAnswered, Answered
<1> QED
  BY <1>3, <1>4, <1>6, <1>7 DEF LeafInv

LEMMA StampKeeps ==
  ASSUME LeafInv, NEW r \in Requests, Stamp(r)
  PROVE  LeafInv'
<1> USE TimesNat DEF Never
<1>1. /\ pc[r] = "reply" /\ now \in 0 .. Horizon
      /\ UNCHANGED <<revoked, now, when, cache, key, began, status>>
      /\ now <= began[r] + LedgerDelay /\ status[r] \in Answers
      /\ began[r] \in Nat /\ when[key[r]] \in Nat
      /\ status[r] # "revoked" => began[r] <= when[key[r]]
  BY DEF LeafInv, Stamp, ReplyTypeOK, RequestInv, ledgerVars, cacheVars
<1>2. StampInv' /\ CacheInv'
  BY <1>1 DEF LeafInv, StampInv, CacheInv
<1>3. CASE status[r] = "unauthorized" /\ pc' = [pc EXCEPT ![r] = "answered"]
  <2>1. nextUpdate' = nextUpdate
    BY <1>3, <1>1 DEF Stamp, LeafInv, ReplyTypeOK
  <2>2. ReplyTypeOK'
    BY <1>1, <1>3, <2>1 DEF LeafInv, ReplyTypeOK
  <2>3. RequestInv'
    BY <1>1, <1>3, <2>1 DEF LeafInv, ReplyTypeOK, RequestInv
  <2>4. (GoodExpiresAfterRevocation /\ RevocationReachesAnswers /\ RevokedIsAnswered)'
    BY <1>1, <1>3, <2>1 DEF LeafInv, ReplyTypeOK, GoodExpiresAfterRevocation,
       RevocationReachesAnswers, RevokedIsAnswered, Answered
  <2> QED
    BY <1>2, <2>2, <2>3, <2>4 DEF LeafInv
<1>4. CASE status[r] # "unauthorized" /\ pc' = [pc EXCEPT ![r] = "sign"]
  <2>1. nextUpdate' = [nextUpdate EXCEPT ![r] = now + Validity]
    BY <1>4 DEF Stamp
  <2>2. ReplyTypeOK'
    BY <1>1, <1>4, <2>1 DEF LeafInv, ReplyTypeOK
  <2>3. RequestInv'
    BY <1>1, <1>4, <2>1 DEF LeafInv, ReplyTypeOK, RequestInv, Answers
  <2>4. (GoodExpiresAfterRevocation /\ RevocationReachesAnswers /\ RevokedIsAnswered)'
    BY <1>1, <1>4, <2>1 DEF LeafInv, ReplyTypeOK, GoodExpiresAfterRevocation,
       RevocationReachesAnswers, RevokedIsAnswered, Answered
  <2> QED
    BY <1>2, <2>2, <2>3, <2>4 DEF LeafInv
<1> QED
  BY <1>3, <1>4 DEF Stamp

(* The signature is back.  Whatever the set evicts, the entry it stores is  *)
(* within reach, because the reply it holds was stamped a SignDelay ago.    *)
LEMMA SignKeeps ==
  ASSUME LeafInv, NEW r \in Requests, Sign(r)
  PROVE  LeafInv'
<1> USE TimesNat DEF Never
<1> DEFINE k == key[r]
           entry == [status |-> status[r], nextUpdate |-> nextUpdate[r],
                     expiresAt |-> now + Validity]
<1>1. /\ pc[r] = "sign" /\ now \in 0 .. Horizon /\ k \in Keys
      /\ pc' = [pc EXCEPT ![r] = "answered"]
      /\ UNCHANGED <<revoked, now, when, key, began, status, nextUpdate>>
      /\ status[r] \in Signed
      /\ now <= nextUpdate[r] - Validity + SignDelay
      /\ nextUpdate[r] <= began[r] + LedgerDelay + Validity
      /\ nextUpdate[r] <= now + Validity
      /\ began[r] \in Nat /\ when[k] \in Nat /\ nextUpdate[r] \in Nat
      /\ status[r] # "revoked" => began[r] <= when[k]
  BY DEF LeafInv, Sign, ReplyTypeOK, RequestInv, ledgerVars
<1>2. /\ cache' \in [Keys -> [status : Signed \cup {"none"}, nextUpdate : Nat, expiresAt : Nat]]
      /\ cache'[k] = entry
      /\ \A j \in Keys \ {k} : cache'[j] \in {NoEntry, cache[j]}
  <2> DEFINE Out == Evicted
  <2>1. cache' = [j \in Keys |-> IF j = k THEN entry
                                 ELSE IF j \in Out THEN NoEntry ELSE cache[j]]
    BY DEF Sign, CacheSet
  <2>2. entry \in [status : Signed \cup {"none"}, nextUpdate : Nat, expiresAt : Nat]
    BY <1>1
  <2> HIDE DEF Out, entry
  <2> QED
    BY <2>1, <2>2 DEF LeafInv, ReplyTypeOK, NoEntry
<1>3. ReplyTypeOK'
  BY <1>1, <1>2 DEF LeafInv, ReplyTypeOK
<1>4. StampInv'
  BY <1>1 DEF LeafInv, StampInv
<1>5. CacheInv'
  <2>1. ASSUME NEW j \in Keys \ {k}, NEW c, c \in {NoEntry, cache[j]}
        PROVE  /\ c.expiresAt <= now + Validity /\ c.nextUpdate <= now + Validity
               /\ c.status = "good" =>
                    /\ c.expiresAt <= when[j] + LedgerDelay + SignDelay + Validity
                    /\ c.nextUpdate <= when[j] + LedgerDelay + Validity
    BY <1>1, <2>1 DEF LeafInv, CacheInv, NoEntry
  <2>2. /\ entry.expiresAt <= now + Validity /\ entry.nextUpdate <= now + Validity
        /\ entry.status = "good" =>
             /\ entry.expiresAt <= when[k] + LedgerDelay + SignDelay + Validity
             /\ entry.nextUpdate <= when[k] + LedgerDelay + Validity
    BY <1>1
  <2> HIDE DEF entry
  <2> QED
    BY <1>1, <1>2, <2>1, <2>2 DEF CacheInv
<1>6. RequestInv'
  BY <1>1 DEF LeafInv, ReplyTypeOK, RequestInv
<1>7. (GoodExpiresAfterRevocation /\ RevocationReachesAnswers /\ RevokedIsAnswered)'
  BY <1>1 DEF LeafInv, ReplyTypeOK, GoodExpiresAfterRevocation,
     RevocationReachesAnswers, RevokedIsAnswered, Answered, Signed
<1> QED
  BY <1>3, <1>4, <1>5, <1>6, <1>7 DEF LeafInv

LEMMA FailsKeeps ==
  ASSUME LeafInv, NEW r \in Requests, Fails(r)
  PROVE  LeafInv'
<1> USE TimesNat DEF Never
<1>1. ReplyTypeOK'
  BY DEF LeafInv, Fails, ReplyTypeOK, ledgerVars, cacheVars
<1>2. StampInv' /\ CacheInv' /\ RequestInv'
  BY DEF LeafInv, Fails, ReplyTypeOK, StampInv, CacheInv, RequestInv, ledgerVars, cacheVars
<1>3. (GoodExpiresAfterRevocation /\ RevocationReachesAnswers /\ RevokedIsAnswered)'
  BY DEF LeafInv, Fails, ReplyTypeOK, GoodExpiresAfterRevocation,
     RevocationReachesAnswers, RevokedIsAnswered, Answered
<1> QED
  BY <1>1, <1>2, <1>3 DEF LeafInv

-----------------------------------------------------------------------------
LEMMA LeafStep == LeafInv /\ [Next]_vars => LeafInv'
<1> SUFFICES ASSUME LeafInv, [Next]_vars PROVE LeafInv'
  OBVIOUS
<1>1. ASSUME NEW k \in Keys, Enroll(k) PROVE LeafInv'
  BY <1>1, StillKeeps DEF Enroll, EnrollKey, cacheVars
<1>2. ASSUME NEW u \in Users, Delete(u) PROVE LeafInv'
  BY <1>2, StillKeeps DEF Delete, DeleteAccount, cacheVars
<1>3. CASE UNCHANGED vars
  BY <1>3, StillKeeps DEF vars, ledgerVars, cacheVars
<1> QED
  BY <1>1, <1>2, <1>3, TickKeeps, RevokeKeeps, AskKeeps, LookupKeeps, StampKeeps, SignKeeps,
     FailsKeeps DEF Next

(* The inductive invariant: every reply, stored or under way, is within its *)
(* delays of the present and of the revocation it missed.                   *)
THEOREM LeafInvHolds == Spec => []LeafInv
BY LeafInit, LeafStep, PTL DEF Spec

(* No signed good is valid past its key's revocation by more than Validity *)
(* and the ledger's delay, however long its signature took.                *)
THEOREM GoodExpiresAfterRevocationHolds == Spec => []GoodExpiresAfterRevocation
<1>1. LeafInv => GoodExpiresAfterRevocation
  BY DEF LeafInv
<1> QED
  BY <1>1, LeafInvHolds, PTL

(* Nobody who asks later than that, and a signature's delay, is told good.  *)
THEOREM RevocationReachesAnswersHolds == Spec => []RevocationReachesAnswers
<1>1. LeafInv => RevocationReachesAnswers
  BY DEF LeafInv
<1> QED
  BY <1>1, LeafInvHolds, PTL

(* A revoked key is never answered like a serial that was not issued.       *)
THEOREM RevokedIsAnsweredHolds == Spec => []RevokedIsAnswered
<1>1. LeafInv => RevokedIsAnswered
  BY DEF LeafInv
<1> QED
  BY <1>1, LeafInvHolds, PTL
=============================================================================
