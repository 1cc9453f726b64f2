----------------------------- MODULE Enrollment ------------------------------
(***************************************************************************)
(* The CA's enrollment functions: get-attestation-challenge issues         *)
(* challenges, register-signing-key turns one challenge, one hardware      *)
(* attestation and one CSR into a leaf signed by Cloud KMS and a row of    *)
(* user_signing_keys.  Registrations run concurrently; each is a chain of  *)
(* steps separated by the handler's awaits, and any of the services behind *)
(* them may fail or lose its reply.                                        *)
(*                                                                         *)
(* A registration is abstracted to what its checks compare: which          *)
(* challenge it redeems, which key the body, the CSR and the attestation   *)
(* name, and which challenge the attestation was made over.                *)
(***************************************************************************)
CONSTANTS Requests,    \* calls of register-signing-key
          Attempts,    \* the bodies they may carry
          Users, Keys, Challenges,
          Versions,    \* key versions a challenge is issued for
          None         \* no user, no request, no key to supersede

Outcome ==
  {"none", "enrolled", "bad request", "unauthorized", "rate limited",
   "misconfigured", "unavailable", "challenge unavailable", "version mismatch",
   "invalid csr", "invalid attestation", "issuance failed", "already registered",
   "server error", "lost"}

AttemptShape ==
  [user      : Users,
   android   : BOOLEAN,        \* platform; the rest are ios
   form      : {"ok", "bad request", "unauthorized"},
   challenge : Challenges,     \* redeemed
   version   : Versions,       \* claimed in the body
   key       : Keys,           \* body.publicKey
   csrKey    : Keys,           \* SPKI of the CSR
   csrSigned : BOOLEAN,        \* its self-signature verifies
   attested  : Keys \X Challenges, \* what the attestation statement covers
   evidence  : BOOLEAN,        \* chain, app id, security level, patches hold
   supersede : Keys \cup {None}]

ASSUME AttemptAssumption ==
  /\ Attempts \subseteq AttemptShape
  /\ None \notin Users \cup Requests \cup Keys

VARIABLES pool,       \* state of each enrollment_challenges row
          issuedTo,   \* the user it was issued to
          issuedFor,  \* the key version it was issued for
          expired,    \* challenges past expires_at
          owner,      \* the user of each key's row, None without a row
          superseded, \* keys whose row has superseded_at set
          pc, attempt, outcome,
          redeemer,   \* history: the request that consumed each challenge
          enroller,   \* history: the request that inserted each key's row
          metered,    \* history: requests the rate limiter has been asked about
          signed      \* history: requests for which KMS signed a leaf

challengeVars == <<pool, issuedTo, issuedFor, expired>>
rowVars == <<owner, superseded>>
requestVars == <<pc, attempt, outcome>>
historyVars == <<redeemer, enroller, metered, signed>>
vars == <<challengeVars, rowVars, requestVars, historyVars>>

Location == {"idle", "inputs", "limit", "burn", "validate", "issue", "persist", "done"}

Init ==
  /\ pool = [c \in Challenges |-> "absent"]
  /\ issuedTo = [c \in Challenges |-> None]
  /\ issuedFor \in [Challenges -> Versions]
  /\ expired = {}
  /\ owner = [k \in Keys |-> None]
  /\ superseded = {}
  /\ pc = [r \in Requests |-> "idle"]
  /\ attempt \in [Requests -> Attempts]
  /\ outcome = [r \in Requests |-> "none"]
  /\ redeemer = [c \in Challenges |-> None]
  /\ enroller = [k \in Keys |-> None]
  /\ metered = {}
  /\ signed = {}

Goto(r, l) ==
  /\ pc' = [pc EXCEPT ![r] = l]
  /\ UNCHANGED <<attempt, outcome>>

Answer(r, o) ==
  /\ pc' = [pc EXCEPT ![r] = "done"]
  /\ outcome' = [outcome EXCEPT ![r] = o]
  /\ UNCHANGED attempt

-----------------------------------------------------------------------------
(* get-attestation-challenge: issue_enrollment_challenge inserts one row    *)
(* bound to the caller and to the key version it asked for.                 *)
IssueChallenge(c, u) ==
  /\ pool[c] = "absent"
  /\ pool' = [pool EXCEPT ![c] = "open"]
  /\ issuedTo' = [issuedTo EXCEPT ![c] = u]
  /\ UNCHANGED <<issuedFor, expired, rowVars, requestVars, historyVars>>

ExpireChallenge(c) ==
  /\ pool[c] = "open" /\ c \notin expired
  /\ expired' = expired \cup {c}
  /\ UNCHANGED <<pool, issuedTo, issuedFor, rowVars, requestVars, historyVars>>

(* Method, intermediate PEM, JWT, conditional AAL2, body shape, CSR size.   *)
Receive(r) ==
  /\ pc[r] = "idle"
  /\ \/ /\ attempt[r].form = "ok"
        /\ Goto(r, IF attempt[r].android THEN "inputs" ELSE "limit")
     \/ attempt[r].form # "ok" /\ Answer(r, attempt[r].form)
     \/ Answer(r, "misconfigured")
     \/ Answer(r, "server error")   \* user_has_verified_mfa failed
  /\ UNCHANGED <<challengeVars, rowVars, historyVars>>

(* APK digests and version floor from env, Google's revocation list. *)
ResolveAndroidInputs(r) ==
  /\ pc[r] = "inputs"
  /\ \/ Goto(r, "limit")
     \/ Answer(r, "invalid attestation")  \* the chain is not a JSON array
     \/ Answer(r, "misconfigured")
     \/ Answer(r, "unavailable")
  /\ UNCHANGED <<challengeVars, rowVars, historyVars>>

(* enforceRateLimit; module RateLimiter has which requests pass, and when a *)
(* slot is taken.                                                           *)
LimitRate(r) ==
  /\ pc[r] = "limit"
  /\ Goto(r, "burn") \/ Answer(r, "rate limited") \/ Answer(r, "server error")
  /\ metered' = metered \cup {r}
  /\ UNCHANGED <<challengeVars, rowVars, redeemer, enroller, signed>>

(* The burn without its consumed_at condition. *)
Redeemable_Again(c, u) ==
  pool[c] # "absent" /\ c \notin expired /\ issuedTo[c] = u

(* consume_enrollment_challenge: UPDATE ... WHERE consumed_at IS NULL AND   *)
(* expires_at > now(), for this user.                                       *)
Redeemable(c, u) ==
  pool[c] = "open" /\ c \notin expired /\ issuedTo[c] = u

(* The Android inputs resolved after the burn instead of before it; a burn  *)
(* whose failure is let through, as the rate limiter's is.                  *)
BurnChallenge_LateInputs(r) ==
  LET a == attempt[r] IN
  /\ pc[r] = "burn"
  /\ \/ /\ Redeemable(a.challenge, a.user)
        /\ pool' = [pool EXCEPT ![a.challenge] = "consumed"]
        /\ redeemer' = [redeemer EXCEPT ![a.challenge] = r]
        /\ Goto(r, "validate") \/ (a.android /\ Answer(r, "unavailable"))
     \/ /\ Answer(r, "challenge unavailable")
        /\ UNCHANGED <<pool, redeemer>>
  /\ UNCHANGED <<issuedTo, issuedFor, expired, rowVars, enroller, metered, signed>>

BurnChallenge_FailOpen(r) ==
  LET a == attempt[r] IN
  /\ pc[r] = "burn"
  /\ \/ /\ Redeemable(a.challenge, a.user)
        /\ pool' = [pool EXCEPT ![a.challenge] = "consumed"]
        /\ redeemer' = [redeemer EXCEPT ![a.challenge] = r]
     \/ UNCHANGED <<pool, redeemer>>
  /\ Goto(r, "validate")
  /\ UNCHANGED <<issuedTo, issuedFor, expired, rowVars, enroller, metered, signed>>

(* The burn, and the comparison of the version it returns.  A lost reply    *)
(* answers 500 with the challenge spent.                                    *)
BurnChallenge(r) ==
  LET a == attempt[r] IN
  /\ pc[r] = "burn"
  /\ \/ /\ Redeemable(a.challenge, a.user)
        /\ pool' = [pool EXCEPT ![a.challenge] = "consumed"]
        /\ redeemer' = [redeemer EXCEPT ![a.challenge] = r]
        /\ \/ IF a.version = issuedFor[a.challenge] THEN Goto(r, "validate")
              ELSE Answer(r, "version mismatch")
           \/ Answer(r, "server error")
     \/ /\ ~Redeemable(a.challenge, a.user)
        /\ Answer(r, "challenge unavailable")
        /\ UNCHANGED <<pool, redeemer>>
     \/ /\ Answer(r, "server error")
        /\ UNCHANGED <<pool, redeemer>>
  /\ UNCHANGED <<issuedTo, issuedFor, expired, rowVars, enroller, metered, signed>>

(* An attestation whose challenge is not compared with the redeemed one. *)
AttestationHolds_AnyChallenge(a) == a.evidence /\ a.attested[1] = a.key

(* CSR possession proof, CSR key against attested key, then the platform's  *)
(* attestation over this challenge and this key.                            *)
CsrHolds(a) == a.csrSigned /\ a.csrKey = a.key
AttestationHolds(a) == a.evidence /\ a.attested = <<a.key, a.challenge>>

Validate(r) ==
  LET a == attempt[r] IN
  /\ pc[r] = "validate"
  /\ IF ~CsrHolds(a) THEN Answer(r, "invalid csr")
     ELSE IF ~AttestationHolds(a) THEN Answer(r, "invalid attestation")
     ELSE Goto(r, "issue")
  /\ UNCHANGED <<challengeVars, rowVars, historyVars>>

(* KMS credentials, the intermediate against the KMS key, the CPL record's  *)
(* UUID, the signature, the leaf's profile: server settings that are read   *)
(* here first.  A failure may come before the signature or after it.        *)
IssueLeaf(r) ==
  /\ pc[r] = "issue"
  /\ \/ /\ Goto(r, "persist") \/ Answer(r, "issuance failed")
        /\ signed' = signed \cup {r}
     \/ Answer(r, "issuance failed") /\ UNCHANGED signed
  /\ UNCHANGED <<challengeVars, rowVars, redeemer, enroller, metered>>

(* The RPC as an upsert.                                                    *)
InsertRow_Upsert(r) ==
  LET a == attempt[r] IN
  /\ owner' = [owner EXCEPT ![a.key] = a.user]
  /\ superseded' = superseded \cup {k \in {a.supersede} \cap Keys : owner[k] = a.user}
  /\ enroller' = [enroller EXCEPT ![a.key] = r]

(* register_user_signing_key: one transaction inserts the row and marks the *)
(* caller's own prior row superseded; the key id is unique.                 *)
InsertRow(r) ==
  LET a == attempt[r] IN
  /\ owner[a.key] = None
  /\ owner' = [owner EXCEPT ![a.key] = a.user]
  /\ superseded' = superseded \cup {k \in {a.supersede} \cap Keys : owner[k] = a.user}
  /\ enroller' = [enroller EXCEPT ![a.key] = r]

Persist(r) ==
  /\ pc[r] = "persist"
  /\ \/ /\ InsertRow(r)
        /\ Answer(r, "enrolled") \/ Answer(r, "server error")
     \/ /\ owner[attempt[r].key] # None
        /\ Answer(r, "already registered")
        /\ UNCHANGED <<rowVars, enroller>>
     \/ /\ Answer(r, "server error")
        /\ UNCHANGED <<rowVars, enroller>>
  /\ UNCHANGED <<challengeVars, redeemer, metered, signed>>

(* The isolate is killed, or the client is gone. *)
IsolateDies(r) ==
  /\ pc[r] \notin {"idle", "done"}
  /\ Answer(r, "lost")
  /\ UNCHANGED <<challengeVars, rowVars, historyVars>>

Next ==
  \/ \E c \in Challenges : ExpireChallenge(c) \/ \E u \in Users : IssueChallenge(c, u)
  \/ \E r \in Requests :
       \/ Receive(r)       \/ ResolveAndroidInputs(r) \/ LimitRate(r)
       \/ BurnChallenge(r) \/ Validate(r)             \/ IssueLeaf(r)
       \/ Persist(r)       \/ IsolateDies(r)

Spec == Init /\ [][Next]_vars

-----------------------------------------------------------------------------
TypeOK ==
  /\ pool \in [Challenges -> {"absent", "open", "consumed"}]
  /\ issuedTo \in [Challenges -> Users \cup {None}]
  /\ issuedFor \in [Challenges -> Versions]
  /\ expired \subseteq Challenges
  /\ owner \in [Keys -> Users \cup {None}]
  /\ superseded \subseteq {k \in Keys : owner[k] # None}
  /\ pc \in [Requests -> Location]
  /\ attempt \in [Requests -> Attempts]
  /\ outcome \in [Requests -> Outcome]
  /\ redeemer \in [Challenges -> Requests \cup {None}]
  /\ enroller \in [Keys -> Requests \cup {None}]
  /\ metered \subseteq Requests
  /\ signed \subseteq Requests

(* One challenge enrolls at most one key, however many registrations redeem *)
(* it at once.                                                              *)
ChallengeEnrollsOnce ==
  \A k1, k2 \in Keys :
    (/\ enroller[k1] # None /\ enroller[k2] # None
     /\ attempt[enroller[k1]].challenge = attempt[enroller[k2]].challenge) => k1 = k2

(* A client that was answered with a leaf has the row that leaf is looked   *)
(* up by: another registration of the same key never stands in for it.      *)
LeafHasRow ==
  \A r \in Requests :
    outcome[r] = "enrolled" =>
      /\ enroller[attempt[r].key] = r
      /\ owner[attempt[r].key] = attempt[r].user

(* Every row's key was proved possessed by the CSR and attested by hardware *)
(* over a challenge the server had issued to that same user for that same   *)
(* key version, and that this registration itself consumed.                 *)
RowIsAttested ==
  \A k \in Keys :
    owner[k] # None =>
      LET a == attempt[enroller[k]] IN
      /\ a.csrKey = k /\ a.csrSigned /\ a.evidence
      /\ a.attested = <<k, a.challenge>>
      /\ redeemer[a.challenge] = enroller[k]
      /\ issuedTo[a.challenge] = owner[k]
      /\ issuedFor[a.challenge] = a.version

(* A leaf is good without its row: KMS signs only for a registration that   *)
(* redeemed its own challenge, issued to its user, and proved and attested  *)
(* its key; so one challenge yields at most one leaf, also when the answer, *)
(* the insert or the isolate is lost.                                       *)
SignedLeafIsEarned ==
  \A r \in signed :
    LET a == attempt[r] IN
    /\ redeemer[a.challenge] = r /\ issuedTo[a.challenge] = a.user
    /\ a.csrSigned /\ a.csrKey = a.key
    /\ a.evidence /\ a.attested = <<a.key, a.challenge>>

(* What a server's own fault costs the client.  The faults found early (the *)
(* intermediate, the Android settings, the revocation list) cost it neither *)
(* rate limit nor challenge, and the rate limit costs it no challenge.  The *)
(* faults of issuance (KMS, the CPL record, an intermediate that is not the *)
(* KMS key's) cost it both.  A database error may come at either end.       *)
FoundEarly == {"misconfigured", "unavailable"}
FaultCost ==
  \A r \in Requests :
    /\ outcome[r] \in FoundEarly => r \notin metered
    /\ outcome[r] \in FoundEarly \cup {"rate limited"} =>
         \A c \in Challenges : redeemer[c] # r
    /\ outcome[r] = "issuance failed" =>
         r \in metered /\ redeemer[attempt[r].challenge] = r

-----------------------------------------------------------------------------
(* The inductive invariant behind these: who redeemed which challenge, what *)
(* a registration has established at each location and been charged for,    *)
(* and whose each row is.                                                   *)
Burned == {"validate", "issue", "persist"}

RedeemerInv ==
  \A c \in Challenges :
    redeemer[c] # None =>
      /\ pool[c] = "consumed"
      /\ attempt[redeemer[c]].challenge = c
      /\ pc[redeemer[c]] \in Burned \cup {"done"}
      /\ outcome[redeemer[c]] \notin FoundEarly \cup {"rate limited"}

(* What holds of a registration that burned its challenge itself.           *)
RedeemedOwn(r) ==
  LET c == attempt[r].challenge IN
  /\ redeemer[c] = r
  /\ issuedTo[c] = attempt[r].user
  /\ issuedFor[c] = attempt[r].version

ProgressInv ==
  \A r \in Requests :
    /\ pc[r] # "done" => outcome[r] = "none"
    /\ pc[r] \in Burned => RedeemedOwn(r)
    /\ pc[r] \in {"issue", "persist"} => CsrHolds(attempt[r]) /\ AttestationHolds(attempt[r])

RowInv ==
  \A k \in Keys :
    /\ owner[k] = None => enroller[k] = None
    /\ owner[k] # None =>
         LET r == enroller[k] IN
         /\ r \in Requests /\ pc[r] = "done"
         /\ attempt[r].key = k /\ attempt[r].user = owner[k]
         /\ RedeemedOwn(r) /\ CsrHolds(attempt[r]) /\ AttestationHolds(attempt[r])

CostInv ==
  \A r \in Requests :
    /\ pc[r] \in {"idle", "inputs", "limit"} \/ outcome[r] \in FoundEarly => r \notin metered
    /\ pc[r] \in {"burn"} \cup Burned \/ outcome[r] = "issuance failed" => r \in metered
    /\ outcome[r] = "issuance failed" \/ r \in signed =>
         RedeemedOwn(r) /\ CsrHolds(attempt[r]) /\ AttestationHolds(attempt[r])

EnrollInv == TypeOK /\ RedeemerInv /\ ProgressInv /\ RowInv /\ LeafHasRow /\ CostInv
-----------------------------------------------------------------------------
(* A registration presents the challenge it redeems; it stands open until   *)
(* it answers.                                                              *)
claim == [r \in Requests |-> attempt[r].challenge]
standing ==
  [r \in Requests |->
     IF pc[r] # "done" THEN "open"
     ELSE IF outcome[r] = "enrolled" THEN "accepted" ELSE "refused"]

Abstract == INSTANCE SingleUseAcceptance
              WITH Tokens <- Challenges, NoToken <- None, NoOne <- None, TokenRequired <- TRUE,
                   holder <- redeemer, outcome <- standing

(* Enrollment keeps the same promise as the verifier: a challenge is a      *)
(* token, redeeming it is exclusive and permanent, and a registration is    *)
(* answered with a leaf only if it redeemed its own                         *)
(* (register-signing-key/index.ts).                                         *)
ImplementsSingleUse == Abstract!Spec
=============================================================================
