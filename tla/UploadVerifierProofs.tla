------------------------ MODULE UploadVerifierProofs -------------------------
(***************************************************************************)
(* Machine-checked proofs about the verifier, for every set of keys,       *)
(* accounts, nonces, uploads and concurrent requests and every             *)
(* configuration.  The invariant is proved part by part: types, who spent  *)
(* which challenge, what the pipeline let through, and what revocations    *)
(* and deletions were in force.                                            *)
(***************************************************************************)
EXTENDS UploadRefinement, TLAPS

(* The ledger's operations keep its types.                                 *)
LedgerStep ==
  \/ \E k \in Keys : EnrollKey(k) \/ RevokeKey(k)
  \/ \E u \in Users : DeleteAccount(u)
  \/ \E k \in Keys, n \in Nonces : MintChallenge(k, n)

LEMMA LedgerStepType ==
  ASSUME LedgerTypeOK, LedgerStep
  PROVE  LedgerTypeOK'
<1>1. ASSUME NEW k \in Keys, EnrollKey(k) PROVE LedgerTypeOK'
  BY <1>1 DEF LedgerTypeOK, EnrollKey
<1>2. ASSUME NEW k \in Keys, RevokeKey(k) PROVE LedgerTypeOK'
  BY <1>2 DEF LedgerTypeOK, RevokeKey
<1>3. ASSUME NEW u \in Users, DeleteAccount(u) PROVE LedgerTypeOK'
  BY <1>3 DEF LedgerTypeOK, DeleteAccount
<1>4. ASSUME NEW k \in Keys, NEW n \in Nonces, MintChallenge(k, n) PROVE LedgerTypeOK'
  BY <1>4 DEF LedgerTypeOK, MintChallenge, Tokens, ChallengeState
<1>5. QED
  BY <1>1, <1>2, <1>3, <1>4 DEF LedgerStep

(* Each of them only adds to issued and revoked, never revives a row, and  *)
(* leaves consumed challenges consumed.                                    *)
LEMMA LedgerStepMonotone ==
  ASSUME LedgerTypeOK, LedgerStep
  PROVE  /\ issued \subseteq issued'
         /\ revoked \subseteq revoked'
         /\ issued \ registry \subseteq issued' \ registry'
         /\ \A t \in Tokens : challenge[t] = "consumed" => challenge'[t] = "consumed"
<1> DEFINE Monotone ==
         /\ issued \subseteq issued'
         /\ revoked \subseteq revoked'
         /\ issued \ registry \subseteq issued' \ registry'
         /\ \A t \in Tokens : challenge[t] = "consumed" => challenge'[t] = "consumed"
<1>1. ASSUME NEW k \in Keys, EnrollKey(k) PROVE Monotone
  BY <1>1 DEF EnrollKey
<1>2. ASSUME NEW k \in Keys, RevokeKey(k) PROVE Monotone
  BY <1>2 DEF RevokeKey
<1>3. ASSUME NEW u \in Users, DeleteAccount(u) PROVE Monotone
  BY <1>3 DEF DeleteAccount
<1>4. ASSUME NEW k \in Keys, NEW n \in Nonces, MintChallenge(k, n) PROVE Monotone
  BY <1>4 DEF LedgerTypeOK, MintChallenge
<1>5. QED
  BY <1>1, <1>2, <1>3, <1>4 DEF LedgerStep

-----------------------------------------------------------------------------
(* What every step of a request but Submit and the burn leaves alone.      *)
Quiet == UNCHANGED <<ledgerVars, vendorRevoked, historyVars>>

LEMMA GotoType ==
  ASSUME TypeOK, NEW r \in Requests, NEW l \in Location, Goto(r, l)
  PROVE  /\ pc' \in [Requests -> Location]
         /\ upload' \in [Requests -> Uploads]
         /\ verdict' \in [Requests -> Verdict]
  BY DEF TypeOK, Goto

LEMMA AnswerType ==
  ASSUME TypeOK, NEW r \in Requests, NEW v \in Verdict, Answer(r, v)
  PROVE  /\ pc' \in [Requests -> Location]
         /\ upload' \in [Requests -> Uploads]
         /\ verdict' \in [Requests -> Verdict]
  BY DEF TypeOK, Answer, Location

LEMMA QuietType ==
  ASSUME TypeOK, Quiet,
         pc' \in [Requests -> Location],
         upload' \in [Requests -> Uploads],
         verdict' \in [Requests -> Verdict]
  PROVE  TypeOK'
  BY DEF TypeOK, Quiet, LedgerTypeOK, ledgerVars, historyVars

(* The quiet steps of the pipeline in one place: where a request may move  *)
(* to, with what the gate it passed established ...                         *)
Advances(r, l) ==
  LET u == upload[r] IN
  \/ pc[r] = "fetch" /\ l = "body"
  \/ pc[r] = "body" /\ l = "gates"
  \/ pc[r] = "gates" /\ l = "ocsp"
  \/ pc[r] = "gates" /\ l = "capture" /\ ~(u.responder /\ NetworkRevocation)
  \/ pc[r] = "ocsp" /\ l = "capture" /\ ~vendorRevoked
  \/ pc[r] = "capture" /\ l = "signer" /\ u.capture \notin Keys \cap revoked
  \/ /\ pc[r] = "signer"
     /\ u.signer \in registry \ revoked
     /\ IF Attested(r) THEN l \in {"token", "evidence"}
        ELSE l = "derive" /\ ~AttestationRequired
  \/ pc[r] = "token" /\ l = "evidence"
  \/ pc[r] = "evidence" /\ l = "burn"

(* ... and what it may be answered.                                        *)
Concludes(r, v) ==
  /\ InFlight(r)
  /\ v \in Verdict
  /\ v = "ok" => pc[r] = "derive"
  /\ v \notin SpentByRefusal => pc[r] # "derive"

QuietStep(r) ==
  \/ FetchAsset(r)    \/ OfflineGates(r)  \/ OcspAnswer(r)   \/ OcspTimeout(r)
  \/ LookupCapture(r) \/ LookupSigner(r)  \/ CheckEvidence(r)
  \/ ReadBody(r)      \/ GetAccessToken(r)
  \/ DatabaseFails(r) \/ DeriveAndAnswer(r) \/ InstanceDies(r)

LEMMA QuietShape ==
  ASSUME TypeOK, NEW r \in Requests, QuietStep(r)
  PROVE  /\ Quiet
         /\ \/ \E l \in Location : Advances(r, l) /\ Goto(r, l)
            \/ \E v \in Verdict : Concludes(r, v) /\ Answer(r, v)
<1> DEFINE Moved == \E l \in Location : Advances(r, l) /\ Goto(r, l)
           Answered == \E v \in Verdict : Concludes(r, v) /\ Answer(r, v)
<1>t. upload[r] \in UploadShape
  BY UploadAssumption DEF TypeOK
<1>1. CASE FetchAsset(r)
  BY <1>1 DEF FetchAsset, Quiet, Advances, Concludes, Location, Verdict,
              FetchCode, InFlight, StructureCode
<1>2. CASE OfflineGates(r)
  <2>1. CASE upload[r].structure # "ok"
    BY <1>2, <2>1, <1>t DEF OfflineGates, Quiet, Concludes, Verdict, InFlight, UploadShape
  <2>2. CASE upload[r].structure = "ok"
    BY <1>2, <2>2 DEF OfflineGates, Quiet, Advances, Location
  <2>3. QED
    BY <2>1, <2>2
<1>3. CASE OcspAnswer(r)
  BY <1>3 DEF OcspAnswer, Quiet, Advances, Concludes, Location, Verdict,
              InFlight, StructureCode
<1>4. CASE OcspTimeout(r)
  BY <1>4 DEF OcspTimeout, Quiet, Concludes, Verdict, InFlight
<1>5. CASE LookupCapture(r)
  BY <1>5 DEF LookupCapture, LookupRow, Quiet, Advances, Concludes, Location,
              Verdict, InFlight
<1>6. CASE LookupSigner(r)
  <2> DEFINE v == SignerVerdict(upload[r])
  <2>1. CASE v # "ok"
    <3>1. v \in Verdict
      BY <2>1 DEF SignerVerdict, Verdict, StructureCode
    <3>2. QED
      BY <1>6, <2>1, <3>1 DEF LookupSigner, Quiet, Concludes, InFlight
  <2>2. CASE v = "ok"
    <3>1. /\ LookupRow(upload[r].signer) \notin {"none", "revoked"}
          /\ ~EnvelopeMismatch(upload[r])
          /\ ~EnvelopeMissing(upload[r])
      BY <2>2 DEF SignerVerdict
    <3>2. upload[r].signer \in registry \ revoked
      BY <3>1 DEF LookupRow
    <3>3. CASE upload[r].envelope = "none"
      <4>1. ~Attested(r) /\ ~AttestationRequired
        BY <3>1, <3>3 DEF Attested, EnvelopeMissing
      <4>2. QED
        BY <1>6, <2>2, <3>2, <3>3, <4>1 DEF LookupSigner, Quiet, Advances, Location
    <3>4. CASE upload[r].envelope # "none"
      <4>1. Attested(r)
        BY <3>1, <3>4, <1>t DEF Attested, EnvelopeMismatch, UploadShape
      <4>2. QED
        BY <1>6, <2>2, <3>2, <3>4, <4>1 DEF LookupSigner, Quiet, Advances, Location
    <3>5. QED
      BY <3>3, <3>4
  <2>3. QED
    BY <2>1, <2>2
<1>7. CASE CheckEvidence(r)
  BY <1>7 DEF CheckEvidence, Decoded, Quiet, Advances, Concludes, Location, Verdict, InFlight
<1>8. CASE DatabaseFails(r)
  BY <1>8 DEF DatabaseFails, Quiet, Concludes, Verdict, InFlight
<1>9. CASE DeriveAndAnswer(r)
  BY <1>9 DEF DeriveAndAnswer, Quiet, Concludes, Verdict, StructureCode, InFlight,
              SpentByRefusal
<1>10. CASE InstanceDies(r)
  BY <1>10 DEF InstanceDies, Quiet, Concludes, Verdict, SpentByRefusal
<1>11. CASE ReadBody(r)
  BY <1>11 DEF ReadBody, BodyCode, Quiet, Advances, Concludes, Location, Verdict,
               FetchCode, InFlight
<1>12. CASE GetAccessToken(r)
  BY <1>12 DEF GetAccessToken, Quiet, Advances, Concludes, Location, Verdict, InFlight
<1>13. QED
  BY <1>1, <1>2, <1>3, <1>4, <1>5, <1>6, <1>7, <1>8, <1>9, <1>10, <1>11, <1>12
  DEF QuietStep

LEMMA NextCases ==
  ASSUME Next
  PROVE  \/ \E r \in Requests : Submit(r) \/ QuietStep(r) \/ BurnNonce(r)
         \/ LedgerStep /\ UNCHANGED <<requestVars, vendorRevoked, historyVars>>
         \/ VendorRevokes
  BY DEF Next, Handle, Deadlined, Answerable, QuietStep, Elsewhere, LedgerStep

-----------------------------------------------------------------------------
(* Types.                                                                  *)
LEMMA TypeStep ==
  ASSUME TypeOK, [Next]_vars
  PROVE  TypeOK'
<1>1. ASSUME NEW r \in Requests, Submit(r) PROVE TypeOK'
  <2>1. denied' \in [Requests -> SUBSET (Keys \cup {Foreign})]
    BY <1>1 DEF TypeOK, LedgerTypeOK, Submit
  <2>2. gone' \in [Requests -> SUBSET Keys]
    BY <1>1 DEF TypeOK, LedgerTypeOK, Submit
  <2>3. QED
    BY <1>1, <2>1, <2>2 DEF TypeOK, LedgerTypeOK, Submit, Goto, Location, ledgerVars
<1>2. ASSUME NEW r \in Requests, QuietStep(r) PROVE TypeOK'
  BY <1>2, QuietShape, GotoType, AnswerType, QuietType
<1>3. ASSUME NEW r \in Requests, BurnNonce(r) PROVE TypeOK'
  <2>1. /\ pc' \in [Requests -> Location]
        /\ upload' \in [Requests -> Uploads]
        /\ verdict' \in [Requests -> Verdict]
    <3>1. \/ Goto(r, "derive")
          \/ Answer(r, "VERIFIER_UNAVAILABLE")
          \/ Answer(r, "ATTESTATION_REPLAY")
      BY <1>3 DEF BurnNonce
    <3>2. /\ "derive" \in Location
          /\ {"VERIFIER_UNAVAILABLE", "ATTESTATION_REPLAY"} \subseteq Verdict
      BY DEF Location, Verdict
    <3>3. QED
      BY <3>1, <3>2, GotoType, AnswerType
  <2>2. LedgerTypeOK'
    BY <1>3 DEF BurnNonce, BurnWins, BurnLoses, TypeOK, LedgerTypeOK, ChallengeState, ledgerVars
  <2>3. spender' \in [Tokens -> Requests \cup {NoOne}]
    BY <1>3 DEF BurnNonce, TypeOK
  <2>4. QED
    BY <1>3, <2>1, <2>2, <2>3 DEF BurnNonce, TypeOK
<1>4. CASE LedgerStep /\ UNCHANGED <<requestVars, vendorRevoked, historyVars>>
  <2>1. LedgerTypeOK'
    BY <1>4, LedgerStepType DEF TypeOK
  <2>2. QED
    BY <1>4, <2>1 DEF TypeOK, requestVars, historyVars
<1>5. CASE VendorRevokes
  BY <1>5 DEF VendorRevokes, TypeOK, LedgerTypeOK, ledgerVars, requestVars, historyVars
<1>6. CASE UNCHANGED vars
  BY <1>6 DEF vars, TypeOK, LedgerTypeOK, ledgerVars, requestVars, historyVars
<1>7. QED
  BY <1>1, <1>2, <1>3, <1>4, <1>5, <1>6, NextCases

LEMMA TypeInit ==
  ASSUME Init
  PROVE  TypeOK
<1>1. LedgerTypeOK
  BY DEF Init, LedgerInit, LedgerTypeOK, ChallengeState
<1>2. /\ pc \in [Requests -> Location]
      /\ verdict \in [Requests -> Verdict]
  BY DEF Init, Location, Verdict
<1>3. QED
  BY <1>1, <1>2 DEF Init, TypeOK

(* Type correctness of the verifier and of the ledger it reads.            *)
THEOREM TypeCorrect == Spec => []TypeOK
<1>1. Init => TypeOK
  BY TypeInit
<1>2. TypeOK /\ [Next]_vars => TypeOK'
  BY TypeStep
<1>3. QED
  BY <1>1, <1>2, PTL DEF Spec

-----------------------------------------------------------------------------
(* Who spent which challenge.                                              *)
LEMMA SpenderStep ==
  ASSUME TypeOK, SpenderInv, [Next]_vars
  PROVE  SpenderInv'
<1>u. upload' = upload
  BY NextCases, QuietShape DEF Submit, Goto, Answer, BurnNonce, VendorRevokes,
                               requestVars, vars
<1>1. ASSUME NEW r \in Requests, Submit(r) PROVE SpenderInv'
  BY <1>1, <1>u DEF Submit, Goto, SpenderInv, TypeOK, ledgerVars
<1>2. ASSUME NEW r \in Requests, QuietStep(r) PROVE SpenderInv'
  <2>1. UNCHANGED <<challenge, spender>>
    BY <1>2, QuietShape DEF Quiet, ledgerVars, historyVars
  <2>2. ASSUME NEW q \in Requests, pc[q] \in {"derive", "done"}
        PROVE  pc'[q] \in {"derive", "done"}
    BY <1>2, <2>2, QuietShape DEF TypeOK, Goto, Answer, Advances, Concludes, InFlight
  <2>3. QED
    BY <1>u, <2>1, <2>2 DEF SpenderInv, TypeOK, Token
<1>3. ASSUME NEW r \in Requests, BurnNonce(r) PROVE SpenderInv'
  <2> DEFINE t == Token(upload[r])
  <2>1. pc[r] = "burn" /\ pc' \in [Requests -> Location] /\ pc'[r] \in {"derive", "done"}
        /\ \A q \in Requests \ {r} : pc'[q] = pc[q]
    BY <1>3, TypeStep DEF BurnNonce, Goto, Answer, TypeOK, Next, Handle, Answerable
  <2>2. CASE BurnWins(t) /\ spender' = [spender EXCEPT ![t] = r]
    <3>1. ASSUME NEW s \in Tokens, spender'[s] # NoOne
          PROVE  /\ challenge'[s] = "consumed"
                 /\ Token(upload'[spender'[s]]) = s
                 /\ pc'[spender'[s]] \in {"derive", "done"}
      <4>1. CASE s = t
        BY <1>u, <2>1, <2>2, <3>1, <4>1 DEF BurnWins, TypeOK, LedgerTypeOK
      <4>2. CASE s # t
        BY <1>u, <2>1, <2>2, <3>1, <4>2 DEF BurnWins, TypeOK, LedgerTypeOK, SpenderInv
      <4>3. QED
        BY <4>1, <4>2
    <3>2. QED
      BY <3>1 DEF SpenderInv, Token
  <2>3. CASE BurnLoses(t) /\ UNCHANGED spender
    BY <1>u, <2>1, <2>3 DEF BurnLoses, ledgerVars, SpenderInv, TypeOK, Token
  <2>4. QED
    BY <1>3, <2>2, <2>3 DEF BurnNonce
<1>4. CASE LedgerStep /\ UNCHANGED <<requestVars, vendorRevoked, historyVars>>
  BY <1>4, LedgerStepMonotone DEF SpenderInv, TypeOK, Token, requestVars, historyVars
<1>5. CASE VendorRevokes
  BY <1>5 DEF VendorRevokes, SpenderInv, Token, ledgerVars, requestVars, historyVars
<1>6. CASE UNCHANGED vars
  BY <1>6 DEF vars, SpenderInv, Token, ledgerVars, requestVars, historyVars
<1>7. QED
  BY <1>1, <1>2, <1>3, <1>4, <1>5, <1>6, NextCases

-----------------------------------------------------------------------------
(* A step of one request leaves the others where they were.                *)
Others(r) ==
  \A q \in Requests \ {r} : pc'[q] = pc[q] /\ verdict'[q] = verdict[q]

LEMMA GotoOthers ==
  ASSUME TypeOK, NEW r \in Requests, NEW l, Goto(r, l)
  PROVE  /\ Others(r) /\ upload' = upload
         /\ pc'[r] = l /\ verdict' = verdict
  BY DEF TypeOK, Goto, Others

LEMMA AnswerOthers ==
  ASSUME TypeOK, NEW r \in Requests, NEW v, Answer(r, v)
  PROVE  /\ Others(r) /\ upload' = upload
         /\ pc'[r] = "done" /\ verdict'[r] = v
  BY DEF TypeOK, Answer, Others

(* What the pipeline let through.                                          *)
LEMMA PipelineStep ==
  ASSUME TypeOK, SpenderInv, PipelineInv, [Next]_vars
  PROVE  PipelineInv'
<1>1. ASSUME NEW r \in Requests, Submit(r) PROVE PipelineInv'
  <2>1. Goto(r, "fetch") /\ pc[r] = "idle" /\ spender' = spender
    BY <1>1 DEF Submit
  <2>2. QED
    BY <2>1, GotoOthers DEF PipelineInv, PipelineAt, Past, Accepted, Attested, Token, Others
<1>2. ASSUME NEW r \in Requests, QuietStep(r) PROVE PipelineInv'
  <2>1. spender' = spender
    BY <1>2, QuietShape DEF Quiet, historyVars
  <2>2. ASSUME NEW l \in Location, Advances(r, l), Goto(r, l) PROVE PipelineInv'
    <3>1. PipelineAt(r)'
      BY <2>1, <2>2, GotoOthers
         DEF PipelineInv, PipelineAt, Past, Accepted, Attested, Token, Advances
    <3>2. QED
      BY <2>1, <2>2, <3>1, GotoOthers
         DEF PipelineInv, PipelineAt, Past, Accepted, Attested, Token, Others
  <2>3. ASSUME NEW v \in Verdict, Concludes(r, v), Answer(r, v) PROVE PipelineInv'
    <3>1. PipelineAt(r)'
      BY <2>1, <2>3, AnswerOthers
         DEF PipelineInv, PipelineAt, Past, Accepted, Attested, Token, Concludes
    <3>2. QED
      BY <2>1, <2>3, <3>1, AnswerOthers
         DEF PipelineInv, PipelineAt, Past, Accepted, Attested, Token, Others
  <2>4. QED
    BY <1>2, <2>2, <2>3, QuietShape
<1>3. ASSUME NEW r \in Requests, BurnNonce(r) PROVE PipelineInv'
  <2> DEFINE t == Token(upload[r])
  <2>t. t \in Tokens
    BY UploadAssumption DEF TypeOK, UploadShape, Token, Tokens
  <2>1. pc[r] = "burn" /\ Attested(r)
    BY <1>3 DEF BurnNonce, PipelineInv, PipelineAt
  <2>2. CASE BurnWins(t) /\ spender' = [spender EXCEPT ![t] = r]
    <3>0. challenge[t] = "open"
      BY <2>2 DEF BurnWins
    <3>1. spender'[t] = r /\ \A s \in Tokens \ {t} : spender'[s] = spender[s]
      BY <2>2, <2>t DEF TypeOK
    <3>2. \A q \in Requests : Token(upload[q]) = t => spender[Token(upload[q])] # q
      BY <3>0, <2>t, UploadAssumption DEF SpenderInv
    <3>3. CASE Goto(r, "derive")
      <4>1. \A q \in Requests \ {r} : PipelineAt(q)'
        BY <2>t, <3>1, <3>2, <3>3, GotoOthers, UploadAssumption
           DEF PipelineInv, PipelineAt, Past, Accepted, Attested, Others, TypeOK, Token,
               UploadShape, Tokens
      <4>2. PipelineAt(r)'
        BY <2>1, <3>1, <3>3, GotoOthers
           DEF PipelineInv, PipelineAt, Past, Accepted, Attested, Token
      <4>3. QED
        BY <4>1, <4>2 DEF PipelineInv
    <3>4. CASE Answer(r, "VERIFIER_UNAVAILABLE")
      <4>1. \A q \in Requests \ {r} : PipelineAt(q)'
        BY <2>t, <3>1, <3>2, <3>4, AnswerOthers, UploadAssumption
           DEF PipelineInv, PipelineAt, Past, Accepted, Attested, Others, TypeOK, Token,
               UploadShape, Tokens
      <4>2. PipelineAt(r)'
        BY <3>4, AnswerOthers DEF PipelineAt, Past, Accepted
      <4>3. QED
        BY <4>1, <4>2 DEF PipelineInv
    <3>5. QED
      BY <1>3, <2>2, <3>3, <3>4, <3>0 DEF BurnNonce, BurnLoses
  <2>3. CASE BurnLoses(t) /\ Answer(r, "ATTESTATION_REPLAY") /\ UNCHANGED spender
    BY <2>3, AnswerOthers
       DEF PipelineInv, PipelineAt, Past, Accepted, Attested, Token, Others
  <2>4. QED
    BY <1>3, <2>2, <2>3 DEF BurnNonce
<1>4. CASE LedgerStep /\ UNCHANGED <<requestVars, vendorRevoked, historyVars>>
  BY <1>4 DEF PipelineInv, PipelineAt, Past, Accepted, Attested, Token,
              requestVars, historyVars
<1>5. CASE VendorRevokes
  BY <1>5 DEF VendorRevokes, PipelineInv, PipelineAt, Past, Accepted, Attested, Token,
              requestVars, historyVars
<1>6. CASE UNCHANGED vars
  BY <1>6 DEF vars, PipelineInv, PipelineAt, Past, Accepted, Attested, Token,
              requestVars, historyVars
<1>7. QED
  BY <1>1, <1>2, <1>3, <1>4, <1>5, <1>6, NextCases

-----------------------------------------------------------------------------
(* What revocations and deletions were in force.                           *)
LEMMA RevocationStep ==
  ASSUME TypeOK, RevocationInv, [Next]_vars
  PROVE  RevocationInv'
<1>1. ASSUME NEW r \in Requests, Submit(r) PROVE RevocationInv'
  <2>1. /\ Goto(r, "fetch")
        /\ denied' = [denied EXCEPT ![r] =
                        revoked \cup (IF vendorRevoked THEN {Foreign} ELSE {})]
        /\ gone' = [gone EXCEPT ![r] = issued \ registry]
        /\ UNCHANGED <<ledgerVars, vendorRevoked, spender>>
    BY <1>1 DEF Submit
  <2>2. denied'[r] \cap Keys = revoked /\ (Foreign \in denied'[r] => vendorRevoked)
    BY <2>1, UploadAssumption DEF TypeOK, LedgerTypeOK
  <2>3. RevocationAt(r)'
    BY <2>1, <2>2, GotoOthers DEF RevocationAt, Past, Accepted, TypeOK, ledgerVars
  <2>4. \A q \in Requests \ {r} : RevocationAt(q)'
    BY <2>1, GotoOthers
       DEF RevocationInv, RevocationAt, Past, Accepted, TypeOK, ledgerVars, Others
  <2>5. QED
    BY <2>3, <2>4 DEF RevocationInv
<1>2. ASSUME NEW r \in Requests, QuietStep(r) PROVE RevocationInv'
  <2>1. /\ UNCHANGED <<registry, issued, revoked, challenge>>
        /\ UNCHANGED <<vendorRevoked, denied, gone>>
    BY <1>2, QuietShape DEF Quiet, ledgerVars, historyVars
  <2>2. ASSUME NEW l \in Location, Advances(r, l), Goto(r, l) PROVE RevocationInv'
    <3>1. RevocationAt(r)'
      BY <2>1, <2>2, GotoOthers
         DEF RevocationInv, RevocationAt, Past, Accepted, Advances, TypeOK, LedgerTypeOK
    <3>2. QED
      BY <2>1, <2>2, <3>1, GotoOthers DEF RevocationInv, RevocationAt, Past, Accepted, Others
  <2>3. ASSUME NEW v \in Verdict, Concludes(r, v), Answer(r, v) PROVE RevocationInv'
    <3>1. RevocationAt(r)'
      BY <2>1, <2>3, AnswerOthers
         DEF RevocationInv, RevocationAt, Past, Accepted, Concludes
    <3>2. QED
      BY <2>1, <2>3, <3>1, AnswerOthers DEF RevocationInv, RevocationAt, Past, Accepted, Others
  <2>4. QED
    BY <1>2, <2>2, <2>3, QuietShape
<1>3. ASSUME NEW r \in Requests, BurnNonce(r) PROVE RevocationInv'
  <2>1. /\ pc[r] = "burn"
        /\ UNCHANGED <<registry, issued, revoked, vendorRevoked, denied, gone>>
    BY <1>3 DEF BurnNonce, BurnWins, BurnLoses, ledgerVars
  <2>2. CASE Goto(r, "derive")
    BY <2>1, <2>2, GotoOthers DEF RevocationInv, RevocationAt, Past, Accepted, Others
  <2>3. ASSUME NEW v \in {"VERIFIER_UNAVAILABLE", "ATTESTATION_REPLAY"}, Answer(r, v)
        PROVE  RevocationInv'
    BY <2>1, <2>3, AnswerOthers DEF RevocationInv, RevocationAt, Past, Accepted, Others
  <2>4. QED
    BY <1>3, <2>2, <2>3 DEF BurnNonce
<1>4. CASE LedgerStep /\ UNCHANGED <<requestVars, vendorRevoked, historyVars>>
  <2>1. revoked \subseteq revoked' /\ issued \ registry \subseteq issued' \ registry'
    BY <1>4, LedgerStepMonotone DEF TypeOK
  <2>2. QED
    BY <1>4, <2>1 DEF RevocationInv, RevocationAt, Past, Accepted, requestVars, historyVars
<1>5. CASE VendorRevokes
  BY <1>5 DEF VendorRevokes, RevocationInv, RevocationAt, Past, Accepted,
              ledgerVars, requestVars, historyVars
<1>6. CASE UNCHANGED vars
  BY <1>6 DEF vars, RevocationInv, RevocationAt, Past, Accepted,
              ledgerVars, requestVars, historyVars
<1>7. QED
  BY <1>1, <1>2, <1>3, <1>4, <1>5, <1>6, NextCases

-----------------------------------------------------------------------------
(* Which refusals may have spent a challenge.                              *)
LEMMA RefusalStep ==
  ASSUME TypeOK, SpenderInv, RefusalKeepsNonce, [Next]_vars
  PROVE  RefusalKeepsNonce'
<1>0. \A r \in Requests : pc[r] \notin {"derive", "done"} => \A t \in Tokens : spender[t] # r
  BY UploadAssumption DEF SpenderInv
<1>1. ASSUME NEW r \in Requests, Submit(r) PROVE RefusalKeepsNonce'
  <2>1. Goto(r, "fetch") /\ spender' = spender
    BY <1>1 DEF Submit
  <2>2. QED
    BY <2>1, GotoOthers DEF RefusalKeepsNonce, Others
<1>2. ASSUME NEW r \in Requests, QuietStep(r) PROVE RefusalKeepsNonce'
  <2>1. spender' = spender
    BY <1>2, QuietShape DEF Quiet, historyVars
  <2>2. ASSUME NEW l \in Location, Advances(r, l), Goto(r, l) PROVE RefusalKeepsNonce'
    BY <2>1, <2>2, GotoOthers DEF RefusalKeepsNonce, Others, Advances
  <2>3. ASSUME NEW v \in Verdict, Concludes(r, v), Answer(r, v) PROVE RefusalKeepsNonce'
    BY <2>1, <2>3, <1>0, AnswerOthers DEF RefusalKeepsNonce, Others, Concludes, InFlight
  <2>4. QED
    BY <1>2, <2>2, <2>3, QuietShape
<1>3. ASSUME NEW r \in Requests, BurnNonce(r) PROVE RefusalKeepsNonce'
  <2> DEFINE t == Token(upload[r])
  <2>1. pc[r] = "burn" /\ (spender' = spender \/ spender' = [spender EXCEPT ![t] = r])
    BY <1>3 DEF BurnNonce
  <2>2. \A q \in Requests \ {r}, s \in Tokens : spender[s] # q => spender'[s] # q
    BY <2>1 DEF TypeOK
  <2>3. CASE Goto(r, "derive")
    BY <2>2, <2>3, GotoOthers DEF RefusalKeepsNonce, Others
  <2>4. CASE Answer(r, "VERIFIER_UNAVAILABLE")
    BY <2>2, <2>4, AnswerOthers DEF RefusalKeepsNonce, Others, SpentByRefusal
  <2>5. CASE Answer(r, "ATTESTATION_REPLAY") /\ UNCHANGED spender
    BY <2>1, <2>2, <2>5, <1>0, AnswerOthers DEF RefusalKeepsNonce, Others
  <2>6. QED
    BY <1>3, <2>3, <2>4, <2>5 DEF BurnNonce
<1>4. CASE LedgerStep /\ UNCHANGED <<requestVars, vendorRevoked, historyVars>>
  BY <1>4 DEF RefusalKeepsNonce, requestVars, historyVars
<1>5. CASE VendorRevokes
  BY <1>5 DEF VendorRevokes, RefusalKeepsNonce, requestVars, historyVars
<1>6. CASE UNCHANGED vars
  BY <1>6 DEF vars, RefusalKeepsNonce, requestVars, historyVars
<1>7. QED
  BY <1>1, <1>2, <1>3, <1>4, <1>5, <1>6, NextCases

-----------------------------------------------------------------------------
(* The inductive invariant.                                                *)
LEMMA InvInit ==
  ASSUME Init
  PROVE  IInv
<1>1. TypeOK
  BY TypeInit
<1>2. SpenderInv /\ RefusalKeepsNonce
  BY DEF Init, SpenderInv, RefusalKeepsNonce
<1>3. PipelineInv
  BY DEF Init, PipelineInv, PipelineAt, Past, Accepted
<1>4. RevocationInv
  BY DEF Init, RevocationInv, RevocationAt, Past, Accepted
<1>5. QED
  BY <1>1, <1>2, <1>3, <1>4 DEF IInv

LEMMA InvStep ==
  ASSUME IInv, [Next]_vars
  PROVE  IInv'
  BY TypeStep, SpenderStep, PipelineStep, RevocationStep, RefusalStep DEF IInv

THEOREM InvariantHolds == Spec => []IInv
<1>1. Init => IInv
  BY InvInit
<1>2. IInv /\ [Next]_vars => IInv'
  BY InvStep
<1>3. QED
  BY <1>1, <1>2, PTL DEF Spec

(* Replay: no two accepted uploads carry the same challenge of the same key, *)
(* however many requests run at once (realreel.ts's burn through db.ts).     *)
THEOREM SingleUseHolds == Spec => []SingleUse
<1>1. IInv => SingleUse
  BY DEF IInv, PipelineInv, PipelineAt, Past, SingleUse
<1>2. QED
  BY <1>1, InvariantHolds, PTL

(* An accepted upload with an envelope consumed its own challenge, and in   *)
(* strict mode (config.attestationRequired) every accepted upload did.      *)
THEOREM AcceptanceOwnsNonceHolds == Spec => []AcceptanceOwnsNonce
<1>1. IInv => AcceptanceOwnsNonce
  BY DEF IInv, PipelineInv, PipelineAt, Past, AcceptanceOwnsNonce
<1>2. QED
  BY <1>1, InvariantHolds, PTL

(* The kill switch: what was revoked when the upload was submitted is not   *)
(* accepted (lookupSigningKey, the Stage 1 denylist, the online OCSP read). *)
THEOREM RevokedNeverAcceptedHolds == Spec => []RevokedNeverAccepted
<1>1. IInv => RevokedNeverAccepted
  BY UploadAssumption DEF IInv, TypeOK, UploadShape, RevocationInv, RevocationAt, Past,
                          RevokedNeverAccepted
<1>2. QED
  BY <1>1, InvariantHolds, PTL

(* A key whose account was gone at submission fails closed (db.ts).         *)
THEOREM DeletedOwnerNeverAcceptedHolds == Spec => []DeletedOwnerNeverAccepted
<1>1. IInv => DeletedOwnerNeverAccepted
  BY DEF IInv, RevocationInv, RevocationAt, Past, DeletedOwnerNeverAccepted
<1>2. QED
  BY <1>1, InvariantHolds, PTL

(* A refusal for a property the gates check leaves the challenge open for   *)
(* the corrected upload (the order of the gates in realreel.ts).            *)
THEOREM RefusalKeepsNonceHolds == Spec => []RefusalKeepsNonce
<1>1. IInv => RefusalKeepsNonce
  BY DEF IInv
<1>2. QED
  BY <1>1, InvariantHolds, PTL

-----------------------------------------------------------------------------
(* The pipeline implements SingleUseAcceptance, step by step.              *)
LEMMA ClaimOfToken ==
  ASSUME TypeOK
  PROVE  /\ claim \in [Requests -> Tokens \cup {NoToken}]
         /\ \A r \in Requests :
              /\ Attested(r) => claim[r] = Token(upload[r]) /\ claim[r] \in Tokens
              /\ ~Attested(r) => claim[r] \notin Tokens
<1>1. \A r \in Requests : Token(upload[r]) \in Tokens
  BY UploadAssumption DEF TypeOK, UploadShape, Token, Tokens
<1>2. QED
  BY <1>1, NoTokenAssumption DEF claim

LEMMA OutcomeGoto ==
  ASSUME TypeOK, NEW r \in Requests, pc[r] # "done", NEW l, l # "done", Goto(r, l)
  PROVE  outcome' = outcome /\ claim' = claim
  BY GotoOthers DEF outcome, claim, Attested, Token, Others

LEMMA OutcomeAnswer ==
  ASSUME TypeOK, NEW r \in Requests, pc[r] # "done", NEW v, Answer(r, v)
  PROVE  /\ claim' = claim
         /\ outcome[r] = "open"
         /\ outcome' = [outcome EXCEPT ![r] = IF v = "ok" THEN "accepted" ELSE "refused"]
<1>1. /\ \A q \in Requests : q # r => pc'[q] = pc[q] /\ verdict'[q] = verdict[q]
      /\ upload' = upload /\ pc'[r] = "done" /\ verdict'[r] = v
  BY AnswerOthers DEF Others
<1>2. claim' = claim
  BY <1>1 DEF claim, Attested, Token
<1>3. outcome[r] = "open"
  BY DEF outcome
<1>4. /\ outcome'[r] = IF v = "ok" THEN "accepted" ELSE "refused"
      /\ \A q \in Requests : q # r => outcome'[q] = outcome[q]
  BY <1>1 DEF outcome
<1>5. outcome' = [outcome EXCEPT ![r] = IF v = "ok" THEN "accepted" ELSE "refused"]
  BY <1>4 DEF outcome
<1>6. QED
  BY <1>2, <1>3, <1>5

LEMMA RefinesInit ==
  ASSUME Init
  PROVE  Abstract!Init
<1>1. claim \in [Requests -> Tokens \cup {NoToken}]
  BY TypeInit, ClaimOfToken
<1>2. outcome = [r \in Requests |-> "open"]
  BY DEF Init, outcome
<1>3. QED
  BY <1>1, <1>2 DEF Init, Abstract!Init

LEMMA RefinesStep ==
  ASSUME IInv, IInv', [Next]_vars
  PROVE  [Abstract!Next]_<<spender, claim, outcome>>
<1>1. ASSUME NEW r \in Requests, Submit(r)
      PROVE  UNCHANGED <<spender, claim, outcome>>
  BY <1>1, OutcomeGoto DEF Submit, IInv
<1>2. ASSUME NEW r \in Requests, QuietStep(r)
      PROVE  Abstract!Next \/ UNCHANGED <<spender, claim, outcome>>
  <2>1. spender' = spender
    BY <1>2, QuietShape DEF Quiet, historyVars, IInv
  <2>2. ASSUME NEW l \in Location, Advances(r, l), Goto(r, l)
        PROVE  UNCHANGED <<spender, claim, outcome>>
    BY <2>1, <2>2, OutcomeGoto DEF Advances, IInv
  <2>3. ASSUME NEW v \in Verdict, Concludes(r, v), Answer(r, v)
        PROVE  Abstract!Next
    <3>1. pc[r] # "done" /\ TypeOK
      BY <2>3 DEF Concludes, InFlight, IInv
    <3>2. CASE v = "ok"
      <4>1. pc[r] = "derive"
        BY <2>3, <3>2 DEF Concludes
      <4>2. IF claim[r] \in Tokens THEN spender[claim[r]] = r ELSE ~AttestationRequired
        BY <3>1, <4>1, ClaimOfToken DEF IInv, PipelineInv, PipelineAt, Past
      <4>3. Abstract!Accept(r)
        BY <2>1, <2>3, <3>1, <3>2, <4>2, OutcomeAnswer DEF Abstract!Accept
      <4>4. QED
        BY <4>3 DEF Abstract!Next
    <3>3. CASE v # "ok"
      <4>1. Abstract!Refuse(r)
        BY <2>1, <2>3, <3>1, <3>3, OutcomeAnswer DEF Abstract!Refuse
      <4>2. QED
        BY <4>1 DEF Abstract!Next
    <3>4. QED
      BY <3>2, <3>3
  <2>4. QED
    BY <1>2, <2>2, <2>3, QuietShape DEF IInv
<1>3. ASSUME NEW r \in Requests, BurnNonce(r) PROVE Abstract!Next
  <2> DEFINE t == Token(upload[r])
  <2>1. pc[r] = "burn" /\ TypeOK
    BY <1>3 DEF BurnNonce, IInv
  <2>2. claim[r] = t /\ t \in Tokens
    BY <2>1, ClaimOfToken DEF IInv, PipelineInv, PipelineAt
  <2>3. CASE BurnWins(t) /\ spender' = [spender EXCEPT ![t] = r]
    <3>1. spender[t] = NoOne
      BY <2>2, <2>3 DEF BurnWins, IInv, SpenderInv
    <3>2. claim' = claim /\ outcome[r] = "open"
          /\ outcome' \in {outcome, [outcome EXCEPT ![r] = "refused"]}
      <4>1. CASE Goto(r, "derive")
        BY <2>1, <4>1, OutcomeGoto DEF outcome
      <4>2. CASE Answer(r, "VERIFIER_UNAVAILABLE")
        BY <2>1, <4>2, OutcomeAnswer
      <4>3. QED
        BY <1>3, <2>3, <4>1, <4>2 DEF BurnNonce, BurnWins, BurnLoses
    <3>3. Abstract!Take(r)
      BY <2>2, <2>3, <3>1, <3>2 DEF Abstract!Take
    <3>4. QED
      BY <3>3 DEF Abstract!Next
  <2>4. CASE BurnLoses(t) /\ Answer(r, "ATTESTATION_REPLAY") /\ UNCHANGED spender
    <3>1. Abstract!Refuse(r)
      BY <2>1, <2>4, OutcomeAnswer DEF Abstract!Refuse
    <3>2. QED
      BY <3>1 DEF Abstract!Next
  <2>5. QED
    BY <1>3, <2>3, <2>4 DEF BurnNonce
<1>4. CASE LedgerStep /\ UNCHANGED <<requestVars, vendorRevoked, historyVars>>
  BY <1>4 DEF claim, outcome, Attested, Token, requestVars, historyVars
<1>5. CASE VendorRevokes
  BY <1>5 DEF VendorRevokes, claim, outcome, Attested, Token, requestVars, historyVars
<1>6. CASE UNCHANGED vars
  BY <1>6 DEF vars, claim, outcome, Attested, Token, requestVars, historyVars
<1>7. QED
  BY <1>1, <1>2, <1>3, <1>4, <1>5, <1>6, NextCases DEF Abstract!vars

(* The verifier with its awaits, failures and concurrent requests           *)
(* implements exclusive single-use tokens.                                  *)
THEOREM Refinement == Spec => ImplementsSingleUse
<1>1. Init => Abstract!Init
  BY RefinesInit
<1>2. IInv /\ IInv' /\ [Next]_vars => [Abstract!Next]_(Abstract!vars)
  BY RefinesStep DEF Abstract!vars
<1>3. QED
  BY <1>1, <1>2, InvariantHolds, PTL DEF Spec, ImplementsSingleUse, Abstract!Spec
=============================================================================
