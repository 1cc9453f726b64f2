--------------------------- MODULE EnrollmentProofs --------------------------
(***************************************************************************)
(* Machine-checked proofs about the CA's enrollment functions, for any     *)
(* number of concurrent registrations, accounts, keys and challenges.      *)
(***************************************************************************)
EXTENDS Enrollment, TLAPS

(* A step of one registration, by location.                                *)
RequestStep(r) ==
  \/ Receive(r)       \/ ResolveAndroidInputs(r) \/ LimitRate(r)
  \/ BurnChallenge(r) \/ Validate(r)             \/ IssueLeaf(r)
  \/ Persist(r)       \/ IsolateDies(r)

LEMMA NextCases ==
  ASSUME [Next]_vars
  PROVE  \/ \E c \in Challenges : ExpireChallenge(c) \/ \E u \in Users : IssueChallenge(c, u)
         \/ \E r \in Requests : RequestStep(r)
         \/ UNCHANGED vars
BY DEF Next, RequestStep

LEMMA AttemptShaped ==
  ASSUME TypeOK, NEW r \in Requests
  PROVE  /\ attempt[r] \in AttemptShape
         /\ attempt[r].user \in Users /\ attempt[r].key \in Keys
         /\ attempt[r].challenge \in Challenges /\ attempt[r].version \in Versions
         /\ attempt[r].supersede \in Keys \cup {None}
         /\ attempt[r].form \in {"ok", "bad request", "unauthorized"}
<1>1. attempt[r] \in AttemptShape
  BY AttemptAssumption DEF TypeOK
<1>2. QED
  BY <1>1 DEF AttemptShape

(* Every step of a registration either moves it on with no answer yet, or  *)
(* answers it once; the attempt never changes.                             *)
LEMMA RequestShape ==
  ASSUME TypeOK, NEW r \in Requests, RequestStep(r)
  PROVE  \/ \E l \in Location \ {"idle", "done"} : Goto(r, l)
         \/ \E o \in Outcome \ {"none"} : Answer(r, o)
<1>1. CASE Receive(r)
  BY <1>1, AttemptShaped DEF Receive, Location, Outcome
<1>2. CASE ResolveAndroidInputs(r)
  BY <1>2 DEF ResolveAndroidInputs, Location, Outcome
<1>3. CASE LimitRate(r)
  BY <1>3 DEF LimitRate, Location, Outcome
<1>4. CASE BurnChallenge(r)
  BY <1>4 DEF BurnChallenge, Location, Outcome
<1>5. CASE Validate(r)
  BY <1>5 DEF Validate, Location, Outcome
<1>6. CASE IssueLeaf(r)
  BY <1>6 DEF IssueLeaf, Location, Outcome
<1>7. CASE Persist(r)
  BY <1>7 DEF Persist, Location, Outcome
<1>8. CASE IsolateDies(r)
  BY <1>8 DEF IsolateDies, Location, Outcome
<1>9. QED
  BY <1>1, <1>2, <1>3, <1>4, <1>5, <1>6, <1>7, <1>8 DEF RequestStep

LEMMA GotoShape ==
  ASSUME TypeOK, NEW r \in Requests, NEW l \in Location \ {"idle", "done"}, Goto(r, l)
  PROVE  /\ attempt' = attempt /\ outcome' = outcome /\ pc' \in [Requests -> Location]
         /\ pc'[r] = l /\ \A q \in Requests : q # r => pc'[q] = pc[q]
BY DEF TypeOK, Goto

LEMMA AnswerShape ==
  ASSUME TypeOK, NEW r \in Requests, NEW o \in Outcome \ {"none"}, Answer(r, o)
  PROVE  /\ attempt' = attempt
         /\ outcome' \in [Requests -> Outcome] /\ pc' \in [Requests -> Location]
         /\ pc'[r] = "done" /\ outcome'[r] = o
         /\ \A q \in Requests : q # r => pc'[q] = pc[q] /\ outcome'[q] = outcome[q]
BY DEF TypeOK, Answer, Location

(* What is said of a registration's control by any of its own steps.       *)
LEMMA ControlShape ==
  ASSUME TypeOK, NEW r \in Requests, RequestStep(r)
  PROVE  /\ attempt' = attempt /\ pc[r] # "done"
         /\ outcome' \in [Requests -> Outcome] /\ pc' \in [Requests -> Location]
         /\ pc'[r] # "idle"
         /\ pc'[r] # "done" => outcome'[r] = outcome[r]
         /\ \A q \in Requests : q # r => pc'[q] = pc[q] /\ outcome'[q] = outcome[q]
<1>1. pc[r] # "done"
  BY DEF RequestStep, Receive, ResolveAndroidInputs, LimitRate, BurnChallenge, Validate,
         IssueLeaf, Persist, IsolateDies
<1>2. CASE \E l \in Location \ {"idle", "done"} : Goto(r, l)
  BY <1>1, <1>2, GotoShape DEF TypeOK
<1>3. CASE \E o \in Outcome \ {"none"} : Answer(r, o)
  BY <1>1, <1>3, AnswerShape
<1>4. QED
  BY <1>2, <1>3, RequestShape

(* Only the burn and the insert touch the database.                        *)
LEMMA QuietStep ==
  ASSUME NEW r \in Requests, RequestStep(r), ~ BurnChallenge(r), ~ Persist(r)
  PROVE  UNCHANGED <<challengeVars, rowVars, redeemer, enroller>>
BY DEF RequestStep, Receive, ResolveAndroidInputs, LimitRate, Validate, IssueLeaf, IsolateDies,
       historyVars

(* Only the limiter meters, and only issuance has KMS sign.                *)
LEMMA CostShape ==
  ASSUME NEW r \in Requests, RequestStep(r)
  PROVE  /\ IF LimitRate(r)
            THEN metered' = metered \cup {r} ELSE metered' = metered
         /\ \/ signed' = signed
            \/ IssueLeaf(r) /\ signed' = signed \cup {r}
BY DEF RequestStep, Receive, ResolveAndroidInputs, LimitRate, BurnChallenge, Validate, IssueLeaf,
       Persist, IsolateDies, historyVars

(* The burn consumes this request's own challenge or nothing.              *)
LEMMA BurnShape ==
  ASSUME TypeOK, NEW r \in Requests, BurnChallenge(r)
  PROVE  /\ UNCHANGED <<issuedTo, issuedFor, expired, rowVars, enroller>>
         /\ \/ UNCHANGED <<pool, redeemer>>
            \/ LET c == attempt[r].challenge IN
               /\ c \in Challenges /\ pool[c] = "open" /\ issuedTo[c] = attempt[r].user
               /\ pool' = [pool EXCEPT ![c] = "consumed"]
               /\ redeemer' = [redeemer EXCEPT ![c] = r]
BY AttemptShaped DEF BurnChallenge, Redeemable

(* The insert adds this request's own row or nothing.                      *)
LEMMA PersistShape ==
  ASSUME TypeOK, NEW r \in Requests, Persist(r)
  PROVE  /\ UNCHANGED <<challengeVars, redeemer>>
         /\ pc[r] = "persist" /\ pc'[r] = "done"
         /\ \/ UNCHANGED <<rowVars, enroller>> /\ outcome'[r] # "enrolled"
            \/ LET k == attempt[r].key IN
               /\ k \in Keys /\ owner[k] = None
               /\ owner' = [owner EXCEPT ![k] = attempt[r].user]
               /\ enroller' = [enroller EXCEPT ![k] = r]
               /\ superseded' = superseded \cup
                    {q \in {attempt[r].supersede} \cap Keys : owner[q] = attempt[r].user}
BY AttemptShaped DEF Persist, InsertRow, Answer, TypeOK

-----------------------------------------------------------------------------
LEMMA TypeStep ==
  ASSUME TypeOK, [Next]_vars
  PROVE  TypeOK'
<1>1. ASSUME NEW c \in Challenges, ExpireChallenge(c) PROVE TypeOK'
  BY <1>1 DEF TypeOK, ExpireChallenge, rowVars, requestVars, historyVars
<1>2. ASSUME NEW c \in Challenges, NEW u \in Users, IssueChallenge(c, u) PROVE TypeOK'
  BY <1>2 DEF TypeOK, IssueChallenge, rowVars, requestVars, historyVars
<1>3. ASSUME NEW r \in Requests, RequestStep(r) PROVE TypeOK'
  <2>1. /\ attempt' \in [Requests -> Attempts]
        /\ outcome' \in [Requests -> Outcome] /\ pc' \in [Requests -> Location]
        /\ metered' \subseteq Requests /\ signed' \subseteq Requests
    BY <1>3, ControlShape, CostShape DEF TypeOK
  <2>2. CASE BurnChallenge(r)
    BY <2>1, <2>2, BurnShape DEF TypeOK, rowVars
  <2>3. CASE Persist(r)
    <3>1. CASE UNCHANGED <<rowVars, enroller>>
      BY <2>1, <2>3, <3>1, PersistShape DEF TypeOK, rowVars, challengeVars
    <3>2. CASE ~ UNCHANGED <<rowVars, enroller>>
      <4> DEFINE k == attempt[r].key
                 S == {q \in {attempt[r].supersede} \cap Keys : owner[q] = attempt[r].user}
      <4>1. /\ k \in Keys /\ owner[k] = None
            /\ owner' = [owner EXCEPT ![k] = attempt[r].user]
            /\ enroller' = [enroller EXCEPT ![k] = r]
            /\ superseded' = superseded \cup S
            /\ UNCHANGED <<challengeVars, redeemer>>
        BY <2>3, <3>2, PersistShape
      <4>2. attempt[r].user \in Users /\ attempt[r].user # None
        BY AttemptShaped, AttemptAssumption
      <4>3. owner' \in [Keys -> Users \cup {None}] /\ enroller' \in [Keys -> Requests \cup {None}]
        BY <4>1, <4>2 DEF TypeOK
      <4>4. \A q \in superseded \cup S : q \in Keys /\ owner[q] # None
        BY <4>2 DEF TypeOK
      <4>5. superseded' \subseteq {q \in Keys : owner'[q] # None}
        BY <4>1, <4>2, <4>4 DEF TypeOK
      <4>6. QED
        BY <2>1, <4>1, <4>3, <4>5 DEF TypeOK, challengeVars
    <3>3. QED
      BY <3>1, <3>2
  <2>4. CASE ~ BurnChallenge(r) /\ ~ Persist(r)
    BY <1>3, <2>1, <2>4, QuietStep DEF TypeOK, challengeVars, rowVars
  <2>5. QED
    BY <2>2, <2>3, <2>4
<1>4. CASE UNCHANGED vars
  BY <1>4 DEF TypeOK, vars, challengeVars, rowVars, requestVars, historyVars
<1>5. QED
  BY <1>1, <1>2, <1>3, <1>4, NextCases

(* Nothing a registration has achieved is taken back: an answer stays, a   *)
(* consumed challenge stays with its redeemer, a row with its owner.       *)
Kept ==
  /\ attempt' = attempt /\ issuedFor' = issuedFor
  /\ \A r \in Requests : pc[r] = "done" => pc'[r] = "done" /\ outcome'[r] = outcome[r]
  /\ \A c \in Challenges :
       redeemer[c] # None => redeemer'[c] = redeemer[c] /\ issuedTo'[c] = issuedTo[c]
  /\ \A k \in Keys :
       owner[k] # None => owner'[k] = owner[k] /\ enroller'[k] = enroller[k]

LEMMA Monotone ==
  ASSUME TypeOK, RedeemerInv, [Next]_vars
  PROVE  Kept
<1>1. ASSUME NEW c \in Challenges, ExpireChallenge(c) PROVE Kept
  BY <1>1 DEF Kept, ExpireChallenge, rowVars, requestVars, historyVars
<1>2. ASSUME NEW c \in Challenges, NEW u \in Users, IssueChallenge(c, u) PROVE Kept
  BY <1>2 DEF Kept, TypeOK, RedeemerInv, IssueChallenge, rowVars, requestVars, historyVars
<1>3. ASSUME NEW r \in Requests, RequestStep(r) PROVE Kept
  <2>1. /\ attempt' = attempt
        /\ \A q \in Requests : pc[q] = "done" => pc'[q] = "done" /\ outcome'[q] = outcome[q]
    BY <1>3, ControlShape
  <2>2. CASE BurnChallenge(r)
    <3> DEFINE c == attempt[r].challenge
    <3>1. UNCHANGED <<issuedTo, issuedFor, rowVars, enroller>>
      BY <2>2, BurnShape
    <3>2. \A d \in Challenges : redeemer[d] # None => redeemer'[d] = redeemer[d]
      <4>1. CASE UNCHANGED <<pool, redeemer>>
        BY <4>1
      <4>2. CASE c \in Challenges /\ pool[c] = "open" /\ redeemer' = [redeemer EXCEPT ![c] = r]
        BY <4>2 DEF TypeOK, RedeemerInv
      <4>3. QED
        BY <2>2, <4>1, <4>2, BurnShape
    <3>3. QED
      BY <2>1, <3>1, <3>2 DEF Kept, rowVars
  <2>3. CASE Persist(r)
    BY <2>1, <2>3, PersistShape DEF Kept, TypeOK, rowVars, challengeVars
  <2>4. CASE ~ BurnChallenge(r) /\ ~ Persist(r)
    BY <1>3, <2>1, <2>4, QuietStep DEF Kept, challengeVars, rowVars
  <2>5. QED
    BY <2>2, <2>3, <2>4
<1>4. CASE UNCHANGED vars
  BY <1>4 DEF Kept, vars, challengeVars, rowVars, requestVars, historyVars
<1>5. QED
  BY <1>1, <1>2, <1>3, <1>4, NextCases

(* So what a registration redeemed stays redeemed.                         *)
LEMMA RedeemedKept ==
  ASSUME TypeOK, RedeemerInv, [Next]_vars, NEW r \in Requests, RedeemedOwn(r)
  PROVE  RedeemedOwn(r)'
<1>1. r # None /\ attempt[r].challenge \in Challenges
  BY AttemptAssumption, AttemptShaped
<1>2. QED
  BY <1>1, Monotone DEF RedeemedOwn, Kept

(* Reaching a location past the burn takes the step that establishes what  *)
(* is said there.                                                          *)
LEMMA BurnEstablishes ==
  ASSUME TypeOK, NEW r \in Requests, BurnChallenge(r), pc'[r] \in Burned
  PROVE  pc'[r] = "validate" /\ RedeemedOwn(r)'
<1>1. attempt[r].challenge \in Challenges /\ attempt' = attempt
  BY AttemptShaped DEF BurnChallenge, Goto, Answer
<1>2. QED
  BY <1>1 DEF BurnChallenge, Redeemable, Goto, Answer, Burned, RedeemedOwn, TypeOK

LEMMA LaterEstablishes ==
  ASSUME TypeOK, ProgressInv, NEW r \in Requests, RequestStep(r), ~ BurnChallenge(r),
         pc'[r] \in Burned
  PROVE  /\ pc[r] \in Burned
         /\ pc'[r] \in {"issue", "persist"} => CsrHolds(attempt[r]) /\ AttestationHolds(attempt[r])
<1>1. CASE Receive(r) \/ ResolveAndroidInputs(r) \/ LimitRate(r) \/ IsolateDies(r)
  BY <1>1 DEF Receive, ResolveAndroidInputs, LimitRate, IsolateDies, Goto, Answer, Burned, TypeOK
<1>2. CASE Validate(r)
  BY <1>2 DEF Validate, Goto, Answer, Burned, TypeOK
<1>3. CASE IssueLeaf(r)
  BY <1>3 DEF IssueLeaf, Goto, Answer, Burned, TypeOK, ProgressInv
<1>4. CASE Persist(r)
  BY <1>4, PersistShape DEF Burned
<1>5. QED
  BY <1>1, <1>2, <1>3, <1>4 DEF RequestStep

LEMMA ProgressStep ==
  ASSUME TypeOK, RedeemerInv, ProgressInv, [Next]_vars
  PROVE  ProgressInv'
<1> SUFFICES ASSUME NEW q \in Requests
             PROVE  /\ pc'[q] # "done" => outcome'[q] = "none"
                    /\ pc'[q] \in Burned => RedeemedOwn(q)'
                    /\ pc'[q] \in {"issue", "persist"} =>
                         CsrHolds(attempt'[q]) /\ AttestationHolds(attempt'[q])
  BY DEF ProgressInv, CsrHolds, AttestationHolds, Burned
<1>1. attempt' = attempt
  BY Monotone DEF Kept
<1>2. CASE pc'[q] = pc[q] /\ outcome'[q] = outcome[q]
  BY <1>1, <1>2, RedeemedKept DEF ProgressInv
<1>3. ASSUME RequestStep(q)
      PROVE  /\ pc'[q] # "done" => outcome'[q] = "none"
             /\ pc'[q] \in Burned => RedeemedOwn(q)'
             /\ pc'[q] \in {"issue", "persist"} =>
                  CsrHolds(attempt'[q]) /\ AttestationHolds(attempt'[q])
  <2>1. pc'[q] # "done" => outcome'[q] = "none"
    BY <1>3, ControlShape DEF ProgressInv
  <2>2. CASE BurnChallenge(q)
    BY <2>1, <2>2, BurnEstablishes DEF Burned
  <2>3. CASE ~ BurnChallenge(q)
    BY <1>1, <1>3, <2>1, <2>3, LaterEstablishes, RedeemedKept DEF ProgressInv, Burned
  <2>4. QED
    BY <2>2, <2>3
<1>4. CASE \E r \in Requests : RequestStep(r)
  BY <1>2, <1>3, <1>4, ControlShape
<1>5. CASE UNCHANGED requestVars
  BY <1>2, <1>5 DEF requestVars
<1>6. QED
  BY <1>4, <1>5, NextCases DEF IssueChallenge, ExpireChallenge, vars

(* Who redeemed what.                                                      *)
LEMMA RedeemerStep ==
  ASSUME TypeOK, RedeemerInv, ProgressInv, [Next]_vars
  PROVE  RedeemerInv'
<1> SUFFICES ASSUME NEW c \in Challenges, redeemer'[c] # None
             PROVE  /\ pool'[c] = "consumed"
                    /\ attempt'[redeemer'[c]].challenge = c
                    /\ pc'[redeemer'[c]] \in Burned \cup {"done"}
                    /\ outcome'[redeemer'[c]] \notin FoundEarly \cup {"rate limited"}
  BY DEF RedeemerInv
<1> DEFINE r == redeemer[c]
<1>1. attempt' = attempt
  BY Monotone DEF Kept
<1>2. CASE redeemer[c] # None
  <2>1. redeemer'[c] = r /\ r \in Requests
    BY <1>2, Monotone DEF Kept, TypeOK
  <2>2. /\ pool[c] = "consumed" /\ attempt[r].challenge = c /\ pc[r] \in Burned \cup {"done"}
        /\ outcome[r] \notin FoundEarly \cup {"rate limited"}
    BY <1>2 DEF RedeemerInv
  <2>3. pool'[c] = "consumed"
    <3>1. ASSUME NEW d \in Challenges, ExpireChallenge(d) PROVE pool'[c] = "consumed"
      BY <2>2, <3>1 DEF ExpireChallenge
    <3>2. ASSUME NEW d \in Challenges, NEW u \in Users, IssueChallenge(d, u)
          PROVE pool'[c] = "consumed"
      BY <2>2, <3>2 DEF IssueChallenge, TypeOK
    <3>3. ASSUME NEW q \in Requests, RequestStep(q) PROVE pool'[c] = "consumed"
      BY <2>2, <3>3, BurnShape, PersistShape, QuietStep DEF TypeOK, challengeVars
    <3>4. CASE UNCHANGED vars
      BY <2>2, <3>4 DEF vars, challengeVars
    <3>5. QED
      BY <3>1, <3>2, <3>3, <3>4, NextCases
  <2>4. /\ pc'[r] \in Burned \cup {"done"}
        /\ outcome'[r] \notin FoundEarly \cup {"rate limited"}
    <3>1. CASE pc'[r] = pc[r] /\ outcome'[r] = outcome[r]
      BY <2>2, <3>1
    <3>2. ASSUME RequestStep(r)
          PROVE  /\ pc'[r] \in Burned \cup {"done"}
                 /\ outcome'[r] \notin FoundEarly \cup {"rate limited"}
      <4>1. pc[r] \in Burned
        BY <2>1, <2>2, <3>2, ControlShape
      <4>2. Validate(r) \/ IssueLeaf(r) \/ Persist(r) \/ IsolateDies(r)
        BY <3>2, <4>1 DEF RequestStep, Burned, Receive, ResolveAndroidInputs, LimitRate, BurnChallenge
      <4>3. outcome[r] = "none"
        BY <2>1, <4>1 DEF ProgressInv, Burned
      <4>4. QED
        BY <2>1, <4>2, <4>3
           DEF Validate, IssueLeaf, Persist, IsolateDies, Goto, Answer, Burned, TypeOK, FoundEarly
    <3>3. CASE \E q \in Requests : RequestStep(q)
      BY <2>1, <3>1, <3>2, <3>3, ControlShape
    <3>4. CASE UNCHANGED requestVars
      BY <3>1, <3>4 DEF requestVars
    <3>5. QED
      BY <3>3, <3>4, NextCases DEF IssueChallenge, ExpireChallenge, vars
  <2>5. QED
    BY <1>1, <2>1, <2>2, <2>3, <2>4
<1>3. CASE redeemer[c] = None
  <2>1. PICK q \in Requests : BurnChallenge(q)
    <3>1. ASSUME \A q \in Requests : ~ BurnChallenge(q) PROVE redeemer' = redeemer
      <4>1. \A q \in Requests : RequestStep(q) => redeemer' = redeemer
        BY <3>1, PersistShape, QuietStep
      <4>2. QED
        BY <4>1, NextCases DEF IssueChallenge, ExpireChallenge, vars, historyVars
    <3>2. QED
      BY <1>3, <3>1
  <2>2. /\ c = attempt[q].challenge /\ redeemer'[c] = q /\ pool'[c] = "consumed"
    BY <1>3, <2>1, BurnShape DEF TypeOK
  <2>3. outcome[q] = "none"
    BY <2>1 DEF ProgressInv, BurnChallenge
  <2>4. /\ pc'[q] \in Burned \cup {"done"}
        /\ outcome'[q] \notin FoundEarly \cup {"rate limited"}
    BY <2>1, <2>3 DEF BurnChallenge, Goto, Answer, Burned, TypeOK, FoundEarly
  <2>5. QED
    BY <1>1, <2>2, <2>4
<1>4. QED
  BY <1>2, <1>3

(* Only an insert touches rows.                                            *)
LEMMA RowsFixed ==
  ASSUME TypeOK, [Next]_vars, \A r \in Requests : ~ Persist(r)
  PROVE  UNCHANGED <<rowVars, enroller>>
<1>1. \A r \in Requests : RequestStep(r) => UNCHANGED <<rowVars, enroller>>
  BY BurnShape, QuietStep
<1>2. QED
  BY <1>1, NextCases DEF IssueChallenge, ExpireChallenge, vars, historyVars

(* Whose each row is.                                                      *)
RowOf(k, r) ==
  /\ r \in Requests /\ pc[r] = "done"
  /\ attempt[r].key = k /\ attempt[r].user = owner[k]
  /\ RedeemedOwn(r) /\ CsrHolds(attempt[r]) /\ AttestationHolds(attempt[r])

RowAt(k) ==
  /\ owner[k] = None => enroller[k] = None
  /\ owner[k] # None => RowOf(k, enroller[k])

LEMMA RowStep ==
  ASSUME TypeOK, RedeemerInv, ProgressInv, RowInv, [Next]_vars
  PROVE  RowInv'
<1>0. \A k \in Keys : RowAt(k)
  BY DEF RowInv, RowAt, RowOf
<1>1. ASSUME NEW k \in Keys, owner[k] # None PROVE RowAt(k)'
  <2>1. PICK r \in Requests : r = enroller[k] /\ RowOf(k, r)
    BY <1>0, <1>1 DEF RowAt, RowOf
  <2>2. owner'[k] = owner[k] /\ enroller'[k] = r /\ attempt' = attempt
    BY <1>1, <2>1, Monotone DEF Kept
  <2>3. pc'[r] = "done"
    BY <2>1, Monotone DEF RowOf, Kept
  <2>4. RedeemedOwn(r)'
    BY <2>1, RedeemedKept DEF RowOf
  <2>5. QED
    BY <1>1, <2>1, <2>2, <2>3, <2>4 DEF RowAt, RowOf, RedeemedOwn, CsrHolds, AttestationHolds
<1>2. ASSUME NEW k \in Keys, owner[k] = None, owner'[k] = None PROVE RowAt(k)'
  <2>1. CASE \A r \in Requests : ~ Persist(r)
    BY <1>0, <1>2, <2>1, RowsFixed DEF RowAt, rowVars
  <2>2. ASSUME NEW r \in Requests, Persist(r) PROVE enroller'[k] = None
    <3>1. attempt[r].user # None
      BY AttemptShaped, AttemptAssumption
    <3>2. QED
      BY <1>0, <1>2, <2>2, <3>1, PersistShape DEF TypeOK, RowAt, rowVars
  <2>3. QED
    BY <1>2, <2>1, <2>2 DEF RowAt
<1>3. ASSUME NEW k \in Keys, owner[k] = None, owner'[k] # None PROVE RowAt(k)'
  <2>1. PICK r \in Requests : Persist(r)
    BY <1>3, RowsFixed DEF rowVars
  <2>2. /\ k = attempt[r].key /\ enroller'[k] = r /\ owner'[k] = attempt[r].user
        /\ pc[r] = "persist" /\ pc'[r] = "done"
    BY <1>3, <2>1, PersistShape DEF TypeOK, rowVars
  <2>3. RedeemedOwn(r) /\ CsrHolds(attempt[r]) /\ AttestationHolds(attempt[r])
    BY <2>2 DEF ProgressInv, Burned
  <2>4. RedeemedOwn(r)'
    BY <2>3, RedeemedKept
  <2>5. attempt' = attempt
    BY Monotone DEF Kept
  <2>6. QED
    BY <1>3, <2>2, <2>3, <2>4, <2>5 DEF RowAt, RowOf, RedeemedOwn, CsrHolds, AttestationHolds
<1>4. \A k \in Keys : RowAt(k)'
  BY <1>1, <1>2, <1>3
<1>5. QED
  BY <1>4 DEF RowInv, RowAt, RowOf

(* An answered leaf keeps its row.                                         *)
LEMMA LeafStep ==
  ASSUME TypeOK, RedeemerInv, ProgressInv, LeafHasRow, [Next]_vars
  PROVE  LeafHasRow'
<1> SUFFICES ASSUME NEW r \in Requests, outcome'[r] = "enrolled"
             PROVE  /\ enroller'[attempt'[r].key] = r
                    /\ owner'[attempt'[r].key] = attempt'[r].user
  BY DEF LeafHasRow
<1>1. attempt' = attempt /\ attempt[r].key \in Keys /\ attempt[r].user # None
  BY Monotone, AttemptShaped, AttemptAssumption DEF Kept
<1>2. CASE outcome[r] = "enrolled"
  BY <1>1, <1>2, Monotone DEF LeafHasRow, Kept
<1>3. CASE outcome[r] # "enrolled"
  <2>1. Persist(r)
    <3>1. ASSUME NEW q \in Requests, RequestStep(q) PROVE q = r
      BY <1>3, <3>1, ControlShape
    <3>2. RequestStep(r)
      BY <1>3, <3>1, NextCases
         DEF IssueChallenge, ExpireChallenge, vars, requestVars
    <3>3. outcome'[r] = "enrolled" /\ outcome[r] # "enrolled"
      BY <1>3
    <3>4. ~ Receive(r)
      BY <3>3, AttemptShaped DEF Receive, Goto, Answer, TypeOK
    <3>5. QED
      BY <3>2, <3>3, <3>4
         DEF RequestStep, ResolveAndroidInputs, LimitRate, BurnChallenge, Validate,
             IssueLeaf, IsolateDies, Goto, Answer, TypeOK
  <2>2. QED
    BY <1>1, <1>3, <2>1, PersistShape DEF TypeOK
<1>4. QED
  BY <1>2, <1>3

(* What a registration has been charged for, and what KMS signed for it.   *)
CostAt(r) ==
  /\ pc[r] \in {"idle", "inputs", "limit"} \/ outcome[r] \in FoundEarly => r \notin metered
  /\ pc[r] \in {"burn"} \cup Burned \/ outcome[r] = "issuance failed" => r \in metered
  /\ outcome[r] = "issuance failed" \/ r \in signed =>
       RedeemedOwn(r) /\ CsrHolds(attempt[r]) /\ AttestationHolds(attempt[r])

(* Nobody else's step charges it or signs for it.                          *)
LEMMA CostElsewhere ==
  ASSUME TypeOK, RedeemerInv, [Next]_vars, NEW q \in Requests, CostAt(q), ~ RequestStep(q)
  PROVE  CostAt(q)'
<1>1. attempt' = attempt
  BY Monotone DEF Kept
<1>2. /\ pc'[q] = pc[q] /\ outcome'[q] = outcome[q]
      /\ (q \in metered') = (q \in metered) /\ (q \in signed') = (q \in signed)
  <2>1. ASSUME NEW r \in Requests, RequestStep(r)
        PROVE  /\ pc'[q] = pc[q] /\ outcome'[q] = outcome[q]
               /\ (q \in metered') = (q \in metered) /\ (q \in signed') = (q \in signed)
    BY <2>1, ControlShape, CostShape
  <2>2. QED
    BY <2>1, NextCases DEF IssueChallenge, ExpireChallenge, vars, requestVars, historyVars
<1>3. RedeemedOwn(q) => RedeemedOwn(q)'
  BY RedeemedKept
<1>4. QED
  BY <1>1, <1>2, <1>3 DEF CostAt, CsrHolds, AttestationHolds

(* Its own step meters it at the limiter and signs past every check.       *)
LEMMA CostOwn ==
  ASSUME TypeOK, RedeemerInv, ProgressInv, [Next]_vars, NEW q \in Requests, CostAt(q), RequestStep(q)
  PROVE  CostAt(q)'
<1>1. attempt' = attempt /\ outcome[q] = "none" /\ pc[q] # "done"
  BY ControlShape DEF ProgressInv
<1>2. RedeemedOwn(q) => RedeemedOwn(q)'
  BY RedeemedKept
<1>3. CASE IssueLeaf(q)
  <2>1. /\ pc[q] = "issue" /\ RedeemedOwn(q)
        /\ CsrHolds(attempt[q]) /\ AttestationHolds(attempt[q]) /\ q \in metered
    BY <1>3 DEF IssueLeaf, ProgressInv, Burned, CostAt
  <2>2. /\ pc'[q] \in {"persist", "done"} /\ outcome'[q] \in {"none", "issuance failed"}
        /\ metered' = metered
    BY <1>1, <1>3 DEF IssueLeaf, Goto, Answer, TypeOK
  <2>3. QED
    BY <1>1, <1>2, <2>1, <2>2 DEF CostAt, CsrHolds, AttestationHolds, FoundEarly
<1>4. CASE LimitRate(q)
  <2>1. /\ pc'[q] \in {"burn", "done"} /\ outcome'[q] \in {"none", "rate limited", "server error"}
        /\ metered' = metered \cup {q} /\ signed' = signed
    BY <1>1, <1>4 DEF LimitRate, Goto, Answer, TypeOK
  <2>2. QED
    BY <1>1, <1>2, <2>1 DEF CostAt, CsrHolds, AttestationHolds, FoundEarly
<1>5. CASE ~ IssueLeaf(q) /\ ~ LimitRate(q)
  <2>1. metered' = metered /\ signed' = signed
    BY <1>5, CostShape
  <2>2. /\ pc'[q] \in {"inputs", "limit"} \/ outcome'[q] \in FoundEarly =>
             pc[q] \in {"idle", "inputs"}
        /\ pc'[q] \in {"burn"} \cup Burned => pc[q] \in {"burn"} \cup Burned
        /\ pc'[q] # "idle" /\ outcome'[q] # "issuance failed"
    <3>1. CASE Receive(q)
      BY <1>1, <3>1, AttemptShaped DEF Receive, Goto, Answer, TypeOK, FoundEarly, Burned
    <3>2. CASE ResolveAndroidInputs(q)
      BY <1>1, <3>2 DEF ResolveAndroidInputs, Goto, Answer, TypeOK, FoundEarly, Burned
    <3>3. CASE BurnChallenge(q)
      BY <1>1, <3>3 DEF BurnChallenge, Goto, Answer, TypeOK, FoundEarly, Burned
    <3>4. CASE Validate(q) \/ Persist(q) \/ IsolateDies(q)
      BY <1>1, <3>4 DEF Validate, Persist, IsolateDies, Goto, Answer, TypeOK, FoundEarly, Burned
    <3>5. QED
      BY <1>5, <3>1, <3>2, <3>3, <3>4 DEF RequestStep
  <2>3. QED
    BY <1>1, <1>2, <2>1, <2>2 DEF CostAt, CsrHolds, AttestationHolds
<1>6. QED
  BY <1>3, <1>4, <1>5

LEMMA CostStep ==
  ASSUME TypeOK, RedeemerInv, ProgressInv, CostInv, [Next]_vars
  PROVE  CostInv'
<1>1. \A q \in Requests : CostAt(q)
  BY DEF CostInv, CostAt
<1>2. \A q \in Requests : CostAt(q)'
  BY <1>1, CostElsewhere, CostOwn
<1>3. QED
  BY <1>2 DEF CostInv, CostAt

-----------------------------------------------------------------------------
LEMMA InvInit == Init => EnrollInv
BY AttemptAssumption
   DEF Init, EnrollInv, TypeOK, RedeemerInv, ProgressInv, RowInv, LeafHasRow, CostInv,
       Location, Outcome, Burned, FoundEarly

LEMMA InvStep == EnrollInv /\ [Next]_vars => EnrollInv'
<1> SUFFICES ASSUME EnrollInv, [Next]_vars PROVE EnrollInv'
  OBVIOUS
<1> USE DEF EnrollInv
<1>1. TypeOK' /\ RedeemerInv' /\ ProgressInv'
  BY TypeStep, RedeemerStep, ProgressStep
<1>2. RowInv' /\ LeafHasRow' /\ CostInv'
  BY RowStep, LeafStep, CostStep
<1>3. QED
  BY <1>1, <1>2

LEMMA InvariantHolds == Spec => []EnrollInv
BY InvInit, InvStep, PTL DEF Spec

(* Every variable keeps its type.                                          *)
THEOREM TypeCorrect == Spec => []TypeOK
BY InvariantHolds, PTL DEF EnrollInv

(* Two rows that were enrolled over one challenge are the same row: each   *)
(* was inserted by the registration that redeemed it, and a registration   *)
(* names one key.                                                          *)
THEOREM ChallengeEnrollsOnceHolds == Spec => []ChallengeEnrollsOnce
<1>1. EnrollInv => ChallengeEnrollsOnce
  BY DEF EnrollInv, RowInv, RedeemedOwn, ChallengeEnrollsOnce
<1>2. QED
  BY <1>1, InvariantHolds, PTL

(* A client that holds a leaf has the row it is looked up by.              *)
THEOREM LeafHasRowHolds == Spec => []LeafHasRow
BY InvariantHolds, PTL DEF EnrollInv

(* Every row's key was attested over the challenge its own registration    *)
(* redeemed, which was issued to that user for that version.               *)
THEOREM RowIsAttestedHolds == Spec => []RowIsAttested
<1>1. EnrollInv => RowIsAttested
  BY DEF EnrollInv, RowInv, RedeemedOwn, RowIsAttested, CsrHolds, AttestationHolds
<1>2. QED
  BY <1>1, InvariantHolds, PTL

(* Whatever is lost afterwards, KMS signed only for a registration that    *)
(* redeemed its own challenge and attested its own key.                    *)
THEOREM SignedLeafIsEarnedHolds == Spec => []SignedLeafIsEarned
<1>1. EnrollInv => SignedLeafIsEarned
  BY DEF EnrollInv, TypeOK, CostInv, RedeemedOwn, SignedLeafIsEarned, CsrHolds, AttestationHolds
<1>2. QED
  BY <1>1, InvariantHolds, PTL

(* Which of the server's own faults are free, and which cost the client    *)
(* both its slot and its challenge.                                        *)
THEOREM FaultCostHolds == Spec => []FaultCost
<1>1. EnrollInv => FaultCost
  <2> SUFFICES ASSUME EnrollInv, NEW r \in Requests
               PROVE  /\ outcome[r] \in FoundEarly => r \notin metered
                      /\ outcome[r] \in FoundEarly \cup {"rate limited"} =>
                           \A c \in Challenges : redeemer[c] # r
                      /\ outcome[r] = "issuance failed" =>
                           r \in metered /\ redeemer[attempt[r].challenge] = r
    BY DEF FaultCost
  <2>1. r # None
    BY AttemptAssumption
  <2>2. outcome[r] \in FoundEarly \cup {"rate limited"} => \A c \in Challenges : redeemer[c] # r
    BY <2>1 DEF EnrollInv, RedeemerInv
  <2>3. QED
    BY <2>2 DEF EnrollInv, CostInv, RedeemedOwn
<1>2. QED
  BY <1>1, InvariantHolds, PTL
-----------------------------------------------------------------------------
(* Refinement.  A registration that goes on stands as it did.               *)
LEMMA StandingGoto ==
  ASSUME TypeOK, NEW r \in Requests, pc[r] # "done", NEW l, l # "done", Goto(r, l)
  PROVE  UNCHANGED <<claim, standing>>
BY DEF TypeOK, Goto, claim, standing

(* One that answers is decided.                                             *)
LEMMA StandingAnswer ==
  ASSUME TypeOK, NEW r \in Requests, pc[r] # "done", NEW o, Answer(r, o)
  PROVE  /\ UNCHANGED claim /\ standing[r] = "open"
         /\ standing' = [standing EXCEPT ![r] = IF o = "enrolled" THEN "accepted" ELSE "refused"]
<1>1. UNCHANGED claim /\ standing[r] = "open"
  BY DEF Answer, claim, standing
<1>2. /\ pc'[r] = "done" /\ outcome'[r] = o
      /\ \A q \in Requests : q # r => pc'[q] = pc[q] /\ outcome'[q] = outcome[q]
  BY DEF TypeOK, Answer
<1>3. QED
  BY <1>1, <1>2 DEF standing

(* The steps before and between the burn and the insert, and a death.       *)
Between(r) ==
  \/ Receive(r) \/ ResolveAndroidInputs(r) \/ LimitRate(r)
  \/ Validate(r) \/ IssueLeaf(r) \/ IsolateDies(r)

LEMMA BetweenShape ==
  ASSUME TypeOK, NEW r \in Requests, Between(r)
  PROVE  /\ pc[r] # "done" /\ redeemer' = redeemer
         /\ \/ \E l \in Location \ {"done"} : Goto(r, l)
            \/ \E o \in Outcome \ {"enrolled"} : Answer(r, o)
<1> USE DEF Location, Outcome, historyVars
<1>1. CASE Receive(r)
  <2>1. attempt[r].form # "ok" /\ Answer(r, attempt[r].form) =>
          \E o \in Outcome \ {"enrolled"} : Answer(r, o)
    BY AttemptShaped
  <2>2. QED
    BY <1>1, <2>1 DEF Receive
<1>2. QED
  BY <1>1 DEF Between, ResolveAndroidInputs, LimitRate, Validate, IssueLeaf, IsolateDies

LEMMA RefinesInit ==
  ASSUME Init
  PROVE  Abstract!Init
<1>1. TypeOK
  BY InvInit DEF EnrollInv
<1>2. claim \in [Requests -> Challenges \cup {None}]
  BY <1>1, AttemptShaped DEF claim
<1>3. QED
  BY <1>2 DEF Init, standing, Abstract!Init

LEMMA RefinesStep ==
  ASSUME EnrollInv, [Next]_vars
  PROVE  [Abstract!Next]_<<redeemer, claim, standing>>
<1>1. TypeOK
  BY DEF EnrollInv
<1>2. ASSUME NEW r \in Requests, NEW o \in Outcome \ {"enrolled"}, Answer(r, o),
             pc[r] # "done", redeemer' = redeemer
      PROVE  Abstract!Next
  <2>1. Abstract!Refuse(r)
    BY <1>1, <1>2, StandingAnswer DEF Abstract!Refuse
  <2>2. QED
    BY <2>1 DEF Abstract!Next
<1>3. ASSUME NEW r \in Requests, Between(r)
      PROVE  Abstract!Next \/ UNCHANGED <<redeemer, claim, standing>>
  BY <1>1, <1>2, <1>3, BetweenShape, StandingGoto
<1>4. ASSUME NEW r \in Requests, BurnChallenge(r) PROVE Abstract!Next
  <2> DEFINE a == attempt[r]
             c == attempt[r].challenge
  <2>1. pc[r] = "burn" /\ c \in Challenges /\ claim[r] = c
    BY <1>1, <1>4, AttemptShaped DEF BurnChallenge, claim
  <2>2. CASE /\ Redeemable(c, a.user)
             /\ redeemer' = [redeemer EXCEPT ![c] = r]
             /\ Goto(r, "validate") \/ Answer(r, "version mismatch") \/ Answer(r, "server error")
    <3>1. redeemer[c] = None
      BY <2>1, <2>2 DEF Redeemable, EnrollInv, RedeemerInv
    <3>2. /\ UNCHANGED claim /\ standing[r] = "open"
          /\ standing' \in {standing, [standing EXCEPT ![r] = "refused"]}
      <4>1. CASE Goto(r, "validate")
        BY <1>1, <2>1, <4>1, StandingGoto DEF standing
      <4>2. ASSUME NEW o \in {"version mismatch", "server error"}, Answer(r, o)
            PROVE  /\ UNCHANGED claim /\ standing[r] = "open"
                   /\ standing' = [standing EXCEPT ![r] = "refused"]
        BY <1>1, <2>1, <4>2, StandingAnswer
      <4>3. QED
        BY <2>2, <4>1, <4>2
    <3>3. Abstract!Take(r)
      BY <2>1, <2>2, <3>1, <3>2 DEF Abstract!Take
    <3>4. QED
      BY <3>3 DEF Abstract!Next
  <2>3. CASE Answer(r, "challenge unavailable") /\ UNCHANGED redeemer
    BY <1>2, <2>1, <2>3 DEF Outcome
  <2>4. CASE Answer(r, "server error") /\ UNCHANGED redeemer
    BY <1>2, <2>1, <2>4 DEF Outcome
  <2>5. QED
    BY <1>4, <2>2, <2>3, <2>4 DEF BurnChallenge
<1>5. ASSUME NEW r \in Requests, Persist(r) PROVE Abstract!Next
  <2>1. pc[r] = "persist" /\ redeemer' = redeemer
    BY <1>5 DEF Persist
  <2>2. CASE Answer(r, "enrolled")
    <3>1. claim[r] \in Challenges /\ redeemer[claim[r]] = r
      BY <1>1, <2>1, AttemptShaped DEF claim, EnrollInv, ProgressInv, Burned, RedeemedOwn
    <3>2. Abstract!Accept(r)
      BY <1>1, <2>1, <2>2, <3>1, StandingAnswer DEF Abstract!Accept
    <3>3. QED
      BY <3>2 DEF Abstract!Next
  <2>3. CASE Answer(r, "server error") \/ Answer(r, "already registered")
    BY <1>2, <2>1, <2>3 DEF Outcome
  <2>4. QED
    BY <1>5, <2>2, <2>3 DEF Persist
<1>6. ASSUME NEW c \in Challenges,
             ExpireChallenge(c) \/ \E u \in Users : IssueChallenge(c, u)
      PROVE  UNCHANGED <<redeemer, claim, standing>>
  BY <1>6 DEF ExpireChallenge, IssueChallenge, requestVars, historyVars, claim, standing
<1>7. CASE UNCHANGED vars
  BY <1>7 DEF vars, requestVars, historyVars, claim, standing
<1>8. QED
  BY <1>3, <1>4, <1>5, <1>6, <1>7, NextCases DEF RequestStep, Between

(* However many registrations redeem a challenge, die or lose their replies, *)
(* enrollment implements exclusive single-use tokens.                       *)
THEOREM Refinement == Spec => ImplementsSingleUse
<1>1. Init => Abstract!Init
  BY RefinesInit
<1>2. EnrollInv /\ [Next]_vars => [Abstract!Next]_(Abstract!vars)
  BY RefinesStep DEF Abstract!vars
<1>3. QED
  BY <1>1, <1>2, InvariantHolds, PTL DEF Spec, ImplementsSingleUse, Abstract!Spec
=============================================================================
