---------------------------- MODULE SigningLedger ----------------------------
(***************************************************************************)
(* The database that the CA functions and the verifier share, as the code  *)
(* under ca/ and verifier/src/db.ts uses it.  Its SQL is in the app's own  *)
(* repository, so this module is an external component: each operator is   *)
(* one atomic RPC or UPDATE with the effect its callers rely on.           *)
(*                                                                         *)
(*   user_signing_keys      the operational row of an enrolled key, gone   *)
(*                          with its owner's account                       *)
(*   issued_certificates    the ledger row of the same key's leaf, which   *)
(*                          survives account deletion and carries          *)
(*                          revoked_at (a trigger mirrors it there)        *)
(*   attestation_challenges one row per (key_id, nonce), consumed once     *)
(***************************************************************************)
CONSTANTS Keys,    \* enrolled signing keys; one leaf serial per key
          Users,   \* accounts
          Owner,   \* the account each key was enrolled by
          Nonces   \* nonces the mint RPC draws (unique per key)

ASSUME OwnerAssumption == Owner \in [Keys -> Users]

VARIABLES registry,   \* keys with a user_signing_keys row
          issued,     \* keys with an issued_certificates row
          revoked,    \* keys whose ledger row has revoked_at set
          challenge   \* state of each attestation_challenges row

ledgerVars == <<registry, issued, revoked, challenge>>

Tokens == Keys \X Nonces
ChallengeState == {"absent", "open", "consumed"}

LedgerTypeOK ==
  /\ registry \subseteq issued
  /\ revoked \subseteq issued
  /\ issued \subseteq Keys
  /\ challenge \in [Tokens -> ChallengeState]

LedgerInit ==
  /\ registry = {}
  /\ issued = {}
  /\ revoked = {}
  /\ challenge = [t \in Tokens |-> "absent"]

(* Variants a bug could give the lookup: an inner join that loses a revoked *)
(* row with its account, and a ledger-only lookup that forgets deletion.    *)
LookupRow_InnerJoin(k) ==
  IF k \notin registry THEN "none" ELSE IF k \in revoked THEN "revoked" ELSE "live"

LookupRow_LedgerOnly(k) ==
  IF k \in revoked THEN "revoked" ELSE IF k \in issued THEN "live" ELSE "none"

(* lookup_signing_key_revocation: the ledger row joined with the           *)
(* operational row.  A row whose operational half is gone is returned only *)
(* when it is revoked.                                                     *)
LookupRow(k) ==
  IF k \in revoked THEN "revoked" ELSE IF k \in registry THEN "live" ELSE "none"

(* register_user_signing_key writes both rows in one transaction. *)
EnrollKey(k) ==
  /\ k \notin issued
  /\ issued' = issued \cup {k}
  /\ registry' = registry \cup {k}
  /\ UNCHANGED <<revoked, challenge>>

(* revoke-signing-key: the UPDATE matches only an operational row whose    *)
(* revoked_at is still null, so a revocation is never stamped twice.       *)
RevokeKey(k) ==
  /\ k \in registry \ revoked
  /\ revoked' = revoked \cup {k}
  /\ UNCHANGED <<registry, issued, challenge>>

(* A deletion that cascades to the ledger. *)
DeleteAccount_Cascade(u) ==
  /\ \E k \in registry : Owner[k] = u
  /\ registry' = {k \in registry : Owner[k] # u}
  /\ issued' = {k \in issued : Owner[k] # u}
  /\ UNCHANGED <<revoked, challenge>>

(* Account deletion removes the operational rows.  The challenge rows stay *)
(* in this model; deleting them too could only turn a burn into a refusal. *)
DeleteAccount(u) ==
  /\ \E k \in registry : Owner[k] = u
  /\ registry' = {k \in registry : Owner[k] # u}
  /\ UNCHANGED <<issued, revoked, challenge>>

(* mint-attestation-challenges: the RPC raises 42501 unless the caller     *)
(* owns the key's operational row and it is not revoked.                   *)
MintChallenge(k, n) ==
  /\ LookupRow(k) = "live"
  /\ challenge[<<k, n>>] = "absent"
  /\ challenge' = [challenge EXCEPT ![<<k, n>>] = "open"]
  /\ UNCHANGED <<registry, issued, revoked>>

(* The UPDATE without its consumed_at condition. *)
BurnWins_Unconditional(t) ==
  /\ challenge[t] # "absent"
  /\ challenge' = [challenge EXCEPT ![t] = "consumed"]
  /\ UNCHANGED <<registry, issued, revoked>>

(* consume_and_record_attestation: UPDATE ... WHERE consumed_at IS NULL.   *)
(* Its two outcomes: this caller wins the row, or no such row is open      *)
(* (attestation_challenge_unavailable).                                    *)
BurnWins(t) ==
  /\ challenge[t] = "open"
  /\ challenge' = [challenge EXCEPT ![t] = "consumed"]
  /\ UNCHANGED <<registry, issued, revoked>>

BurnLoses(t) ==
  /\ challenge[t] # "open"
  /\ UNCHANGED ledgerVars
=============================================================================
