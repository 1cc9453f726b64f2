------------------------- MODULE SingleUseAcceptance -------------------------
(***************************************************************************)
(* What the verifier and enrollment promise of their single-use values,    *)
(* without their pipelines: a request presents at most one token, taking a *)
(* token is exclusive and permanent, and only the request that took its    *)
(* token may be accepted. A refused request may or may not have taken its  *)
(* token.                                                                  *)
(***************************************************************************)
CONSTANTS Requests, Tokens,
          NoToken,       \* presented by an upload that carries none (not in Tokens)
          NoOne,         \* holder of a token nobody took (not in Requests)
          TokenRequired  \* nothing is accepted without a token

VARIABLES holder,   \* the request that took each token
          claim,    \* the token each request presents
          outcome   \* "open", "accepted" or "refused"

vars == <<holder, claim, outcome>>

Init ==
  /\ holder = [t \in Tokens |-> NoOne]
  /\ claim \in [Requests -> Tokens \cup {NoToken}]
  /\ outcome = [r \in Requests |-> "open"]

(* Taking the token; the same step may lose the request (a commit whose    *)
(* reply never arrives).                                                   *)
Take(r) ==
  /\ outcome[r] = "open"
  /\ claim[r] \in Tokens
  /\ holder[claim[r]] = NoOne
  /\ holder' = [holder EXCEPT ![claim[r]] = r]
  /\ outcome' \in {outcome, [outcome EXCEPT ![r] = "refused"]}
  /\ UNCHANGED claim

Accept(r) ==
  /\ outcome[r] = "open"
  /\ IF claim[r] \in Tokens THEN holder[claim[r]] = r ELSE ~TokenRequired
  /\ outcome' = [outcome EXCEPT ![r] = "accepted"]
  /\ UNCHANGED <<holder, claim>>

Refuse(r) ==
  /\ outcome[r] = "open"
  /\ outcome' = [outcome EXCEPT ![r] = "refused"]
  /\ UNCHANGED <<holder, claim>>

Next == \E r \in Requests : Take(r) \/ Accept(r) \/ Refuse(r)

Spec == Init /\ [][Next]_vars
=============================================================================
