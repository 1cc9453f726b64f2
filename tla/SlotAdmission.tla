---------------------------- MODULE SlotAdmission ----------------------------
(***************************************************************************)
(* What a rate limiter promises, without its reads, retries and races: a   *)
(* call needs one slot of each of several counters, a counter has only so  *)
(* many, a slot is taken in one step that cannot be lost to another call,  *)
(* and a call is admitted in the step that takes its last one.  A call     *)
(* that is turned away on the way keeps the slots it took.                 *)
(***************************************************************************)
EXTENDS Integers

CONSTANTS Calls,
          Counters,
          Limit,  \* slots of each counter
          Needs   \* the sets of counters a call may need

VARIABLES left,     \* slots left of each counter
          holders,  \* the calls that took one
          needs,    \* the counters each call needs, once it has begun
          standing  \* how each call stands

vars == <<left, holders, needs, standing>>

Init ==
  /\ left = Limit
  /\ holders = [k \in Counters |-> {}]
  /\ needs = [c \in Calls |-> {}]
  /\ standing = [c \in Calls |-> "idle"]

Begin(c) ==
  /\ standing[c] = "idle"
  /\ \E n \in Needs : needs' = [needs EXCEPT ![c] = n]
  /\ standing' = [standing EXCEPT ![c] = "open"]
  /\ UNCHANGED <<left, holders>>

(* No counters to be had: the call goes ahead uncounted. *)
FailOpen(c) ==
  /\ standing[c] = "idle"
  /\ standing' = [standing EXCEPT ![c] = "unthrottled"]
  /\ UNCHANGED <<left, holders, needs>>

Take(c, k) ==
  /\ standing[c] = "open" /\ k \in needs[c]
  /\ c \notin holders[k] /\ left[k] > 0
  /\ left' = [left EXCEPT ![k] = @ - 1]
  /\ holders' = [holders EXCEPT ![k] = @ \cup {c}]
  /\ \E s \in {"threw", IF \A n \in needs[c] : c \in holders'[n] THEN "admitted" ELSE "open"} :
       standing' = [standing EXCEPT ![c] = s]
  /\ UNCHANGED needs

TurnAway(c) ==
  /\ standing[c] = "open"
  /\ \E s \in {"rejected", "threw"} : standing' = [standing EXCEPT ![c] = s]
  /\ UNCHANGED <<left, holders, needs>>

Next ==
  \E c \in Calls :
    Begin(c) \/ FailOpen(c) \/ TurnAway(c) \/ \E k \in Counters : Take(c, k)

Spec == Init /\ [][Next]_vars
=============================================================================
