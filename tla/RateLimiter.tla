----------------------------- MODULE RateLimiter -----------------------------
(***************************************************************************)
(* enforceRateLimit of ca/_shared/rate_limit.ts for one identity of one    *)
(* function: concurrent calls, each of which charges one KV counter per    *)
(* window, in order, by check-and-set.  A counter is named by its window   *)
(* and by the fixed bucket of time the call began in.                      *)
(*                                                                         *)
(* The KV checks a versionstamp; a counter only grows, so its value is its *)
(* version here.  Its TTL outlives its bucket by more than a call can last *)
(* and is left out: an expired counter is never looked at again.           *)
(***************************************************************************)
EXTENDS Integers, FiniteSets, Sequences

CONSTANTS Calls,    \* calls of enforceRateLimit
          Windows,  \* the sequence of [len, max] the endpoint passes
          Attempts, \* check-and-set attempts per counter (4)
          Horizon   \* bound: the last second modelled

ASSUME WindowsAssumption ==
  /\ Windows \in Seq([len : Nat \ {0}, max : Nat])
  /\ Windows # <<>>

ASSUME BoundsAssumption == Attempts \in Nat \ {0} /\ Horizon \in Nat

ASSUME CallsAssumption == IsFiniteSet(Calls)

VARIABLES now,      \* the clock, in seconds
          counter,  \* the KV: value of each window's counter in each bucket
          pc, window, attempt, seen,
          began,    \* the second each call read the clock
          charged,  \* history: the calls that incremented each counter
          entered   \* history: the counter when a call turned to its window

callVars == <<pc, window, attempt, seen, began>>
historyVars == <<charged, entered>>
vars == <<now, counter, callVars, historyVars>>

Indexes == DOMAIN Windows
Bucket(w, t) == t \div Windows[w].len
Counters == Indexes \X (0 .. Horizon)
CounterOf(c) == <<window[c], Bucket(window[c], began[c])>>

(* "unthrottled" is the fail-open outcome, "threw" an exception out of the  *)
(* limiter, which the endpoint answers with a 500.                          *)
Outcome == {"admitted", "rejected", "unthrottled", "threw"}
Location == {"idle", "read", "commit"} \cup Outcome

Init ==
  /\ now = 0
  /\ counter = [k \in Counters |-> 0]
  /\ pc = [c \in Calls |-> "idle"]
  /\ window = [c \in Calls |-> 1]
  /\ attempt = [c \in Calls |-> 1]
  /\ seen = [c \in Calls |-> 0]
  /\ began = [c \in Calls |-> 0]
  /\ charged = [k \in Counters |-> {}]
  /\ entered = [c \in Calls |-> 0]

(* The call ends, or turns to another location of the same attempt. *)
Goto(c, l) == pc' = [pc EXCEPT ![c] = l]

OpenKv(c) ==
  /\ pc[c] = "idle"
  /\ \/ /\ Goto(c, "read")
        /\ began' = [began EXCEPT ![c] = now]
        /\ entered' = [entered EXCEPT ![c] = counter[<<1, Bucket(1, now)>>]]
     \/ /\ Goto(c, "unthrottled")
        /\ UNCHANGED <<began, entered>>
  /\ UNCHANGED <<now, counter, window, attempt, seen, charged>>

(* A read that is off by one at the cap. *)
Full_OffByOne(k) == counter[k] + 1 >= Windows[k[1]].max
Full(k) == counter[k] >= Windows[k[1]].max

(* kv.get and the comparison with max; a KV error after openKv succeeded is *)
(* not caught.                                                              *)
ReadCounter(c) ==
  /\ pc[c] = "read"
  /\ \/ /\ Goto(c, IF Full(CounterOf(c)) THEN "rejected" ELSE "commit")
        /\ seen' = [seen EXCEPT ![c] = counter[CounterOf(c)]]
     \/ Goto(c, "threw") /\ UNCHANGED seen
  /\ UNCHANGED <<now, counter, window, attempt, began, historyVars>>

(* A commit without its check. *)
CommitApplies_Unchecked(c) ==
  /\ counter' = [counter EXCEPT ![CounterOf(c)] = seen[c] + 1]
  /\ charged' = [charged EXCEPT ![CounterOf(c)] = @ \cup {c}]

(* The atomic operation's two outcomes. *)
CommitApplies(c) ==
  /\ counter[CounterOf(c)] = seen[c]
  /\ counter' = [counter EXCEPT ![CounterOf(c)] = seen[c] + 1]
  /\ charged' = [charged EXCEPT ![CounterOf(c)] = @ \cup {c}]

CommitConflicts(c) ==
  /\ counter[CounterOf(c)] # seen[c]
  /\ UNCHANGED <<counter, charged>>

(* A return from inside the loop. *)
Charge_Returns(c) ==
  /\ pc[c] = "commit"
  /\ CommitApplies(c)
  /\ Goto(c, "admitted")
  /\ UNCHANGED <<now, window, attempt, seen, began, entered>>

(* Counted: the next window, or admission after the last one.  The reply of *)
(* an applied commit may be lost.                                           *)
Charge(c) ==
  /\ pc[c] = "commit"
  /\ CommitApplies(c)
  /\ \/ /\ window[c] < Len(Windows)
        /\ Goto(c, "read")
        /\ window' = [window EXCEPT ![c] = @ + 1]
        /\ attempt' = [attempt EXCEPT ![c] = 1]
        /\ entered' = [entered EXCEPT ![c] =
             counter[<<window[c] + 1, Bucket(window[c] + 1, began[c])>>]]
     \/ /\ window[c] = Len(Windows)
        /\ Goto(c, "admitted")
        /\ UNCHANGED <<window, attempt, entered>>
     \/ /\ Goto(c, "threw")
        /\ UNCHANGED <<window, attempt, entered>>
  /\ UNCHANGED <<now, seen, began>>

(* Lost the race: again, until the attempts are used up. *)
Retry(c) ==
  /\ pc[c] = "commit"
  /\ CommitConflicts(c)
  /\ \/ /\ attempt[c] < Attempts
        /\ Goto(c, "read")
        /\ attempt' = [attempt EXCEPT ![c] = @ + 1]
     \/ /\ attempt[c] = Attempts
        /\ Goto(c, "rejected")
        /\ UNCHANGED attempt
  /\ UNCHANGED <<now, window, seen, began, entered>>

CommitThrows(c) ==
  /\ pc[c] = "commit"
  /\ Goto(c, "threw")
  /\ UNCHANGED <<now, counter, window, attempt, seen, began, historyVars>>

Tick ==
  /\ now < Horizon
  /\ now' = now + 1
  /\ UNCHANGED <<counter, callVars, historyVars>>

Next ==
  \/ Tick
  \/ \E c \in Calls :
       OpenKv(c) \/ ReadCounter(c) \/ Charge(c) \/ Retry(c) \/ CommitThrows(c)

Spec == Init /\ [][Next]_vars

-----------------------------------------------------------------------------
TypeOK ==
  /\ now \in 0 .. Horizon
  /\ counter \in [Counters -> Nat]
  /\ pc \in [Calls -> Location]
  /\ window \in [Calls -> Indexes]
  /\ attempt \in [Calls -> 1 .. Attempts]
  /\ seen \in [Calls -> Nat]
  /\ began \in [Calls -> 0 .. Horizon]
  /\ charged \in [Counters -> SUBSET Calls]
  /\ entered \in [Calls -> Nat]

(* The calls a counter admitted. *)
AdmittedIn(w, b) == {c \in Calls : pc[c] = "admitted" /\ Bucket(w, began[c]) = b}

(* However many calls race on a counter, no bucket of any window admits     *)
(* more calls than the endpoint's max.                                      *)
AdmittedWithinMax ==
  \A k \in Counters : Cardinality(AdmittedIn(k[1], k[2])) <= Windows[k[1]].max

(* A call is only turned away when a counter it needs is at its cap, or     *)
(* when every one of its attempts was overtaken by another call's: failing  *)
(* closed never refuses a lone caller that is under its limit.              *)
RejectedOnlyWhenBusy ==
  \A c \in Calls :
    pc[c] = "rejected" =>
      \/ counter[CounterOf(c)] >= Windows[window[c]].max
      \/ counter[CounterOf(c)] - entered[c] >= Attempts

(* A counter counts exactly the calls that charged it and never passes its  *)
(* cap; a call charges each counter once, in the order of the windows, and  *)
(* is admitted by all of them.                                              *)
ChargedAt(c, w) == c \in charged[<<w, Bucket(w, began[c])>>]

CounterInv ==
  \A k \in Counters :
    /\ counter[k] = Cardinality(charged[k])
    /\ counter[k] <= Windows[k[1]].max
    /\ \A c \in charged[k] : pc[c] # "idle" /\ k[2] = Bucket(k[1], began[c])

CallInv ==
  \A c \in Calls :
    /\ pc[c] = "commit" => seen[c] < Windows[window[c]].max
    /\ pc[c] \in {"read", "commit"} =>
         \A w \in Indexes : ChargedAt(c, w) <=> w < window[c]
    /\ pc[c] = "admitted" => \A w \in Indexes : ChargedAt(c, w)
    /\ pc[c] = "idle" => window[c] = 1 /\ attempt[c] = 1

(* Each attempt a call has used up is an increment by somebody else since   *)
(* it turned to this window.                                                *)
OvertakenInv ==
  \A c \in Calls :
    /\ pc[c] = "read" => counter[CounterOf(c)] - entered[c] >= attempt[c] - 1
    /\ pc[c] = "commit" => /\ seen[c] - entered[c] >= attempt[c] - 1
                          /\ counter[CounterOf(c)] >= seen[c]

RateInv == TypeOK /\ CounterInv /\ CallInv /\ OvertakenInv /\ RejectedOnlyWhenBusy
-----------------------------------------------------------------------------
(* What a counter has left; the counters of a call that reads the clock at  *)
(* t; how a call stands.                                                    *)
CountersAt(t) == {<<w, Bucket(w, t)>> : w \in Indexes}
left == [k \in Counters |-> Windows[k[1]].max - counter[k]]
needs ==
  [c \in Calls |-> IF pc[c] \in {"idle", "unthrottled"} THEN {} ELSE CountersAt(began[c])]
standing == [c \in Calls |-> IF pc[c] \in {"read", "commit"} THEN "open" ELSE pc[c]]

Abstract == INSTANCE SlotAdmission
              WITH Limit <- [k \in Counters |-> Windows[k[1]].max],
                   Needs <- {CountersAt(t) : t \in 0 .. Horizon}, holders <- charged

(* Reading a counter, comparing it, and adding to it by check-and-set with  *)
(* retries amounts to taking slots one at a time, each in a single step     *)
(* that nobody can come between (enforceRateLimit).                         *)
ImplementsSlots == Abstract!Spec
=============================================================================
