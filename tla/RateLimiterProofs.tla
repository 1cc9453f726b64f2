-------------------------- MODULE RateLimiterProofs --------------------------
(***************************************************************************)
(* Machine-checked proofs about the rate limiter, for any finite set of    *)
(* concurrent calls, any windows and any number of attempts.               *)
(***************************************************************************)
EXTENDS RateLimiter, FiniteSetTheorems, SequenceTheorems, TLAPS

LEMMA DivRange ==
  ASSUME NEW t \in Nat, NEW n \in Nat \ {0}
  PROVE  t \div n \in 0 .. t
OBVIOUS

LEMMA WindowShape ==
  /\ Len(Windows) \in Nat \ {0}
  /\ Indexes = 1 .. Len(Windows)
  /\ 1 \in Indexes
  /\ \A w \in Indexes : Windows[w].len \in Nat \ {0} /\ Windows[w].max \in Nat
<1>1. Len(Windows) \in Nat \ {0} /\ Indexes = 1 .. Len(Windows)
  BY WindowsAssumption, EmptySeq, LenProperties DEF Indexes
<1>2. \A w \in 1 .. Len(Windows) : Windows[w] \in [len : Nat \ {0}, max : Nat]
  BY WindowsAssumption, ElementOfSeq
<1>3. QED
  BY <1>1, <1>2

(* Every counter a call can name is one of the modelled counters.          *)
LEMMA CounterNamed ==
  ASSUME NEW w \in Indexes, NEW t \in 0 .. Horizon
  PROVE  <<w, Bucket(w, t)>> \in Counters
<1>1. t \in Nat /\ Windows[w].len \in Nat \ {0}
  BY WindowShape, BoundsAssumption
<1>2. Bucket(w, t) \in 0 .. t
  BY <1>1, DivRange DEF Bucket
<1>3. QED
  BY <1>2, BoundsAssumption DEF Counters

LEMMA CallCounter ==
  ASSUME TypeOK, NEW c \in Calls
  PROVE  CounterOf(c) \in Counters
BY CounterNamed DEF TypeOK, CounterOf

-----------------------------------------------------------------------------
(* Every component keeps its type.                                         *)
LEMMA TypeStep ==
  ASSUME TypeOK, [Next]_vars
  PROVE  TypeOK'
<1> USE WindowShape, BoundsAssumption
<1>1. CASE Tick
  BY <1>1 DEF TypeOK, Tick, callVars, historyVars
<1>2. ASSUME NEW c \in Calls, OpenKv(c) PROVE TypeOK'
  <2>1. <<1, Bucket(1, now)>> \in Counters
    BY CounterNamed DEF TypeOK
  <2>2. counter[<<1, Bucket(1, now)>>] \in Nat /\ now \in 0 .. Horizon
    BY <2>1 DEF TypeOK
  <2>3. began' \in [Calls -> 0 .. Horizon] /\ entered' \in [Calls -> Nat]
    BY <1>2, <2>2 DEF TypeOK, OpenKv
  <2>4. pc' \in [Calls -> Location]
    BY <1>2 DEF TypeOK, OpenKv, Goto, Location, Outcome
  <2>5. UNCHANGED <<now, counter, window, attempt, seen, charged>>
    BY <1>2 DEF OpenKv
  <2>6. QED
    BY <2>3, <2>4, <2>5 DEF TypeOK
<1>3. ASSUME NEW c \in Calls, ReadCounter(c) PROVE TypeOK'
  BY <1>3, CallCounter DEF TypeOK, ReadCounter, Goto, Location, Outcome, historyVars
<1>4. ASSUME NEW c \in Calls, Charge(c) PROVE TypeOK'
  <2>1. seen[c] + 1 \in Nat /\ CounterOf(c) \in Counters
    BY CallCounter DEF TypeOK
  <2>2. counter' \in [Counters -> Nat] /\ charged' \in [Counters -> SUBSET Calls]
    BY <1>4, <2>1 DEF TypeOK, Charge, CommitApplies
  <2>3. window[c] < Len(Windows) =>
          /\ window[c] + 1 \in Indexes
          /\ counter[<<window[c] + 1, Bucket(window[c] + 1, began[c])>>] \in Nat
    <3>1. SUFFICES ASSUME window[c] < Len(Windows)
                   PROVE  /\ window[c] + 1 \in Indexes
                          /\ counter[<<window[c] + 1, Bucket(window[c] + 1, began[c])>>] \in Nat
      OBVIOUS
    <3>2. window[c] \in Indexes /\ began[c] \in 0 .. Horizon
      BY DEF TypeOK
    <3>3. window[c] + 1 \in Indexes
      BY <3>1, <3>2
    <3>4. <<window[c] + 1, Bucket(window[c] + 1, began[c])>> \in Counters
      BY <3>2, <3>3, CounterNamed
    <3>5. QED
      BY <3>3, <3>4 DEF TypeOK
  <2>4. 1 \in 1 .. Attempts
    OBVIOUS
  <2>5. pc' \in [Calls -> Location]
    BY <1>4 DEF TypeOK, Charge, Goto, Location, Outcome
  <2>6. attempt' \in [Calls -> 1 .. Attempts]
    BY <1>4, <2>4 DEF TypeOK, Charge
  <2>7. window' \in [Calls -> Indexes]
    BY <1>4, <2>3 DEF TypeOK, Charge
  <2>8. entered' \in [Calls -> Nat]
    BY <1>4, <2>3 DEF TypeOK, Charge
  <2>9. QED
    BY <1>4, <2>2, <2>5, <2>6, <2>7, <2>8 DEF TypeOK, Charge
<1>5. ASSUME NEW c \in Calls, Retry(c) PROVE TypeOK'
  <2>1. attempt[c] < Attempts => attempt[c] + 1 \in 1 .. Attempts
    BY DEF TypeOK
  <2>2. attempt' \in [Calls -> 1 .. Attempts] /\ pc' \in [Calls -> Location]
    BY <1>5, <2>1 DEF TypeOK, Retry, Goto, Location, Outcome
  <2>3. QED
    BY <1>5, <2>2 DEF TypeOK, Retry, CommitConflicts
<1>6. ASSUME NEW c \in Calls, CommitThrows(c) PROVE TypeOK'
  BY <1>6 DEF TypeOK, CommitThrows, Goto, Location, Outcome, historyVars
<1>7. CASE UNCHANGED vars
  BY <1>7 DEF TypeOK, vars, callVars, historyVars
<1>8. QED
  BY <1>1, <1>2, <1>3, <1>4, <1>5, <1>6, <1>7 DEF Next

-----------------------------------------------------------------------------
(* A step of a call other than a charge leaves the counters alone.         *)
LEMMA NoCharge ==
  ASSUME NEW c \in Calls,
         OpenKv(c) \/ ReadCounter(c) \/ Retry(c) \/ CommitThrows(c)
  PROVE  UNCHANGED <<counter, charged>>
BY DEF OpenKv, ReadCounter, Retry, CommitThrows, CommitConflicts, historyVars

(* What a charge does to the counters: its own grows by one, by this call, *)
(* which had not charged it before; nothing else changes.                  *)
LEMMA ChargeEffect ==
  ASSUME TypeOK, CounterInv, CallInv, NEW c \in Calls, Charge(c)
  PROVE  LET k == CounterOf(c) IN
         /\ k \in Counters /\ c \notin charged[k]
         /\ counter[k] < Windows[k[1]].max
         /\ counter' = [counter EXCEPT ![k] = counter[k] + 1]
         /\ charged' = [charged EXCEPT ![k] = charged[k] \cup {c}]
<1> DEFINE k == CounterOf(c)
<1>1. k \in Counters /\ window[c] \in Indexes
  BY CallCounter DEF TypeOK
<1>2. k[1] = window[c] /\ k = <<window[c], Bucket(window[c], began[c])>>
  BY DEF CounterOf
<1>3. pc[c] = "commit" /\ counter[k] = seen[c]
  BY DEF Charge, CommitApplies
<1>4. ~ ChargedAt(c, window[c])
  BY <1>1, <1>3, WindowShape DEF CallInv
<1>5. c \notin charged[k]
  BY <1>2, <1>4 DEF ChargedAt
<1>6. counter[k] < Windows[k[1]].max
  BY <1>2, <1>3 DEF CallInv
<1>7. QED
  BY <1>1, <1>3, <1>5, <1>6 DEF Charge, CommitApplies

(* Only a call that opens the KV reads the clock, once.                    *)
LEMMA BeganFixed ==
  ASSUME TypeOK, [Next]_vars, NEW d \in Calls, pc[d] # "idle"
  PROVE  began'[d] = began[d] /\ pc'[d] # "idle"
<1>1. ASSUME NEW c \in Calls, OpenKv(c) PROVE began'[d] = began[d] /\ pc'[d] # "idle"
  BY <1>1 DEF OpenKv, Goto, TypeOK
<1>2. ASSUME NEW c \in Calls, ReadCounter(c) PROVE began'[d] = began[d] /\ pc'[d] # "idle"
  BY <1>2 DEF ReadCounter, Goto, TypeOK
<1>3. ASSUME NEW c \in Calls, Charge(c) PROVE began'[d] = began[d] /\ pc'[d] # "idle"
  BY <1>3 DEF Charge, Goto, TypeOK
<1>4. ASSUME NEW c \in Calls, Retry(c) PROVE began'[d] = began[d] /\ pc'[d] # "idle"
  BY <1>4 DEF Retry, Goto, TypeOK
<1>5. ASSUME NEW c \in Calls, CommitThrows(c) PROVE began'[d] = began[d] /\ pc'[d] # "idle"
  BY <1>5 DEF CommitThrows, Goto, TypeOK
<1>6. CASE Tick
  BY <1>6 DEF Tick, callVars
<1>7. CASE UNCHANGED vars
  BY <1>7 DEF vars, callVars
<1>8. QED
  BY <1>1, <1>2, <1>3, <1>4, <1>5, <1>6, <1>7 DEF Next

(* A counter stays the number of calls that charged it, and within its cap. *)
LEMMA CounterStep ==
  ASSUME TypeOK, CounterInv, CallInv, [Next]_vars
  PROVE  CounterInv'
<1> SUFFICES ASSUME NEW k \in Counters
             PROVE  /\ counter'[k] = Cardinality(charged'[k])
                    /\ counter'[k] <= Windows[k[1]].max
                    /\ \A d \in charged'[k] : pc'[d] # "idle" /\ k[2] = Bucket(k[1], began'[d])
  BY DEF CounterInv, Bucket
<1>1. ASSUME counter' = counter, charged' = charged
      PROVE  /\ counter'[k] = Cardinality(charged'[k])
             /\ counter'[k] <= Windows[k[1]].max
             /\ \A d \in charged'[k] : pc'[d] # "idle" /\ k[2] = Bucket(k[1], began'[d])
  <2>1. \A d \in charged[k] : d \in Calls
    BY DEF TypeOK
  <2>2. QED
    BY <1>1, <2>1, BeganFixed DEF CounterInv
<1>2. ASSUME NEW c \in Calls, Charge(c)
      PROVE  /\ counter'[k] = Cardinality(charged'[k])
             /\ counter'[k] <= Windows[k[1]].max
             /\ \A d \in charged'[k] : pc'[d] # "idle" /\ k[2] = Bucket(k[1], began'[d])
  <2>1. \A d \in charged[k] \cup {c} : d \in Calls
    BY DEF TypeOK
  <2>2. CASE k # CounterOf(c)
    <3>1. counter'[k] = counter[k] /\ charged'[k] = charged[k]
      BY <1>2, <2>2, ChargeEffect DEF TypeOK
    <3>2. QED
      BY <3>1, <2>1, BeganFixed DEF CounterInv
  <2>3. CASE k = CounterOf(c)
    <3>1. /\ counter'[k] = counter[k] + 1
          /\ charged'[k] = charged[k] \cup {c}
          /\ c \notin charged[k] /\ counter[k] < Windows[k[1]].max
      BY <1>2, <2>3, ChargeEffect DEF TypeOK
    <3>2. IsFiniteSet(charged[k])
      BY CallsAssumption, FS_Subset DEF TypeOK
    <3>3. counter'[k] = Cardinality(charged'[k])
      BY <3>1, <3>2, FS_AddElement DEF CounterInv
    <3>4. counter'[k] <= Windows[k[1]].max
      <4>1. k[1] \in Indexes /\ counter[k] \in Nat
        BY DEF Counters, TypeOK
      <4>2. QED
        BY <3>1, <4>1, WindowShape
    <3>5. pc[c] # "idle" /\ k[2] = Bucket(k[1], began[c])
      BY <1>2, <2>3 DEF Charge, CounterOf
    <3>6. QED
      BY <3>1, <3>3, <3>4, <3>5, <2>1, BeganFixed DEF CounterInv
  <2>4. QED
    BY <2>2, <2>3
<1>3. CASE Tick \/ UNCHANGED vars
  BY <1>1, <1>3 DEF Tick, historyVars, vars
<1>4. QED
  BY <1>1, <1>2, <1>3, NoCharge DEF Next

-----------------------------------------------------------------------------
(* What CallInv and OvertakenInv say of one call.                          *)
CallAt(c) ==
  /\ pc[c] = "commit" => seen[c] < Windows[window[c]].max
  /\ pc[c] \in {"read", "commit"} =>
       \A w \in Indexes : ChargedAt(c, w) <=> w < window[c]
  /\ pc[c] = "admitted" => \A w \in Indexes : ChargedAt(c, w)
  /\ pc[c] = "idle" => window[c] = 1 /\ attempt[c] = 1

OvertakenAt(c) ==
  /\ pc[c] = "read" => counter[CounterOf(c)] - entered[c] >= attempt[c] - 1
  /\ pc[c] = "commit" => /\ seen[c] - entered[c] >= attempt[c] - 1
                        /\ counter[CounterOf(c)] >= seen[c]
  /\ pc[c] = "rejected" =>
       \/ counter[CounterOf(c)] >= Windows[window[c]].max
       \/ counter[CounterOf(c)] - entered[c] >= Attempts

LEMMA ByCall ==
  /\ CallInv <=> \A c \in Calls : CallAt(c)
  /\ OvertakenInv /\ RejectedOnlyWhenBusy <=> \A c \in Calls : OvertakenAt(c)
BY DEF CallInv, CallAt, OvertakenInv, RejectedOnlyWhenBusy, OvertakenAt

(* A step of one call does not touch another one.                          *)
Same(d) == /\ pc'[d] = pc[d] /\ window'[d] = window[d] /\ attempt'[d] = attempt[d]
           /\ seen'[d] = seen[d] /\ began'[d] = began[d] /\ entered'[d] = entered[d]

LEMMA OthersSame ==
  ASSUME TypeOK, NEW c \in Calls, NEW d \in Calls, d # c,
         OpenKv(c) \/ ReadCounter(c) \/ Charge(c) \/ Retry(c) \/ CommitThrows(c)
  PROVE  Same(d)
<1>1. CASE OpenKv(c)
  BY <1>1 DEF OpenKv, Goto, Same, TypeOK
<1>2. CASE ReadCounter(c)
  BY <1>2 DEF ReadCounter, Goto, Same, TypeOK, historyVars
<1>3. CASE Charge(c)
  BY <1>3 DEF Charge, Goto, Same, TypeOK
<1>4. CASE Retry(c)
  BY <1>4 DEF Retry, Goto, Same, TypeOK
<1>5. CASE CommitThrows(c)
  BY <1>5 DEF CommitThrows, Goto, Same, TypeOK, historyVars
<1>6. QED
  BY <1>1, <1>2, <1>3, <1>4, <1>5

(* A call keeps what is said of it through the steps of the others: their  *)
(* charges add themselves, not it, and counters only grow.                 *)
LEMMA CallKept ==
  ASSUME TypeOK, CounterInv, CallInv, [Next]_vars, TypeOK',
         NEW d \in Calls, Same(d), CallAt(d), OvertakenAt(d),
         \/ UNCHANGED <<counter, charged>>
         \/ \E c \in Calls : c # d /\ Charge(c)
  PROVE  CallAt(d)' /\ OvertakenAt(d)'
<1>1. \A k \in Counters : counter'[k] >= counter[k] /\ (d \in charged'[k] <=> d \in charged[k])
  <2>1. CASE UNCHANGED <<counter, charged>>
    BY <2>1 DEF TypeOK
  <2>2. ASSUME NEW c \in Calls, c # d, Charge(c)
        PROVE \A k \in Counters : counter'[k] >= counter[k] /\ (d \in charged'[k] <=> d \in charged[k])
    BY <2>2, ChargeEffect DEF TypeOK
  <2>3. QED
    BY <2>1, <2>2
<1>2. \A w \in Indexes : ChargedAt(d, w)' <=> ChargedAt(d, w)
  <2>1. \A w \in Indexes : <<w, Bucket(w, began[d])>> \in Counters
    BY CounterNamed DEF TypeOK
  <2>2. QED
    BY <1>1, <2>1 DEF ChargedAt, Same, Bucket
<1>3. CounterOf(d)' = CounterOf(d) /\ CounterOf(d) \in Counters
  BY CallCounter DEF CounterOf, Same, Bucket
<1>4. CallAt(d)'
  BY <1>2 DEF CallAt, Same
<1>5. OvertakenAt(d)'
  <2>1. counter'[CounterOf(d)] >= counter[CounterOf(d)]
    BY <1>1, <1>3
  <2>2. /\ counter[CounterOf(d)] \in Nat /\ counter'[CounterOf(d)] \in Nat
        /\ window[d] \in Indexes /\ attempt[d] \in Nat
        /\ entered[d] \in Nat /\ seen[d] \in Nat
    BY <1>3, BoundsAssumption DEF TypeOK
  <2>3. Windows[window[d]].max \in Nat
    BY <2>2, WindowShape
  <2>4. QED
    BY <2>1, <2>2, <2>3, <1>3, BoundsAssumption DEF OvertakenAt, Same
<1>6. QED
  BY <1>4, <1>5

(* What a call establishes by its own step.                                *)
LEMMA CallOwn ==
  ASSUME RateInv, TypeOK', NEW c \in Calls,
         OpenKv(c) \/ ReadCounter(c) \/ Charge(c) \/ Retry(c) \/ CommitThrows(c)
  PROVE  CallAt(c)' /\ OvertakenAt(c)'
<1>0. /\ TypeOK /\ CounterInv /\ CallAt(c) /\ OvertakenAt(c)
      /\ CounterOf(c) \in Counters /\ counter[CounterOf(c)] \in Nat
      /\ window[c] \in Indexes /\ Windows[window[c]].max \in Nat
      /\ seen[c] \in Nat /\ entered[c] \in Nat /\ attempt[c] \in Nat
      /\ CallInv
  <2>1. TypeOK /\ CounterInv /\ CallInv /\ CallAt(c) /\ OvertakenAt(c)
    BY ByCall DEF RateInv
  <2>2. CounterOf(c) \in Counters
    BY <2>1, CallCounter
  <2>3. counter[CounterOf(c)] \in Nat
    BY <2>1, <2>2 DEF TypeOK
  <2>4. window[c] \in Indexes /\ seen[c] \in Nat /\ entered[c] \in Nat
    BY <2>1 DEF TypeOK
  <2>5. attempt[c] \in 1 .. Attempts
    BY <2>1 DEF TypeOK
  <2>6. attempt[c] \in Nat
    BY <2>5, BoundsAssumption
  <2>7. Windows[window[c]].max \in Nat
    BY <2>4, WindowShape
  <2>8. QED
    BY <2>1, <2>2, <2>3, <2>4, <2>6, <2>7
<1>a. /\ DOMAIN pc = Calls /\ DOMAIN seen = Calls /\ DOMAIN entered = Calls
      /\ DOMAIN attempt = Calls
  BY <1>0 DEF TypeOK
<1>1. CASE OpenKv(c)
  <2>a. /\ pc[c] = "idle" /\ window' = window /\ attempt' = attempt
        /\ counter' = counter /\ charged' = charged
        /\ Goto(c, "read") \/ Goto(c, "unthrottled")
    BY <1>1 DEF OpenKv
  <2>b. pc'[c] \in {"read", "unthrottled"}
    BY <1>a, <2>a DEF Goto
  <2>c. window[c] = 1 /\ attempt[c] = 1
    BY <1>0, <2>a DEF CallAt
  <2>1. /\ pc[c] = "idle" /\ window'[c] = 1 /\ attempt'[c] = 1
        /\ counter' = counter /\ charged' = charged
        /\ pc'[c] \in {"read", "unthrottled"}
    BY <2>a, <2>b, <2>c
  <2>2. \A w \in Indexes : ~ ChargedAt(c, w)'
    <3>1. ASSUME NEW w \in Indexes, ChargedAt(c, w)' PROVE FALSE
      <4>1. <<w, Bucket(w, began'[c])>> \in Counters
        BY CounterNamed DEF TypeOK
      <4>2. c \in charged[<<w, Bucket(w, began'[c])>>]
        BY <2>1, <3>1 DEF ChargedAt, Bucket
      <4>3. QED
        BY <4>1, <4>2, <2>1, <1>0 DEF CounterInv
    <3>2. QED
      BY <3>1
  <2>3. CallAt(c)'
    BY <2>1, <2>2, WindowShape DEF CallAt
  <2>4. pc'[c] = "read" => entered'[c] = counter'[CounterOf(c)']
    BY <1>0, <1>1, <2>1 DEF OpenKv, Goto, CounterOf, Bucket, TypeOK
  <2>5. entered'[c] \in Nat
    BY DEF TypeOK
  <2>6. OvertakenAt(c)'
    BY <2>1, <2>4, <2>5 DEF OvertakenAt, CounterOf
  <2>7. QED
    BY <2>3, <2>6
<1>2. CASE ReadCounter(c)
  <2>1. /\ pc[c] = "read" /\ window' = window /\ began' = began
        /\ counter' = counter /\ charged' = charged /\ attempt' = attempt
        /\ entered' = entered
    BY <1>2 DEF ReadCounter, historyVars
  <2>2. CounterOf(c)' = CounterOf(c) /\ \A w \in Indexes : ChargedAt(c, w)' <=> ChargedAt(c, w)
    BY <2>1 DEF CounterOf, ChargedAt, Bucket
  <2>3. \/ pc'[c] = "threw"
        \/ pc'[c] = "rejected" /\ Full(CounterOf(c))
        \/ pc'[c] = "commit" /\ ~ Full(CounterOf(c)) /\ seen'[c] = counter[CounterOf(c)]
    BY <1>a, <1>2 DEF ReadCounter, Goto
  <2>4. Full(CounterOf(c)) <=> counter[CounterOf(c)] >= Windows[window[c]].max
    BY DEF Full, CounterOf
  <2>5. CASE pc'[c] = "threw"
    BY <2>5 DEF CallAt, OvertakenAt
  <2>6. CASE pc'[c] = "rejected" /\ Full(CounterOf(c))
    <3>1. counter'[CounterOf(c)'] >= Windows[window'[c]].max
      BY <2>1, <2>2, <2>4, <2>6
    <3>2. QED
      BY <2>6, <3>1 DEF CallAt, OvertakenAt
  <2>7. CASE pc'[c] = "commit" /\ ~ Full(CounterOf(c)) /\ seen'[c] = counter[CounterOf(c)]
    <3>1. seen'[c] < Windows[window'[c]].max
      BY <1>0, <2>1, <2>4, <2>7
    <3>2. \A w \in Indexes : ChargedAt(c, w)' <=> w < window'[c]
      BY <1>0, <2>1, <2>2 DEF CallAt
    <3>3. CallAt(c)'
      BY <2>7, <3>1, <3>2 DEF CallAt
    <3>4. counter[CounterOf(c)] - entered[c] >= attempt[c] - 1
      BY <1>0, <2>1 DEF OvertakenAt
    <3>5. /\ seen'[c] - entered'[c] >= attempt'[c] - 1
          /\ counter'[CounterOf(c)'] >= seen'[c]
      BY <1>0, <2>1, <2>2, <2>7, <3>4
    <3>6. OvertakenAt(c)'
      BY <2>7, <3>5 DEF OvertakenAt
    <3>7. QED
      BY <3>3, <3>6
  <2>8. QED
    BY <2>3, <2>5, <2>6, <2>7
<1>3. CASE Charge(c)
  <2>1. /\ pc[c] = "commit" /\ began' = began
        /\ charged' = [charged EXCEPT ![CounterOf(c)] = charged[CounterOf(c)] \cup {c}]
        /\ counter' = [counter EXCEPT ![CounterOf(c)] = counter[CounterOf(c)] + 1]
    BY <1>0, <1>3, ChargeEffect DEF Charge
  <2>2. \A w \in Indexes : ChargedAt(c, w)' <=> w <= window[c]
    <3>1. ASSUME NEW w \in Indexes PROVE ChargedAt(c, w)' <=> w <= window[c]
      <4>1. <<w, Bucket(w, began[c])>> \in Counters
        BY <1>0, CounterNamed DEF TypeOK
      <4>2. CASE w = window[c]
        <5>1. c \in charged'[CounterOf(c)] /\ CounterOf(c) = <<w, Bucket(w, began[c])>>
          BY <4>1, <4>2, <2>1, <1>0 DEF CounterOf, TypeOK
        <5>2. ChargedAt(c, w)'
          BY <5>1, <2>1 DEF ChargedAt, Bucket
        <5>3. QED
          BY <5>2, <4>2, <1>0, WindowShape
      <4>3. CASE w # window[c]
        <5>1. <<w, Bucket(w, began[c])>> # CounterOf(c)
          BY <4>3 DEF CounterOf
        <5>2. ChargedAt(c, w)' <=> ChargedAt(c, w)
          BY <5>1, <4>1, <2>1, <1>0 DEF ChargedAt, Bucket, TypeOK
        <5>3. QED
          BY <5>2, <2>1, <4>3, <1>0, WindowShape DEF CallAt
      <4>4. QED
        BY <4>2, <4>3
    <3>2. QED
      BY <3>1
  <2>3. \/ pc'[c] = "threw"
        \/ pc'[c] = "admitted" /\ window[c] = Len(Windows)
        \/ /\ pc'[c] = "read" /\ window'[c] = window[c] + 1 /\ attempt'[c] = 1
           /\ window[c] < Len(Windows)
           /\ entered'[c] = counter[<<window[c] + 1, Bucket(window[c] + 1, began[c])>>]
    BY <1>0, <1>3 DEF Charge, Goto, TypeOK
  <2>4. CallAt(c)'
    <3>1. CASE pc'[c] = "read" /\ window'[c] = window[c] + 1
      BY <3>1, <2>2, <1>0, WindowShape DEF CallAt
    <3>2. CASE pc'[c] = "admitted" /\ window[c] = Len(Windows)
      BY <3>2, <2>2, <1>0, WindowShape DEF CallAt
    <3>3. CASE pc'[c] = "threw"
      BY <3>3 DEF CallAt
    <3>4. QED
      BY <2>3, <3>1, <3>2, <3>3
  <2>5. OvertakenAt(c)'
    <3>1. CASE /\ pc'[c] = "read" /\ window'[c] = window[c] + 1 /\ attempt'[c] = 1
               /\ window[c] < Len(Windows)
               /\ entered'[c] = counter[<<window[c] + 1, Bucket(window[c] + 1, began[c])>>]
      <4>1. CounterOf(c)' = <<window[c] + 1, Bucket(window[c] + 1, began[c])>>
        BY <3>1, <2>1 DEF CounterOf, Bucket
      <4>2. CounterOf(c)' # CounterOf(c) /\ CounterOf(c)' \in Counters
        <5>1. window[c] + 1 \in Indexes /\ window[c] + 1 # window[c] /\ began[c] \in 0 .. Horizon
          BY <3>1, <1>0, WindowShape DEF TypeOK
        <5>2. CounterOf(c)' \in Counters
          BY <4>1, <5>1, CounterNamed
        <5>3. CounterOf(c)' # CounterOf(c)
          BY <4>1, <5>1 DEF CounterOf
        <5>4. QED
          BY <5>2, <5>3
      <4>3. counter'[CounterOf(c)'] = entered'[c] /\ entered'[c] \in Nat
        BY <4>1, <4>2, <3>1, <2>1, <1>0 DEF TypeOK
      <4>4. QED
        BY <3>1, <4>3 DEF OvertakenAt, CounterOf
    <3>2. CASE pc'[c] \in {"admitted", "threw"}
      BY <3>2 DEF OvertakenAt
    <3>3. QED
      BY <2>3, <3>1, <3>2
  <2>6. QED
    BY <2>4, <2>5
<1>4. CASE Retry(c)
  <2>1. /\ pc[c] = "commit" /\ window' = window /\ began' = began
        /\ counter' = counter /\ charged' = charged /\ entered' = entered
        /\ counter[CounterOf(c)] # seen[c]
    BY <1>4 DEF Retry, CommitConflicts
  <2>2. CounterOf(c)' = CounterOf(c) /\ \A w \in Indexes : ChargedAt(c, w)' <=> ChargedAt(c, w)
    BY <2>1 DEF CounterOf, ChargedAt, Bucket
  <2>3. \/ pc'[c] = "read" /\ attempt'[c] = attempt[c] + 1
        \/ pc'[c] = "rejected" /\ attempt[c] = Attempts
    BY <1>a, <1>4 DEF Retry, Goto
  <2>4. counter[CounterOf(c)] > seen[c] /\ seen[c] - entered[c] >= attempt[c] - 1
    BY <1>0, <2>1 DEF OvertakenAt
  <2>5. CallAt(c)'
    BY <1>0, <2>1, <2>2, <2>3 DEF CallAt
  <2>6. OvertakenAt(c)'
    <3>1. counter[CounterOf(c)] - entered[c] >= attempt[c]
      BY <1>0, <2>4
    <3>2. CASE pc'[c] = "read" /\ attempt'[c] = attempt[c] + 1
      <4>1. counter'[CounterOf(c)'] - entered'[c] >= attempt'[c] - 1
        BY <1>0, <2>1, <2>2, <3>1, <3>2
      <4>2. QED
        BY <3>2, <4>1 DEF OvertakenAt
    <3>3. CASE pc'[c] = "rejected" /\ attempt[c] = Attempts
      <4>1. counter'[CounterOf(c)'] - entered'[c] >= Attempts
        BY <2>1, <2>2, <3>1, <3>3
      <4>2. QED
        BY <3>3, <4>1 DEF OvertakenAt
    <3>4. QED
      BY <2>3, <3>2, <3>3
  <2>7. QED
    BY <2>5, <2>6
<1>5. CASE CommitThrows(c)
  <2>1. pc'[c] = "threw"
    BY <1>a, <1>5 DEF CommitThrows, Goto
  <2>2. QED
    BY <2>1 DEF CallAt, OvertakenAt
<1>6. QED
  BY <1>1, <1>2, <1>3, <1>4, <1>5

(* The two per-call parts are preserved: the acting call by CallOwn, the   *)
(* others by CallKept.                                                     *)
LEMMA CallStep ==
  ASSUME RateInv, [Next]_vars, TypeOK'
  PROVE  CallInv' /\ OvertakenInv' /\ RejectedOnlyWhenBusy'
<1>0. TypeOK /\ CounterInv /\ CallInv /\ \A d \in Calls : CallAt(d) /\ OvertakenAt(d)
  BY ByCall DEF RateInv
<1>1. ASSUME NEW d \in Calls PROVE CallAt(d)' /\ OvertakenAt(d)'
  <2>1. CASE Tick \/ UNCHANGED vars
    <3>1. Same(d) /\ UNCHANGED <<counter, charged>>
      BY <2>1 DEF Tick, vars, callVars, historyVars, Same
    <3>2. QED
      BY <3>1, <1>0, CallKept
  <2>2. ASSUME NEW c \in Calls,
               OpenKv(c) \/ ReadCounter(c) \/ Charge(c) \/ Retry(c) \/ CommitThrows(c)
        PROVE  CallAt(d)' /\ OvertakenAt(d)'
    <3>1. CASE d = c
      BY <3>1, <2>2, CallOwn
    <3>2. CASE d # c
      BY <3>2, <2>2, <1>0, OthersSame, NoCharge, CallKept
    <3>3. QED
      BY <3>1, <3>2
  <2>3. QED
    BY <2>1, <2>2 DEF Next
<1>2. QED
  BY <1>1 DEF CallInv, CallAt, OvertakenInv, RejectedOnlyWhenBusy, OvertakenAt

-----------------------------------------------------------------------------
(* The invariant holds in every reachable state.                           *)
LEMMA RateInit == Init => RateInv
<1> SUFFICES ASSUME Init PROVE RateInv
  OBVIOUS
<1> USE WindowShape, BoundsAssumption
<1>1. TypeOK
  BY DEF Init, TypeOK, Location
<1>2. CounterInv
  <2>1. \A k \in Counters : k[1] \in Indexes
    BY DEF Counters
  <2>2. QED
    BY <2>1, FS_EmptySet DEF Init, CounterInv
<1>3. CallInv /\ OvertakenInv /\ RejectedOnlyWhenBusy
  BY DEF Init, CallInv, OvertakenInv, RejectedOnlyWhenBusy
<1>4. QED
  BY <1>1, <1>2, <1>3 DEF RateInv

LEMMA RateStep == RateInv /\ [Next]_vars => RateInv'
<1> SUFFICES ASSUME RateInv, [Next]_vars PROVE RateInv'
  OBVIOUS
<1>1. TypeOK'
  BY TypeStep DEF RateInv
<1>2. CounterInv'
  BY CounterStep DEF RateInv
<1>3. QED
  BY <1>1, <1>2, CallStep DEF RateInv

LEMMA RateInvHolds == Spec => []RateInv
BY RateInit, RateStep, PTL DEF Spec

(* Counters and calls keep their types: in particular no call goes round    *)
(* the check-and-set more often than its attempts allow.                    *)
THEOREM TypeCorrect == Spec => []TypeOK
BY RateInvHolds, PTL DEF RateInv

(* No bucket of any window admits more than the endpoint's max, whatever   *)
(* the number of concurrent calls: every admitted call is among those that *)
(* charged the counter, and the counter is capped.                         *)
THEOREM AdmittedWithinMaxHolds == Spec => []AdmittedWithinMax
<1>1. RateInv => AdmittedWithinMax
  <2> SUFFICES ASSUME RateInv, NEW k \in Counters
               PROVE  Cardinality(AdmittedIn(k[1], k[2])) <= Windows[k[1]].max
    BY DEF AdmittedWithinMax
  <2>1. k = <<k[1], k[2]>> /\ k[1] \in Indexes
    BY DEF Counters
  <2>2. AdmittedIn(k[1], k[2]) \subseteq charged[k]
    BY <2>1 DEF AdmittedIn, RateInv, CallInv, ChargedAt
  <2>3. IsFiniteSet(charged[k])
    BY CallsAssumption, FS_Subset DEF RateInv, TypeOK
  <2>4. /\ Cardinality(AdmittedIn(k[1], k[2])) <= counter[k]
        /\ Cardinality(AdmittedIn(k[1], k[2])) \in Nat
    BY <2>2, <2>3, FS_Subset, FS_CardinalityType DEF RateInv, CounterInv
  <2>5. counter[k] <= Windows[k[1]].max /\ counter[k] \in Nat /\ Windows[k[1]].max \in Nat
    BY <2>1, WindowShape DEF RateInv, CounterInv, TypeOK
  <2>6. QED
    BY <2>4, <2>5
<1>2. QED
  BY <1>1, RateInvHolds, PTL

(* A call that is turned away met a full counter or was overtaken by as    *)
(* many increments as it has attempts.                                     *)
THEOREM RejectedOnlyWhenBusyHolds == Spec => []RejectedOnlyWhenBusy
BY RateInvHolds, PTL DEF RateInv

-----------------------------------------------------------------------------
(* Refinement.  A call that moves changes how it stands itself, and by      *)
(* nobody else.                                                             *)
LEMMA StandingMoves ==
  ASSUME TypeOK, NEW c \in Calls, NEW l, pc' = [pc EXCEPT ![c] = l]
  PROVE  standing' = [standing EXCEPT ![c] = IF l \in {"read", "commit"} THEN "open" ELSE l]
BY DEF TypeOK, standing

(* Once it has begun, it needs what it needed.                              *)
LEMMA NeedsStay ==
  ASSUME TypeOK, UNCHANGED began, NEW c \in Calls, pc[c] \notin {"idle", "unthrottled"},
         NEW l, l \notin {"idle", "unthrottled"}, pc' = [pc EXCEPT ![c] = l]
  PROVE  UNCHANGED needs
BY DEF TypeOK, needs, CountersAt

(* Going on, or being turned away.                                          *)
LEMMA Moves ==
  ASSUME TypeOK, UNCHANGED <<began, counter, charged>>, NEW c \in Calls, pc[c] \in {"read", "commit"},
         NEW l \in {"read", "commit", "rejected", "threw"}, pc' = [pc EXCEPT ![c] = l]
  PROVE  Abstract!Next \/ UNCHANGED <<left, charged, needs, standing>>
<1>1. UNCHANGED needs
  BY NeedsStay
<1>2. standing[c] = "open" /\ UNCHANGED left
  BY DEF standing, left
<1>3. CASE l \in {"read", "commit"}
  <2>1. standing' = [standing EXCEPT ![c] = "open"]
    BY <1>3, StandingMoves
  <2>2. QED
    BY <1>1, <1>2, <2>1 DEF standing
<1>4. CASE l \in {"rejected", "threw"}
  <2>1. standing' = [standing EXCEPT ![c] = l]
    BY <1>4, StandingMoves
  <2>2. Abstract!TurnAway(c)
    BY <1>1, <1>2, <1>4, <2>1 DEF Abstract!TurnAway
  <2>3. QED
    BY <2>2 DEF Abstract!Next
<1>5. QED
  BY <1>3, <1>4

(* A call that opens the KV begins, with the counters of this instant.      *)
LEMMA OpensAsBegins ==
  ASSUME TypeOK, NEW c \in Calls, OpenKv(c)
  PROVE  Abstract!Begin(c) \/ Abstract!FailOpen(c)
<1>1. standing[c] = "idle" /\ UNCHANGED <<left, charged>>
  BY DEF OpenKv, standing, left
<1>2. CASE Goto(c, "read") /\ began' = [began EXCEPT ![c] = now]
  <2>1. standing' = [standing EXCEPT ![c] = "open"]
    BY <1>2, StandingMoves DEF Goto
  <2>2. needs' = [needs EXCEPT ![c] = CountersAt(now)]
    BY <1>2 DEF TypeOK, Goto, needs, CountersAt
  <2>3. CountersAt(now) \in {CountersAt(t) : t \in 0 .. Horizon}
    BY DEF TypeOK
  <2>4. QED
    BY <1>1, <2>1, <2>2, <2>3 DEF Abstract!Begin
<1>3. CASE Goto(c, "unthrottled") /\ UNCHANGED began
  <2>1. standing' = [standing EXCEPT ![c] = "unthrottled"]
    BY <1>3, StandingMoves DEF Goto
  <2>2. UNCHANGED needs
    BY <1>1, <1>3 DEF TypeOK, Goto, needs, CountersAt, OpenKv
  <2>3. QED
    BY <1>1, <2>1, <2>2 DEF Abstract!FailOpen
<1>4. QED
  BY <1>2, <1>3 DEF OpenKv

(* An applied check-and-set takes a slot: what was read still stood, so     *)
(* there was one to take; and the last window's slot is the last.           *)
LEMMA ChargeTakes ==
  ASSUME TypeOK, CounterInv, CallInv, NEW c \in Calls, Charge(c)
  PROVE  Abstract!Take(c, CounterOf(c))
<1> DEFINE k == CounterOf(c)
<1>1. /\ k \in Counters /\ c \notin charged[k]
      /\ counter[k] < Windows[k[1]].max
      /\ charged' = [charged EXCEPT ![k] = charged[k] \cup {c}]
  BY ChargeEffect
<1>2. /\ pc[c] = "commit" /\ window[c] \in Indexes /\ UNCHANGED began
      /\ k = <<window[c], Bucket(window[c], began[c])>>
  BY DEF Charge, CounterOf, TypeOK
<1>3. standing[c] = "open" /\ needs[c] = CountersAt(began[c]) /\ k \in needs[c]
  BY <1>2 DEF standing, needs, CountersAt
<1>4. left[k] > 0 /\ left' = [left EXCEPT ![k] = left[k] - 1]
  <2>1. counter' = [counter EXCEPT ![k] = counter[k] + 1]
    BY ChargeEffect
  <2>2. /\ counter[k] \in Nat /\ counter'[k] = counter[k] + 1
        /\ \A n \in Counters : n # k => counter'[n] = counter[n]
    BY <1>1, <2>1 DEF TypeOK
  <2>3. Windows[k[1]].max \in Nat
    BY <1>1, WindowShape DEF Counters
  <2>4. left[k] = Windows[k[1]].max - counter[k]
    BY <1>1 DEF left
  <2>5. Windows[k[1]].max - counter'[k] = left[k] - 1
    BY <2>2, <2>3, <2>4
  <2>6. \A n \in Counters : n # k => Windows[n[1]].max - counter'[n] = left[n]
    BY <2>2 DEF left
  <2>7. left' = [n \in Counters |-> IF n = k THEN left[k] - 1 ELSE left[n]]
    BY <2>5, <2>6 DEF left
  <2>8. DOMAIN left = Counters
    BY DEF left
  <2>9. left[k] > 0
    BY <1>1, <2>2, <2>3, <2>4
  <2>10. left' = [left EXCEPT ![k] = left[k] - 1]
    BY <2>7, <2>8
  <2>11. QED
    BY <2>9, <2>10
<1>5. PICK l \in {"read", "admitted", "threw"} :
        /\ pc' = [pc EXCEPT ![c] = l]
        /\ l = "read" => window[c] < Len(Windows)
        /\ l = "admitted" => window[c] = Len(Windows)
  BY DEF Charge, Goto
<1>6. UNCHANGED needs
  BY <1>2, <1>5, NeedsStay
<1>7. standing' = [standing EXCEPT ![c] = IF l = "read" THEN "open" ELSE l]
  BY <1>5, StandingMoves
<1>8. \A w \in Indexes : c \in charged'[<<w, Bucket(w, began[c])>>] <=> w <= window[c]
  <2> SUFFICES ASSUME NEW w \in Indexes
               PROVE  c \in charged'[<<w, Bucket(w, began[c])>>] <=> w <= window[c]
    OBVIOUS
  <2> DEFINE m == <<w, Bucket(w, began[c])>>
  <2>1. m \in Counters
    BY CounterNamed DEF TypeOK
  <2>2. c \in charged[m] <=> w < window[c]
    BY <1>2 DEF CallInv, ChargedAt
  <2>3. w \in Nat /\ window[c] \in Nat
    BY <1>2, WindowShape
  <2>4. CASE w = window[c]
    <3>1. m = k
      BY <1>2, <2>4
    <3>2. c \in charged'[k]
      BY <1>1 DEF TypeOK
    <3>3. QED
      BY <2>3, <2>4, <3>1, <3>2
  <2>5. CASE w # window[c]
    <3>1. m # k
      BY <1>2, <2>5
    <3>2. charged'[m] = charged[m]
      BY <1>1, <2>1, <3>1 DEF TypeOK
    <3>3. QED
      BY <2>2, <2>3, <2>5, <3>2
  <2>6. QED
    BY <2>4, <2>5
<1>9. (\A n \in needs[c] : c \in charged'[n]) <=> window[c] = Len(Windows)
  <2>1. (\A n \in needs[c] : c \in charged'[n]) <=> \A w \in Indexes : w <= window[c]
    BY <1>3, <1>8 DEF CountersAt
  <2>2. QED
    BY <1>2, <2>1, WindowShape
<1>10. \E s \in {"threw", IF \A n \in needs[c] : c \in charged'[n] THEN "admitted" ELSE "open"} :
         standing' = [standing EXCEPT ![c] = s]
  <2>1. CASE l = "threw"
    BY <1>7, <2>1
  <2>2. CASE l = "read"
    <3>1. window[c] # Len(Windows)
      BY <1>2, <1>5, <2>2, WindowShape
    <3>2. QED
      BY <1>7, <1>9, <2>2, <3>1
  <2>3. CASE l = "admitted"
    BY <1>5, <1>7, <1>9, <2>3
  <2>4. QED
    BY <1>5, <2>1, <2>2, <2>3
<1>11. QED
  BY <1>1, <1>3, <1>4, <1>6, <1>10 DEF Abstract!Take

LEMMA RefinesInit ==
  ASSUME Init
  PROVE  Abstract!Init
BY WindowShape DEF Init, left, needs, standing, Counters, Abstract!Init

LEMMA RefinesStep ==
  ASSUME RateInv, [Next]_vars
  PROVE  [Abstract!Next]_<<left, charged, needs, standing>>
<1>1. TypeOK /\ CounterInv /\ CallInv
  BY DEF RateInv
<1>2. ASSUME NEW c \in Calls, OpenKv(c) PROVE Abstract!Next
  BY <1>1, <1>2, OpensAsBegins DEF Abstract!Next
<1>3. ASSUME NEW c \in Calls, ReadCounter(c)
      PROVE  Abstract!Next \/ UNCHANGED <<left, charged, needs, standing>>
  <2>1. /\ UNCHANGED <<began, counter, charged>> /\ pc[c] = "read"
        /\ \E l \in {"commit", "rejected", "threw"} : pc' = [pc EXCEPT ![c] = l]
    BY <1>3 DEF ReadCounter, Goto, historyVars
  <2>2. QED
    BY <1>1, <2>1, Moves
<1>4. ASSUME NEW c \in Calls, Charge(c) PROVE Abstract!Next
  BY <1>1, <1>4, ChargeTakes, CallCounter DEF Abstract!Next
<1>5. ASSUME NEW c \in Calls, Retry(c)
      PROVE  Abstract!Next \/ UNCHANGED <<left, charged, needs, standing>>
  <2>1. /\ UNCHANGED <<began, counter, charged>> /\ pc[c] = "commit"
        /\ \E l \in {"read", "rejected"} : pc' = [pc EXCEPT ![c] = l]
    BY <1>5 DEF Retry, CommitConflicts, Goto
  <2>2. QED
    BY <1>1, <2>1, Moves
<1>6. ASSUME NEW c \in Calls, CommitThrows(c)
      PROVE  Abstract!Next \/ UNCHANGED <<left, charged, needs, standing>>
  <2>1. UNCHANGED <<began, counter, charged>> /\ pc[c] = "commit" /\ pc' = [pc EXCEPT ![c] = "threw"]
    BY <1>6 DEF CommitThrows, Goto, historyVars
  <2>2. QED
    BY <1>1, <2>1, Moves
<1>7. CASE Tick \/ UNCHANGED vars
  BY <1>7 DEF Tick, vars, callVars, historyVars, left, needs, standing, CountersAt
<1>8. QED
  BY <1>2, <1>3, <1>4, <1>5, <1>6, <1>7 DEF Next

(* Whatever the number of concurrent calls, windows and attempts, the       *)
(* limiter's reads, conflicts and retries implement slots that are taken    *)
(* one at a time.                                                           *)
THEOREM Refinement == Spec => ImplementsSlots
<1>1. Init => Abstract!Init
  BY RefinesInit
<1>2. RateInv /\ [Next]_vars => [Abstract!Next]_(Abstract!vars)
  BY RefinesStep DEF Abstract!vars
<1>3. QED
  BY <1>1, <1>2, RateInvHolds, PTL DEF Spec, ImplementsSlots, Abstract!Spec
=============================================================================
