-------------------------- MODULE RegistrationProofs --------------------------
(* Theorems of what a registration goes through: the chain check of         *)
(* CertChain, the verdict on an attestation, and the issuing of a leaf.     *)
(* For any certificates, keys, dates and records the verdict means what     *)
(* AttestationVerdict says of it; for any number of registrations, any      *)
(* secrets and any times a leaf that is handed out stands up, an outage is  *)
(* forgotten, and a token outlives its use.                                 *)
EXTENDS LeafIssuance, AttestationVerdict, FiniteSetTheorems, SequenceTheorems, TLAPS

(* The chain check.                                                         *)
(* A non-empty set of naturals has a least element: the induction the       *)
(* recursive search for ways up needs, in first-order form.                 *)
LEMMA LeastNatural ==
  ASSUME NEW T, T \subseteq Nat, T # {}
  PROVE  \E x \in T : \A y \in T : x <= y
<1> DEFINE U == {0 .. x : x \in T}
<1>1. U \subseteq FiniteSubsetsOf(Nat)
  <2> SUFFICES ASSUME NEW x \in T PROVE 0 .. x \in FiniteSubsetsOf(Nat)
    OBVIOUS
  <2> QED
    BY FS_Interval DEF FiniteSubsetsOf
<1>2. U # {}
  OBVIOUS
<1>3. PICK u \in U : \A v \in U : <<v, u>> \notin StrictSubsetOrdering(Nat)
  <2> HIDE DEF U
  <2> QED
    BY <1>1, <1>2, FS_StrictSubsetOrderingWellFounded, WFMin
<1>4. PICK x \in T : u = 0 .. x
  OBVIOUS
<1>5. ASSUME NEW y \in T, y < x PROVE FALSE
  <2>1. 0 .. y \in U /\ 0 .. y \in SUBSET Nat /\ 0 .. x \in SUBSET Nat
    OBVIOUS
  <2>2. 0 .. y \subseteq 0 .. x /\ x \notin 0 .. y /\ x \in 0 .. x
    BY <1>5
  <2> QED
    BY <1>3, <1>4, <2>1, <2>2 DEF StrictSubsetOrdering
<1> QED
  BY <1>5

-----------------------------------------------------------------------------
(* The search for ways up, and what it finds.                               *)
Search(runtime, target, certs, roots, m, f) ==
  f = [n \in 1..m |-> IF n = 1 THEN {<<target>>} ELSE Longer(runtime, f[n - 1], certs, roots)]

(* The recursive search is a function.                                      *)
LEMMA SearchExists ==
  ASSUME NEW runtime, NEW target, NEW certs, NEW roots, NEW m \in Nat
  PROVE  \E f : Search(runtime, target, certs, roots, m, f)
<1> DEFINE S(k, f) == Search(runtime, target, certs, roots, k, f)
           T == {k \in Nat : ~\E f : S(k, f)}
<1>1. SUFFICES ASSUME T # {} PROVE FALSE
  OBVIOUS
<1>2. PICK k \in T : \A y \in T : k <= y
  BY <1>1, LeastNatural
<1>3. CASE k = 0
  <2>1. S(0, [n \in 1..0 |-> {}])
    BY DEF Search
  <2> QED
    BY <1>2, <1>3, <2>1
<1>4. CASE k # 0
  <2>1. k - 1 \in Nat /\ k - 1 \notin T
    BY <1>2, <1>4
  <2>2. PICK g : S(k - 1, g)
    BY <2>1
  <2> DEFINE next == IF k = 1 THEN {<<target>>} ELSE Longer(runtime, g[k - 1], certs, roots)
             f == [n \in 1..k |-> IF n = k THEN next ELSE g[n]]
  <2>3. \A n \in 1..k : f[n] = IF n = 1 THEN {<<target>>}
                                ELSE Longer(runtime, f[n - 1], certs, roots)
    <3> SUFFICES ASSUME NEW n \in 1..k
                 PROVE  f[n] = IF n = 1 THEN {<<target>>}
                               ELSE Longer(runtime, f[n - 1], certs, roots)
      OBVIOUS
    <3>1. n # 1 => n - 1 \in 1..k /\ n - 1 # k /\ f[n - 1] = g[n - 1]
      OBVIOUS
    <3>2. CASE n = k
      BY <3>1, <3>2
    <3>3. CASE n # k
      <4>1. n \in 1..(k - 1)
        BY <3>3
      <4>2. g[n] = IF n = 1 THEN {<<target>>} ELSE Longer(runtime, g[n - 1], certs, roots)
        BY <2>2, <4>1 DEF Search
      <4> QED
        BY <3>1, <3>3, <4>2
    <3> QED
      BY <3>2, <3>3
  <2>4. S(k, f)
    <3> HIDE DEF next
    <3> SUFFICES f = [n \in 1..k |-> IF n = 1 THEN {<<target>>}
                                     ELSE Longer(runtime, f[n - 1], certs, roots)]
      BY DEF Search
    <3>1. f = [n \in 1..k |-> f[n]]
      OBVIOUS
    <3> HIDE DEF f
    <3> QED
      BY <2>3, <3>1
  <2> QED
    BY <1>2, <2>4
<1> QED
  BY <1>3, <1>4

(* A way up, link by link: it starts at the target, every certificate is    *)
(* issued by the next, none is there twice, and only its last is a root.    *)
Climbs(runtime, target, certs, roots, w) ==
  /\ w \in Seq(certs \cup roots \cup {target}) /\ Len(w) > 0 /\ w[1] = target
  /\ \A i \in 2..Len(w) :
       /\ w[i] \in certs \cup roots /\ w[i - 1] \notin roots
       /\ IssuedBy(runtime, w[i - 1], w[i])
       /\ \A j \in 1..(i - 1) : w[j] # w[i]

(* A climb goes on to any certificate that issued its last.                 *)
LEMMA ClimbsOn ==
  ASSUME NEW runtime, NEW target, NEW certs, NEW roots, NEW w, NEW c,
         Climbs(runtime, target, certs, roots, w), Last(w) \notin roots,
         c \in (certs \cup roots) \ Range(w), IssuedBy(runtime, Last(w), c)
  PROVE  /\ Climbs(runtime, target, certs, roots, Append(w, c))
         /\ Len(Append(w, c)) = Len(w) + 1
<1> DEFINE v == Append(w, c)
<1>1. w \in Seq(certs \cup roots \cup {target}) /\ Len(w) \in Nat /\ Len(w) > 0 /\ w[1] = target
  BY DEF Climbs
<1>2. /\ v \in Seq(certs \cup roots \cup {target}) /\ Len(v) = Len(w) + 1
      /\ \A i \in 1..Len(w) : v[i] = w[i]
      /\ v[Len(w) + 1] = c
  BY <1>1
<1>3. \A i \in 1..Len(w) : w[i] # c
  BY <1>1 DEF Range
<1> HIDE DEF v
<1>4. ASSUME NEW i \in 2..Len(v)
      PROVE  /\ v[i] \in certs \cup roots /\ v[i - 1] \notin roots
             /\ IssuedBy(runtime, v[i - 1], v[i])
             /\ \A j \in 1..(i - 1) : v[j] # v[i]
  <2>1. CASE i \in 2..Len(w)
    <3>1. v[i] = w[i] /\ v[i - 1] = w[i - 1] /\ \A j \in 1..(i - 1) : v[j] = w[j]
      BY <1>1, <1>2, <2>1
    <3> QED
      BY <2>1, <3>1 DEF Climbs
  <2>2. CASE i = Len(w) + 1
    <3>1. v[i] = c /\ v[i - 1] = Last(w) /\ \A j \in 1..(i - 1) : v[j] = w[j]
      BY <1>1, <1>2, <2>2 DEF Last
    <3> QED
      BY <1>1, <1>3, <2>2, <3>1
  <2> QED
    BY <1>1, <1>2, <2>1, <2>2
<1> QED
  BY <1>1, <1>2, <1>4 DEF v, Climbs

(* A climb of two or more is a climb and one step on.                       *)
LEMMA ClimbsBack ==
  ASSUME NEW runtime, NEW target, NEW certs, NEW roots, NEW v,
         Climbs(runtime, target, certs, roots, v), Len(v) > 1
  PROVE  \E w, c : /\ Climbs(runtime, target, certs, roots, w) /\ Len(w) = Len(v) - 1
                   /\ Last(w) \notin roots /\ c \in (certs \cup roots) \ Range(w)
                   /\ IssuedBy(runtime, Last(w), c) /\ v = Append(w, c)
<1> DEFINE S == certs \cup roots \cup {target}
           w == [k \in 1..(Len(v) - 1) |-> v[k]]
           c == v[Len(v)]
<1>1. v \in Seq(S) /\ Len(v) \in Nat /\ v[1] = target
  BY DEF Climbs
<1>2. w \in Seq(S) /\ Len(w) = Len(v) - 1 /\ \A k \in 1..Len(w) : w[k] = v[k]
  BY <1>1
<1>3. v = Append(w, c)
  BY <1>1, <1>2
<1> HIDE DEF w
<1>4. Last(w) = v[Len(v) - 1]
  BY <1>1, <1>2 DEF Last
<1>5. Last(w) \notin roots /\ c \in certs \cup roots /\ IssuedBy(runtime, Last(w), c)
  BY <1>1, <1>4 DEF Climbs
<1>6. c \notin Range(w)
  BY <1>1, <1>2 DEF Climbs, Range
<1>7. Climbs(runtime, target, certs, roots, w)
  BY <1>1, <1>2 DEF Climbs
<1> QED
  BY <1>2, <1>3, <1>5, <1>6, <1>7

(* Round n of the search finds the climbs of n certificates.                *)
LEMMA SearchFinds ==
  ASSUME NEW runtime, NEW target, NEW certs, NEW roots, NEW m \in Nat, NEW f,
         Search(runtime, target, certs, roots, m, f), NEW n \in 1..m
  PROVE  \A w : w \in f[n] <=> Climbs(runtime, target, certs, roots, w) /\ Len(w) = n
<1> DEFINE C(w) == Climbs(runtime, target, certs, roots, w)
           P(k) == \A w : w \in f[k] <=> C(w) /\ Len(w) = k
           T == {k \in 1..m : ~P(k)}
<1>1. SUFFICES ASSUME T # {} PROVE FALSE
  OBVIOUS
<1>2. PICK k \in T : \A y \in T : k <= y
  <2>1. T \subseteq Nat
    OBVIOUS
  <2> HIDE DEF T
  <2> QED
    BY <1>1, <2>1, LeastNatural
<1> HIDE DEF C
<1>3. CASE k = 1
  <2>1. f[1] = {<<target>>}
    BY <1>3 DEF Search
  <2>2. C(<<target>>)
    BY DEF C, Climbs
  <2>3. ASSUME NEW w, C(w), Len(w) = 1 PROVE w = <<target>>
    BY <2>3 DEF C, Climbs
  <2> QED
    BY <1>2, <1>3, <2>1, <2>2, <2>3
<1>4. CASE k # 1
  <2>1. k - 1 \in 1..m /\ P(k - 1)
    <3>1. k - 1 \in 1..m /\ k - 1 \notin T
      BY <1>2, <1>4
    <3> QED
      BY <3>1
  <2>2. f[k] = Longer(runtime, f[k - 1], certs, roots)
    BY <1>4 DEF Search
  <2>3. ASSUME NEW w PROVE w \in f[k] <=> C(w) /\ Len(w) = k
    <3>1. ASSUME w \in f[k] PROVE C(w) /\ Len(w) = k
      <4>1. PICK u, c : /\ u \in f[k - 1] /\ Last(u) \notin roots
                        /\ c \in (certs \cup roots) \ Range(u)
                        /\ IssuedBy(runtime, Last(u), c) /\ w = Append(u, c)
        BY <2>2, <3>1 DEF Longer
      <4>2. C(u) /\ Len(u) = k - 1
        BY <2>1, <4>1
      <4> QED
        BY <4>1, <4>2, ClimbsOn DEF C
    <3>2. ASSUME C(w), Len(w) = k PROVE w \in f[k]
      <4>1. PICK u, c : /\ C(u) /\ Len(u) = k - 1
                        /\ Last(u) \notin roots /\ c \in (certs \cup roots) \ Range(u)
                        /\ IssuedBy(runtime, Last(u), c) /\ w = Append(u, c)
        BY <1>4, <3>2, ClimbsBack DEF C
      <4>2. u \in f[k - 1]
        BY <2>1, <4>1
      <4> QED
        BY <2>2, <4>1, <4>2 DEF Longer
    <3> QED
      BY <3>1, <3>2
  <2> QED
    BY <1>2, <2>3
<1> QED
  BY <1>3, <1>4

(* The ways up are exactly the climbs that end at a root.                   *)
LEMMA WaysUpAreClimbs ==
  ASSUME NEW runtime, NEW target, NEW certs, NEW roots, IsFiniteSet(certs \cup roots)
  PROVE  \A w : w \in WaysUp(runtime, target, certs, roots) <=>
                  /\ Climbs(runtime, target, certs, roots, w)
                  /\ Len(w) <= Cardinality(certs \cup roots) /\ Last(w) \in roots
<1> DEFINE m == Cardinality(certs \cup roots)
           f == CHOOSE f : f = [n \in 1..m |-> IF n = 1 THEN {<<target>>}
                                               ELSE Longer(runtime, f[n - 1], certs, roots)]
<1>1. m \in Nat
  BY FS_CardinalityType
<1>2. Search(runtime, target, certs, roots, m, f)
  <2> HIDE DEF m
  <2>1. \E g : g = [n \in 1..m |-> IF n = 1 THEN {<<target>>}
                                   ELSE Longer(runtime, g[n - 1], certs, roots)]
    <3>1. \E g : Search(runtime, target, certs, roots, m, g)
      BY <1>1, SearchExists
    <3> QED
      BY <3>1 DEF Search
  <2> QED
    BY <2>1, Zenon DEF Search
<1>3. WaysUp(runtime, target, certs, roots) = {w \in UNION {f[n] : n \in 1..m} : Last(w) \in roots}
  BY DEF WaysUp
<1> HIDE DEF m, f
<1>4. ASSUME NEW w, Climbs(runtime, target, certs, roots, w) PROVE Len(w) \in Nat /\ Len(w) > 0
  BY <1>4 DEF Climbs
<1>5. ASSUME NEW w
      PROVE  w \in UNION {f[n] : n \in 1..m} <=>
               Climbs(runtime, target, certs, roots, w) /\ Len(w) <= m
  <2>1. ASSUME NEW n \in 1..m, w \in f[n]
        PROVE  Climbs(runtime, target, certs, roots, w) /\ Len(w) <= m
    BY <1>1, <1>2, <2>1, SearchFinds
  <2>2. ASSUME Climbs(runtime, target, certs, roots, w), Len(w) <= m
        PROVE  \E n \in 1..m : w \in f[n]
    <3>1. Len(w) \in 1..m
      BY <1>1, <1>4, <2>2
    <3> QED
      BY <1>1, <1>2, <2>2, <3>1, SearchFinds
  <2> QED
    BY <2>1, <2>2
<1> QED
  BY <1>3, <1>5 DEF m

(* Where any line of certificates leads from the target to a root, the      *)
(* search finds a way up: the shortest such line repeats nothing.           *)
Leads(runtime, target, certs, roots, p) ==
  /\ p \in Seq(certs \cup roots) /\ Len(p) > 0 /\ p[1] = target /\ p[Len(p)] \in roots
  /\ \A i \in 2..Len(p) : IssuedBy(runtime, p[i - 1], p[i])

(* Of all the lines that lead up, take a shortest: it climbs.               *)
LEMMA LinesLeadUp ==
  ASSUME NEW runtime, NEW target, NEW certs, NEW roots, IsFiniteSet(certs \cup roots),
         \E p : Leads(runtime, target, certs, roots, p)
  PROVE  WaysUp(runtime, target, certs, roots) # {}
<1> DEFINE S == certs \cup roots
           L(p) == Leads(runtime, target, certs, roots, p)
           T == {k \in Nat : \E p : L(p) /\ Len(p) = k}
<1>1. PICK k \in T : \A y \in T : k <= y
  <2>1. T \subseteq Nat /\ T # {}
    BY DEF Leads
  <2> HIDE DEF T
  <2> QED
    BY <2>1, LeastNatural
<1>2. PICK p : L(p) /\ Len(p) = k
  OBVIOUS
<1>3. /\ k \in Nat /\ k > 0 /\ p \in Seq(S) /\ p[1] = target /\ p[k] \in roots
      /\ \A i \in 1..k : p[i] \in S
      /\ \A i \in 2..k : IssuedBy(runtime, p[i - 1], p[i])
  BY <1>2 DEF Leads
<1>4. ASSUME NEW q, L(q) PROVE k <= Len(q)
  <2>1. Len(q) \in Nat
    BY <1>4 DEF Leads
  <2> QED
    BY <1>1, <1>4, <2>1
<1>5. ASSUME NEW i \in 1..k, p[i] \in roots PROVE i = k
  <2> DEFINE q == [n \in 1..i |-> p[n]]
  <2>1. q \in Seq(S) /\ Len(q) = i /\ \A n \in 1..i : q[n] = p[n]
    BY <1>3
  <2> HIDE DEF q
  <2>2. L(q)
    BY <1>3, <1>5, <2>1 DEF Leads
  <2> QED
    BY <1>3, <1>4, <2>1, <2>2
<1>6. ASSUME NEW i \in 1..k, NEW j \in 1..(i - 1), p[j] = p[i] PROVE FALSE
  <2> DEFINE d == i - j
             q == [n \in 1..(k - d) |-> IF n <= j THEN p[n] ELSE p[n + d]]
  <2>1. d \in 1..(k - 1) /\ j \in 1..(k - d) /\ d + j = i /\ k - d \in Nat
    BY <1>3
  <2> HIDE DEF d
  <2>2. \A n \in 1..(k - d) : q[n] = IF n <= j THEN p[n] ELSE p[n + d]
    OBVIOUS
  <2>3. q \in Seq(S) /\ Len(q) = k - d
    <3>1. \A n \in 1..(k - d) : q[n] \in S
      BY <1>3, <2>1
    <3> QED
      BY <2>1, <3>1
  <2> HIDE DEF q
  <2>4. q[1] = target
    <3>1. 1 \in 1..(k - d) /\ 1 <= j
      BY <2>1
    <3> QED
      BY <1>3, <2>2, <3>1
  <2>5. q[k - d] \in roots
    <3>1. CASE k - d = j
      <4>1. i = k /\ q[k - d] = p[j]
        BY <2>1, <2>2, <3>1
      <4> QED
        BY <1>3, <1>6, <4>1
    <3>2. CASE k - d # j
      BY <1>3, <2>1, <2>2, <3>2
    <3> QED
      BY <3>1, <3>2
  <2>6. ASSUME NEW n \in 2..(k - d) PROVE IssuedBy(runtime, q[n - 1], q[n])
    <3>1. CASE n <= j
      <4>1. q[n] = p[n] /\ q[n - 1] = p[n - 1] /\ n \in 2..k
        BY <2>1, <2>2, <3>1
      <4> QED
        BY <1>3, <4>1
    <3>2. CASE n = j + 1
      <4>1. q[n] = p[i + 1] /\ q[n - 1] = p[i] /\ i + 1 \in 2..k /\ (i + 1) - 1 = i
        BY <1>6, <2>1, <2>2, <3>2
      <4> QED
        BY <1>3, <4>1
    <3>3. CASE n > j + 1
      <4>1. /\ q[n] = p[n + d] /\ q[n - 1] = p[(n - 1) + d]
            /\ n + d \in 2..k /\ (n + d) - 1 = (n - 1) + d
        BY <2>1, <2>2, <3>3
      <4> QED
        BY <1>3, <4>1
    <3> QED
      BY <2>1, <3>1, <3>2, <3>3
  <2>7. L(q)
    BY <2>1, <2>3, <2>4, <2>5, <2>6 DEF Leads
  <2> QED
    BY <1>3, <1>4, <2>1, <2>3, <2>7
<1>7. Climbs(runtime, target, certs, roots, p)
  <2>1. p \in Seq(S \cup {target})
    BY <1>3
  <2>2. \A i \in 2..k : p[i] \in S /\ p[i - 1] \notin roots
    BY <1>3, <1>5
  <2>3. \A i \in 2..k : \A j \in 1..(i - 1) : p[j] # p[i]
    BY <1>3, <1>6
  <2> QED
    BY <1>2, <1>3, <2>1, <2>2, <2>3 DEF Climbs
<1>8. k <= Cardinality(S)
  <2>1. p \in [1..k -> S]
    BY <1>2, <1>3
  <2>2. IsFiniteSet(1..k) /\ Cardinality(1..k) = k /\ Cardinality(S) \in Nat
    BY <1>3, FS_Interval, FS_CardinalityType
  <2>3. ASSUME Cardinality(S) < k PROVE FALSE
    <3>1. PICK x, y \in 1..k : x # y /\ p[x] = p[y]
      BY <2>1, <2>2, <2>3, FS_PigeonHole
    <3>2. y \in 1..(x - 1) \/ x \in 1..(y - 1)
      BY <1>3, <3>1
    <3> QED
      BY <1>6, <3>1, <3>2
  <2> QED
    BY <1>3, <2>2, <2>3
<1>9. Last(p) \in roots
  BY <1>2, <1>3 DEF Last
<1> QED
  BY <1>2, <1>7, <1>8, <1>9, WaysUpAreClimbs

-----------------------------------------------------------------------------
(* The calendar.                                                            *)
(* The year within its four centuries and the day within its year, counted  *)
(* from the first of March.                                                 *)
LEMMA DayOfYear ==
  ASSUME NEW doe \in Int, NEW a \in Int, NEW c \in Int, NEW e \in Int,
         NEW q \in Int, NEW f \in Int, NEW g \in Int,
         0 <= doe, doe <= 146096,
         1460 * a <= doe, doe < 1460 * a + 1460,
         36524 * c <= doe, doe < 36524 * c + 36524,
         146096 * e <= doe, doe < 146096 * e + 146096,
         365 * q <= doe - a + c - e, doe - a + c - e < 365 * q + 365,
         4 * f <= q, q < 4 * f + 4, 100 * g <= q, q < 100 * g + 100
  PROVE  0 <= doe - (365 * q + f - g) /\ doe - (365 * q + f - g) <= 365
<1>1. CASE doe = 146096
  <2>1. a = 100 /\ c = 4 /\ e = 1 /\ q = 399
    BY <1>1
  <2>2. f = 99 /\ g = 3
    BY <2>1
  <2> QED
    BY <1>1, <2>1, <2>2
<1>2. CASE doe < 146096
  <2>1. e = 0 /\ (c = 0 \/ c = 1 \/ c = 2 \/ c = 3)
    BY <1>2
  <2>2. 100 * c <= q /\ q < 100 * c + 100
    <3>1. CASE c = 0
      BY <2>1, <3>1
    <3>2. CASE c = 1
      BY <2>1, <3>2
    <3>3. CASE c = 2
      BY <2>1, <3>3
    <3>4. CASE c = 3
      BY <1>2, <2>1, <3>4
    <3> QED
      BY <2>1, <3>1, <3>2, <3>3, <3>4
  <2>3. g = c
    BY <2>1, <2>2
  <2>4. 0 <= a /\ a <= 100 /\ (c > 0 => a >= 25)
    BY <1>2, <2>1
  <2>5. f <= a
    BY <2>1, <2>4
  <2>6. a <= f + 1
    BY <2>1, <2>4
  <2> QED
    BY <2>1, <2>3, <2>5, <2>6
<1> QED
  BY <1>1, <1>2

(* Quotients by what a calendar divides by.                                 *)
LEMMA Quotients ==
  ASSUME NEW x \in Int
  PROVE  /\ x \div 1460 \in Int /\ 1460 * (x \div 1460) <= x /\ x < 1460 * (x \div 1460) + 1460
         /\ x \div 36524 \in Int /\ 36524 * (x \div 36524) <= x /\ x < 36524 * (x \div 36524) + 36524
         /\ x \div 146096 \in Int /\ 146096 * (x \div 146096) <= x
                                    /\ x < 146096 * (x \div 146096) + 146096
         /\ x \div 365 \in Int /\ 365 * (x \div 365) <= x /\ x < 365 * (x \div 365) + 365
         /\ x \div 4 \in Int /\ 4 * (x \div 4) <= x /\ x < 4 * (x \div 4) + 4
         /\ x \div 100 \in Int /\ 100 * (x \div 100) <= x /\ x < 100 * (x \div 100) + 100
         /\ x \div 153 \in Int /\ 153 * (x \div 153) <= x /\ x < 153 * (x \div 153) + 153
         /\ x \div 5 \in Int /\ x \div 146097 \in Int
         /\ x % 146097 \in Int /\ 0 <= x % 146097 /\ x % 146097 < 146097
OBVIOUS

(* A Date's month is one of twelve. *)
LEMMA CivilMonth ==
  ASSUME NEW day \in Int
  PROVE  Civil(day).month \in 1..12 /\ Civil(day).year \in Int /\ Civil(day).day \in Int
<1> DEFINE z == day + 719468
           era == z \div 146097
           doe == z % 146097
           a == doe \div 1460
           c == doe \div 36524
           e == doe \div 146096
           yoe == (doe - a + c - e) \div 365
           f == yoe \div 4
           g == yoe \div 100
           doy == doe - ((365 * yoe) + f - g)
           mp == ((5 * doy) + 2) \div 153
           month == IF mp < 10 THEN mp + 3 ELSE mp - 9
<1>1. /\ Civil(day).month = month /\ Civil(day).day = doy - (((153 * mp) + 2) \div 5) + 1
      /\ Civil(day).year = yoe + era * 400 + (IF month <= 2 THEN 1 ELSE 0)
  BY DEF Civil
<1>2. doe \in Int /\ 0 <= doe /\ doe <= 146096 /\ era \in Int
  <2>1. z \in Int
    OBVIOUS
  <2> HIDE DEF z
  <2>2. z % 146097 \in Int /\ 0 <= z % 146097 /\ z % 146097 < 146097 /\ z \div 146097 \in Int
    BY <2>1, Quotients
  <2> QED
    BY <2>2
<1> HIDE DEF doe, era
<1>3. /\ a \in Int /\ 1460 * a <= doe /\ doe < 1460 * a + 1460
      /\ c \in Int /\ 36524 * c <= doe /\ doe < 36524 * c + 36524
      /\ e \in Int /\ 146096 * e <= doe /\ doe < 146096 * e + 146096
  BY <1>2, Quotients
<1> HIDE DEF a, c, e
<1>4. yoe \in Int /\ 365 * yoe <= doe - a + c - e /\ doe - a + c - e < 365 * yoe + 365
  <2>1. doe - a + c - e \in Int
    BY <1>2, <1>3
  <2> QED
    BY <2>1, Quotients
<1> HIDE DEF yoe
<1>5. f \in Int /\ 4 * f <= yoe /\ yoe < 4 * f + 4 /\ g \in Int /\ 100 * g <= yoe /\ yoe < 100 * g + 100
  BY <1>4, Quotients
<1> HIDE DEF f, g
<1>6. doy \in Int /\ 0 <= doy /\ doy <= 365
  BY <1>2, <1>3, <1>4, <1>5, DayOfYear
<1> HIDE DEF doy
<1>7. mp \in Int /\ 0 <= mp /\ mp <= 11
  <2>1. (5 * doy) + 2 \in Int
    BY <1>6
  <2>2. mp \in Int /\ 153 * mp <= (5 * doy) + 2 /\ (5 * doy) + 2 < 153 * mp + 153
    BY <2>1, Quotients
  <2> HIDE DEF mp
  <2> QED
    BY <1>6, <2>2
<1> HIDE DEF mp
<1>8. month \in 1..12 /\ (153 * mp) + 2 \in Int
  BY <1>7
<1> HIDE DEF month
<1>9. doy - (((153 * mp) + 2) \div 5) + 1 \in Int
  BY <1>6, <1>8, Quotients
<1> QED
  BY <1>1, <1>2, <1>4, <1>8, <1>9

(* Months counted from year 0, and written YYYYMM. *)
MonthNumber(n) == ((n \div 12) * 100) + (n % 12) + 1

(* Twelve months to the year.                                               *)
LEMMA TwelveMonths ==
  ASSUME NEW q \in Int, NEW r \in Int, 0 <= r, r <= 11
  PROVE  (12 * q + r) \div 12 = q /\ (12 * q + r) % 12 = r
OBVIOUS

(* A month is the last two digits of YYYYMM.                                *)
LEMMA HundredMonths ==
  ASSUME NEW q \in Int, NEW r \in Int, 0 <= r, r <= 99
  PROVE  (100 * q + r) % 100 = r
OBVIOUS

(* Month r of year q, as it is written.                                     *)
LEMMA MonthWritten ==
  ASSUME NEW q \in Int, NEW r \in Int, 0 <= r, r <= 11
  PROVE  MonthNumber(12 * q + r) = 100 * q + r + 1
BY TwelveMonths DEF MonthNumber

(* A month earlier and a month later, as they are written.                  *)
LEMMA MonthSteps ==
  ASSUME NEW n \in Int
  PROVE  /\ MonthNumber(n) \in Int
         /\ MonthBefore(MonthNumber(n)) = MonthNumber(n - 1)
         /\ MonthAfter(MonthNumber(n)) = MonthNumber(n + 1)
<1>1. PICK q \in Int, r \in Int : n = 12 * q + r /\ 0 <= r /\ r <= 11
  <2> DEFINE d == n \div 12
  <2>1. d \in Int /\ 12 * d <= n /\ n < 12 * d + 12
    OBVIOUS
  <2> HIDE DEF d
  <2>2. n - 12 * d \in Int /\ n = 12 * d + (n - 12 * d) /\ 0 <= n - 12 * d /\ n - 12 * d <= 11
    BY <2>1
  <2> QED
    BY <2>1, <2>2
<1>2. MonthNumber(n) = 100 * q + r + 1
  BY <1>1, MonthWritten
<1>3. MonthNumber(n) % 100 = r + 1
  <2>1. MonthNumber(n) = 100 * q + (r + 1) /\ 0 <= r + 1 /\ r + 1 <= 99
    BY <1>1, <1>2
  <2> QED
    BY <1>1, <2>1, HundredMonths
<1>4. MonthNumber(n - 1) = IF r = 0 THEN 100 * q - 88 ELSE 100 * q + r
  <2>1. CASE r = 0
    <3> DEFINE s == q - 1
    <3>2. s \in Int /\ n - 1 = 12 * s + 11 /\ 100 * s = 100 * q - 100
      BY <1>1, <2>1
    <3> HIDE DEF s
    <3>3. MonthNumber(12 * s + 11) = 100 * s + 11 + 1
      BY <3>2, MonthWritten
    <3>4. MonthNumber(n - 1) = 100 * s + 12
      BY <3>2, <3>3
    <3>5. MonthNumber(n - 1) = 100 * q - 88
      BY <1>1, <3>2, <3>4
    <3> QED
      BY <2>1, <3>5
  <2>2. CASE r # 0
    <3> DEFINE s == r - 1
    <3>1. s \in Int /\ 0 <= s /\ s <= 11 /\ n - 1 = 12 * q + s /\ r = s + 1
      BY <1>1, <2>2
    <3> HIDE DEF s
    <3>2. MonthNumber(12 * q + s) = 100 * q + s + 1
      BY <1>1, <3>1, MonthWritten
    <3> QED
      BY <1>1, <2>2, <3>1, <3>2
  <2> QED
    BY <2>1, <2>2
<1>5. MonthNumber(n + 1) = IF r = 11 THEN 100 * q + 101 ELSE 100 * q + r + 2
  <2>1. CASE r = 11
    <3> DEFINE s == q + 1
    <3>2. s \in Int /\ n + 1 = 12 * s /\ 100 * s = 100 * q + 100
      BY <1>1, <2>1
    <3> HIDE DEF s
    <3>3. PICK z \in Int : z = 0
      OBVIOUS
    <3>4. 0 <= z /\ z <= 11 /\ n + 1 = 12 * s + z
      BY <3>2, <3>3
    <3>5. MonthNumber(12 * s + z) = 100 * s + z + 1
      BY <3>2, <3>4, MonthWritten
    <3>6. MonthNumber(n + 1) = 100 * s + z + 1
      BY <3>4, <3>5
    <3>7. MonthNumber(n + 1) = 100 * q + 101
      BY <1>1, <3>2, <3>3, <3>6
    <3> QED
      BY <2>1, <3>7
  <2>2. CASE r # 11
    <3> DEFINE s == r + 1
    <3>1. s \in Int /\ 0 <= s /\ s <= 11 /\ n + 1 = 12 * q + s /\ r + 2 = s + 1
      BY <1>1, <2>2
    <3> HIDE DEF s
    <3>2. MonthNumber(12 * q + s) = 100 * q + s + 1
      BY <1>1, <3>1, MonthWritten
    <3>3. MonthNumber(n + 1) = 100 * q + r + 2
      BY <1>1, <3>1, <3>2
    <3> QED
      BY <2>2, <3>3
  <2> QED
    BY <2>1, <2>2
<1> HIDE DEF MonthNumber
<1>6. MonthBefore(MonthNumber(n)) = MonthNumber(n - 1)
  BY <1>1, <1>2, <1>3, <1>4 DEF MonthBefore
<1>7. MonthAfter(MonthNumber(n)) = MonthNumber(n + 1)
  BY <1>1, <1>2, <1>3, <1>5 DEF MonthAfter
<1> QED
  BY <1>1, <1>2, <1>6, <1>7

(* The floors and ceilings of the patch windows, counted by the code, are   *)
(* the ones the calendar reaches step by step.                              *)
LEMMA MonthWindow ==
  ASSUME sent.now \in Nat
  PROVE  /\ MonthFloor(sent.now, OsPatchMaxAgeMonths) = Oldest("os")
         /\ MonthFloor(sent.now, -1) = Newest("os")
         /\ Oldest("os") \in Int /\ Newest("os") \in Int
<1> DEFINE y == Civil(sent.now).year
           mo == Civil(sent.now).month
           n == y * 12 + mo - 1
<1>1. y \in Int /\ mo \in 1..12
  BY CivilMonth
<1>2. /\ MonthFloor(sent.now, OsPatchMaxAgeMonths) = MonthNumber(n - 3)
      /\ MonthFloor(sent.now, -1) = MonthNumber(n - (-1))
  <2>1. ASSUME NEW k \in Int PROVE MonthFloor(sent.now, k) = MonthNumber(n - k)
    BY <1>1 DEF MonthFloor, MonthNumber
  <2> QED
    BY <2>1 DEF OsPatchMaxAgeMonths
<1>3. ThisMonth = y * 100 + mo
  BY DEF ThisMonth
<1> HIDE DEF y, mo
<1>4. n \in Int /\ n - (-1) = n + 1 /\ (n - 1) - 1 = n - 2 /\ (n - 2) - 1 = n - 3
  BY <1>1
<1>5. ThisMonth = MonthNumber(n)
  <2>1. n = 12 * y + (mo - 1) /\ mo - 1 \in Int /\ 0 <= mo - 1 /\ mo - 1 <= 11
    BY <1>1
  <2> HIDE DEF n
  <2>2. MonthNumber(n) = 100 * y + (mo - 1) + 1
    BY <1>1, <2>1, MonthWritten
  <2>3. MonthNumber(n) = 100 * y + mo
    BY <1>1, <2>2
  <2> QED
    BY <1>1, <1>3, <2>3
<1> HIDE DEF n
<1>6. n - 1 \in Int /\ n - 2 \in Int /\ n - 3 \in Int /\ n + 1 \in Int
  BY <1>4
<1>7. /\ MonthBefore(MonthNumber(n)) = MonthNumber(n - 1)
      /\ MonthBefore(MonthNumber(n - 1)) = MonthNumber(n - 2)
      /\ MonthBefore(MonthNumber(n - 2)) = MonthNumber(n - 3)
      /\ MonthAfter(MonthNumber(n)) = MonthNumber(n + 1)
      /\ MonthNumber(n - 3) \in Int /\ MonthNumber(n + 1) \in Int
  BY <1>4, <1>6, MonthSteps
<1> QED
  BY <1>2, <1>4, <1>5, <1>7 DEF Oldest, Newest

(* The same for the days of the firmware patch levels.                      *)
LEMMA DayWindow ==
  ASSUME sent.now \in Nat, NEW p \in {"vendor", "boot"}
  PROVE  /\ DayFloor(sent.now, FirmwarePatchMaxAgeDays) = Oldest(p)
         /\ DayFloor(sent.now, -31) = Newest(p)
         /\ Oldest(p) \in Int /\ Newest(p) \in Int
<1>1. sent.now - (-31) = sent.now + 31
  OBVIOUS
<1>2. /\ DayFloor(sent.now, FirmwarePatchMaxAgeDays) = Ymd(sent.now - 90)
      /\ DayFloor(sent.now, -31) = Ymd(sent.now + 31)
  BY <1>1 DEF DayFloor, FirmwarePatchMaxAgeDays, Ymd
<1>3. Ymd(sent.now - 90) \in Int /\ Ymd(sent.now + 31) \in Int
  <2>1. sent.now - 90 \in Int /\ sent.now + 31 \in Int
    OBVIOUS
  <2>2. ASSUME NEW day \in Int PROVE Ymd(day) \in Int
    BY CivilMonth DEF Ymd
  <2> QED
    BY <2>1, <2>2
<1> QED
  BY <1>2, <1>3 DEF Oldest, Newest

-----------------------------------------------------------------------------
(* An attestation's chain.                                                  *)
LEMMA UpTo ==
  ASSUME NEW k \in Nat
  PROVE  IsFiniteSet(1..k) /\ Cardinality(1..k) = k
<1>1. 1 \in Int /\ k \in Int
  OBVIOUS
<1>2. IsFiniteSet(1..k) /\ Cardinality(1..k) = IF 1 > k THEN 0 ELSE k - 1 + 1
  BY <1>1, FS_Interval
<1> QED
  BY <1>2

(* Whatever the runtime, the engine verifies the signatures anyone could.   *)
LEMMA VerifiedIsReal ==
  ASSUME NEW runtime \in Runtime, NEW spki \in Spki, NEW signature \in Signature
  PROVE  VerifyWithPublicKey(runtime, spki, signature) <=> RealSignature(spki, signature)
<1> USE DEF VerifyWithPublicKey, FallbackApplies, WebCryptoVerifies, RealSignature, Readable,
            Runtime, Spki, Signature, FallbackHashes, RsaHashes
<1>1. /\ DOMAIN NaturalHash = {"P256", "P384", "P521"}
      /\ NaturalHash["P256"] \in FallbackHashes /\ NaturalHash["P384"] \in FallbackHashes
      /\ NaturalHash["P521"] \in FallbackHashes
  BY DEF NaturalHash
<1>2. spki.curve \in DOMAIN NaturalHash <=> spki.curve # "other"
  BY <1>1
<1>3. signature.shape \in {"der", "ber"} <=> signature.shape # "malformed"
  OBVIOUS
<1>4. /\ signature.hash \in FallbackHashes <=> signature.hash \notin {"SHA-1", "SHA-224"}
      /\ signature.hash \in RsaHashes <=> signature.hash # "SHA-224"
  OBVIOUS
<1> QED
  BY <1>2, <1>3, <1>4

(* The roots of the platform at hand, as pinned.                            *)
LEMMA RootsAreCerts ==
  /\ IsFiniteSet(Roots)
  /\ \A root \in Roots : IsCert(root) /\ root.ext.v300 = NoExtension
                         /\ root.ext.legacy = NoExtension /\ root.ext.nonce = NoExtension
<1>1. Roots \subseteq PinnedRoots
  BY DEF Roots, PinnedRoots
<1>2. IsFiniteSet(Roots)
  BY <1>1, RootsAssumption, FS_Subset
<1> QED
  BY <1>1, <1>2, RootsAssumption

(* The engine takes as issuer whoever vouches.                              *)
LEMMA IssuedIsVouched ==
  ASSUME NEW runtime \in Runtime, NEW cert, NEW issuer, IsCert(cert), IsCert(issuer)
  PROVE  IssuedBy(runtime, cert, issuer) <=> Vouches(issuer, cert)
BY VerifiedIsReal DEF IssuedBy, Vouches, IsCert

(* What is handed to the engine: the chain, or all of it but its top.       *)
LEMMA PresentedIsChain ==
  ASSUME IsAttestation(sent), Len(sent.chain) > 1
  PROVE  LET P == Presented(sent.chain)
             n == Len(sent.chain)
         IN  /\ P \in Seq(Range(sent.chain)) /\ n \in Nat
             /\ Len(P) = IF SelfSigned(sent.chain[n]) THEN n - 1 ELSE n
             /\ \A i \in 1..Len(P) : P[i] = sent.chain[i]
             /\ Head(P) = sent.chain[1]
<1>1. sent.chain \in Seq(Range(sent.chain))
  BY DEF IsAttestation
<1> DEFINE S == Range(sent.chain)
           n == Len(sent.chain)
           P == Presented(sent.chain)
<1>2. n \in Nat /\ n > 1 /\ Head(sent.chain) = sent.chain[1]
  BY <1>1
<1>3. CASE SelfSigned(sent.chain[n])
  <2>1. P = SubSeq(sent.chain, 1, n - 1)
    BY <1>3 DEF Presented, Front, Last
  <2> QED
    BY <1>1, <1>2, <1>3, <2>1
<1>4. CASE ~SelfSigned(sent.chain[n])
  <2>1. P = sent.chain
    BY <1>4 DEF Presented, Last
  <2> QED
    BY <1>1, <1>2, <1>4, <2>1
<1> QED
  BY <1>3, <1>4

(* What a chain that was read consists of.                                  *)
LEMMA ChainIsCerts ==
  ASSUME IsAttestation(sent)
  PROVE  /\ sent.chain \in Seq(Range(sent.chain)) /\ Len(sent.chain) \in Nat
         /\ DOMAIN sent.chain = 1..Len(sent.chain)
         /\ \A i \in 1..Len(sent.chain) : IsCert(sent.chain[i]) /\ sent.chain[i] \in Range(sent.chain)
         /\ IsFiniteSet(Range(sent.chain))
<1>1. /\ sent.chain \in Seq(Range(sent.chain)) /\ Len(sent.chain) \in Nat
      /\ DOMAIN sent.chain = 1..Len(sent.chain)
  BY DEF IsAttestation
<1>2. \A i \in 1..Len(sent.chain) : IsCert(sent.chain[i]) /\ sent.chain[i] \in Range(sent.chain)
  BY <1>1 DEF IsAttestation, Range
<1>3. IsFiniteSet(Range(sent.chain))
  <2>1. IsFiniteSet(1..Len(sent.chain))
    BY <1>1, FS_Interval
  <2>2. Range(sent.chain) = {sent.chain[i] : i \in 1..Len(sent.chain)}
    BY <1>1 DEF Range
  <2>3. sent.chain \in Surjection(1..Len(sent.chain), Range(sent.chain))
    BY <1>1, <2>2 DEF Surjection
  <2> QED
    BY <2>1, <2>3, FS_Surjection
<1> QED
  BY <1>1, <1>2, <1>3

Handed == Range(Presented(sent.chain))

(* What the engine gets to search.                                          *)
LEMMA HandedCerts ==
  ASSUME IsAttestation(sent), Len(sent.chain) > 1
  PROVE  /\ IsFiniteSet(Handed \cup Roots) /\ Handed \subseteq Range(sent.chain)
         /\ sent.chain[1] \in Handed /\ IsCert(sent.chain[1])
         /\ \A c \in Handed \cup Roots : IsCert(c)
<1>1. Handed \subseteq Range(sent.chain) /\ sent.chain[1] \in Handed
  BY PresentedIsChain DEF Handed, Range
<1>2. IsFiniteSet(Handed \cup Roots)
  BY <1>1, ChainIsCerts, RootsAreCerts, FS_Subset, FS_Union
<1>3. \A c \in Range(sent.chain) : IsCert(c)
  BY DEF IsAttestation
<1> QED
  BY <1>1, <1>2, <1>3, RootsAreCerts
(* Passing the chain check, a key's certificate is anchored.                *)
LEMMA PassedIsAnchored ==
  ASSUME IsServer(server), IsAttestation(sent), Len(sent.chain) > 1,
         sent.chain[1] \notin Roots, TRUE \in ChainAnswers
  PROVE  Anchored
<1> DEFINE climbs(w) == Climbs(server.runtime, sent.chain[1], Handed, Roots, w)
<1>1. PICK w \in WaysUp(server.runtime, sent.chain[1], Handed, Roots) : GoodWay(w, sent.now)
  BY PresentedIsChain DEF ChainAnswers, VerifyChainToTrustedRoots, EngineAnswers, Handed
<1>2. climbs(w) /\ Last(w) \in Roots
  BY <1>1, HandedCerts, WaysUpAreClimbs
<1> DEFINE n == Len(w)
           m == n - 1
           S == Handed \cup Roots
<1>3. /\ n \in Nat /\ n > 0 /\ w \in Seq(S) /\ w[1] = sent.chain[1] /\ w[n] \in Roots
      /\ \A i \in 1..n : w[i] \in S
      /\ \A i \in 2..n : w[i - 1] \notin Roots /\ IssuedBy(server.runtime, w[i - 1], w[i])
                         /\ \A j \in 1..(i - 1) : w[j] # w[i]
  <2>1. S \cup {sent.chain[1]} = S
    BY HandedCerts
  <2> QED
    BY <1>2, <2>1 DEF Climbs, Last
<1>4. /\ \A i \in 1..n : w[i].from <= sent.now /\ sent.now <= w[i].until
      /\ \A i \in 2..n : w[i].ca
  BY <1>1, <1>3 DEF GoodWay
<1>5. n > 1 /\ m \in Nat /\ m > 0 /\ \A i \in 1..m : i \in 1..n /\ i + 1 \in 2..n /\ (i + 1) - 1 = i
  BY <1>3
<1>6. \A i \in 1..m : w[i] \in Range(sent.chain)
  BY <1>3, <1>5, HandedCerts
<1>7. \A i \in 1..m : \E k \in 1..Len(sent.chain) : sent.chain[k] = w[i]
  BY <1>6, ChainIsCerts DEF Range
<1> DEFINE step(i) == IF i = 1 THEN 1 ELSE CHOOSE k \in 1..Len(sent.chain) : sent.chain[k] = w[i]
           way == [i \in 1..m |-> step(i)]
<1>8. \A i \in 1..m : step(i) \in 1..Len(sent.chain) /\ sent.chain[step(i)] = w[i]
  <2> SUFFICES ASSUME NEW i \in 1..m PROVE step(i) \in 1..Len(sent.chain) /\ sent.chain[step(i)] = w[i]
    OBVIOUS
  <2>1. CASE i = 1
    <3>1. 1 \in 1..Len(sent.chain)
      BY ChainIsCerts
    <3> QED
      BY <1>3, <2>1, <3>1
  <2>2. CASE i # 1
    <3>1. step(i) = CHOOSE k \in 1..Len(sent.chain) : sent.chain[k] = w[i]
      BY <2>2
    <3>2. \E k \in 1..Len(sent.chain) : sent.chain[k] = w[i]
      BY <1>7
    <3> QED
      BY <3>1, <3>2
  <2> QED
    BY <2>1, <2>2
<1> HIDE DEF step
<1>9. /\ way \in [1..m -> 1..Len(sent.chain)] /\ Len(way) = m
      /\ \A i \in 1..m : sent.chain[way[i]] = w[i]
  BY <1>5, <1>8
<1>10. way[1] = 1
  BY <1>5 DEF step
<1> HIDE DEF way
<1>11. m \in DOMAIN sent.chain
  <2>1. /\ IsFiniteSet(1..m) /\ Cardinality(1..m) = m
        /\ IsFiniteSet(1..Len(sent.chain)) /\ Cardinality(1..Len(sent.chain)) = Len(sent.chain)
    <3>1. Len(sent.chain) \in Nat /\ Len(sent.chain) >= 1
      BY ChainIsCerts
    <3>2. IsFiniteSet(1..m) /\ Cardinality(1..m) = m
      BY <1>5, UpTo
    <3>3. IsFiniteSet(1..Len(sent.chain)) /\ Cardinality(1..Len(sent.chain)) = Len(sent.chain)
      BY <3>1, UpTo
    <3> QED
      BY <3>2, <3>3
  <2>2. ASSUME Len(sent.chain) < m PROVE FALSE
    <3> DEFINE I == 1..m
               J == 1..Len(sent.chain)
    <3>0. way \in [I -> J] /\ IsFiniteSet(I) /\ IsFiniteSet(J) /\ Cardinality(J) < Cardinality(I)
      BY <1>9, <2>1, <2>2
    <3> HIDE DEF I, J
    <3>4. \E x, y \in I : x # y /\ way[x] = way[y]
      BY <3>0, FS_PigeonHole
    <3>1. PICK x, y \in 1..m : x # y /\ way[x] = way[y]
      BY <3>4 DEF I
    <3>2. w[x] = w[y]
      BY <1>9, <3>1
    <3>3. (x \in 2..n /\ y \in 1..(x - 1)) \/ (y \in 2..n /\ x \in 1..(y - 1))
      BY <1>5, <3>1
    <3> QED
      BY <1>3, <3>2, <3>3
  <2> QED
    BY <1>5, <2>2, ChainIsCerts
<1>12. \A i \in 1..n : IsCert(w[i])
  BY <1>3, HandedCerts
<1>13. \A i \in 2..n : Vouches(w[i], w[i - 1])
  <2> SUFFICES ASSUME NEW i \in 2..n PROVE Vouches(w[i], w[i - 1])
    OBVIOUS
  <2>1. i \in 1..n /\ i - 1 \in 1..n
    BY <1>3
  <2> QED
    BY <1>3, <1>12, <2>1, IssuedIsVouched DEF IsServer
<1>14. Anchors(way, w[n])
  <2>1. InDate(sent.chain[way[1]]) /\ InDate(w[n])
    BY <1>3, <1>4, <1>5, <1>9 DEF InDate
  <2>2. ASSUME NEW i \in 2..m
        PROVE  /\ Vouches(sent.chain[way[i]], sent.chain[way[i - 1]])
               /\ InDate(sent.chain[way[i]]) /\ sent.chain[way[i]].ca
    <3>1. i \in 2..n /\ i \in 1..m /\ i - 1 \in 1..m /\ i \in 1..n
      BY <1>5
    <3> QED
      BY <1>4, <1>9, <1>13, <3>1 DEF InDate
  <2>3. Vouches(w[n], sent.chain[way[m]]) /\ w[n].ca
    BY <1>4, <1>5, <1>9, <1>13
  <2> QED
    BY <1>9, <2>1, <2>2, <2>3 DEF Anchors
<1> QED
  BY <1>3, <1>9, <1>10, <1>11, <1>14, ChainIsCerts DEF Anchored

(* A straight chain passes it, whichever way up the engine takes.           *)
LEMMA StraightUpPasses ==
  ASSUME IsServer(server), IsAttestation(sent), Len(sent.chain) > 1, StraightUp
  PROVE  FALSE \notin ChainAnswers /\ TRUE \in ChainAnswers
<1>1. PICK n \in {Len(sent.chain), Len(sent.chain) - 1}, root \in Roots :
        /\ n > 0
        /\ n < Len(sent.chain) => /\ CopyOf(Last(sent.chain), root)
                                  /\ Last(sent.chain).issuer = root.subject
        /\ n = Len(sent.chain) => Last(sent.chain).issuer # Last(sent.chain).subject
        /\ Anchors([i \in 1..n |-> i], root)
        /\ \A i \in 1..n : \A c \in {sent.chain[j] : j \in 1..n} \cup Roots :
             Vouches(c, sent.chain[i]) => InDate(c) /\ c.ca
  BY DEF StraightUp
<1> DEFINE chain == sent.chain
           S == Handed \cup Roots
<1>2. n \in Nat /\ n > 0 /\ 1..n \subseteq 1..Len(chain) /\ Len(Presented(chain)) = n
  <2>1. Len(chain) \in Nat /\ n \in Nat /\ n > 0 /\ 1..n \subseteq 1..Len(chain)
    BY <1>1, ChainIsCerts
  <2>2. SelfSigned(chain[Len(chain)]) <=> n < Len(chain)
    BY <1>1, <2>1 DEF SelfSigned, Last, CopyOf
  <2> QED
    BY <1>1, <2>1, <2>2, PresentedIsChain
<1>3. Handed = {chain[j] : j \in 1..n}
  <2>1. DOMAIN Presented(chain) = 1..n /\ \A i \in 1..n : Presented(chain)[i] = chain[i]
    BY <1>2, PresentedIsChain
  <2> QED
    BY <2>1 DEF Handed, Range
<1>4. /\ InDate(chain[1]) /\ InDate(root) /\ root.ca /\ Vouches(root, chain[n])
      /\ \A i \in 2..n : Vouches(chain[i], chain[i - 1])
  <2> DEFINE way == [i \in 1..n |-> i]
  <2>1. Len(way) = n /\ \A i \in 1..n : way[i] = i
    BY <1>2
  <2>2. Anchors(way, root)
    BY <1>1
  <2> HIDE DEF way
  <2>3. \A i \in 2..n : i \in 1..n /\ i - 1 \in 1..n
    BY <1>2
  <2> QED
    BY <1>2, <2>1, <2>2, <2>3 DEF Anchors
<1>5. \A i \in 1..n : chain[i] \in Handed /\ IsCert(chain[i])
  BY <1>2, <1>3, ChainIsCerts
<1>6. IsCert(root)
  BY RootsAreCerts
<1> DEFINE ways == WaysUp(server.runtime, chain[1], Handed, Roots)
<1>7. ways # {}
  <2> DEFINE p == [i \in 1..(n + 1) |-> IF i = n + 1 THEN root ELSE chain[i]]
  <2>1. p \in Seq(S) /\ Len(p) = n + 1 /\ p[n + 1] = root /\ \A i \in 1..n : p[i] = chain[i]
    <3>1. \A i \in 1..(n + 1) : p[i] \in S
      BY <1>2, <1>5
    <3> QED
      BY <1>2, <3>1
  <2> HIDE DEF p
  <2>2. ASSUME NEW i \in 2..(n + 1) PROVE IssuedBy(server.runtime, p[i - 1], p[i])
    <3>1. i - 1 \in 1..n /\ (i \in 2..n \/ i = n + 1) /\ (i # n + 1 => i \in 1..n)
      BY <1>2
    <3>2. CASE i = n + 1
      <4>1. p[i - 1] = chain[n] /\ p[i] = root /\ n \in 1..n
        BY <1>2, <2>1, <3>2
      <4> QED
        BY <1>4, <1>5, <1>6, <4>1, IssuedIsVouched DEF IsServer
    <3>3. CASE i \in 2..n
      <4>1. p[i - 1] = chain[i - 1] /\ p[i] = chain[i] /\ i \in 1..n
        BY <1>2, <2>1, <3>1, <3>3
      <4> QED
        BY <1>4, <1>5, <3>1, <3>3, <4>1, IssuedIsVouched DEF IsServer
    <3> QED
      BY <3>1, <3>2, <3>3
  <2>3. Leads(server.runtime, chain[1], Handed, Roots, p)
    BY <1>2, <2>1, <2>2 DEF Leads
  <2> QED
    BY <2>3, HandedCerts, LinesLeadUp
<1>8. ASSUME NEW w \in ways PROVE GoodWay(w, sent.now)
  <2>1. Climbs(server.runtime, chain[1], Handed, Roots, w)
    BY HandedCerts, WaysUpAreClimbs
  <2>2. /\ w \in Seq(S) /\ Len(w) \in Nat /\ Len(w) > 0 /\ w[1] = chain[1]
        /\ \A i \in 1..Len(w) : w[i] \in S
        /\ \A i \in 2..Len(w) : w[i - 1] \notin Roots /\ IssuedBy(server.runtime, w[i - 1], w[i])
    <3>1. S \cup {chain[1]} = S
      BY HandedCerts
    <3> QED
      BY <2>1, <3>1 DEF Climbs
  <2>3. ASSUME NEW i \in 2..Len(w) PROVE InDate(w[i]) /\ w[i].ca
    <3>1. i \in 1..Len(w) /\ i - 1 \in 1..Len(w)
      BY <2>2
    <3>2. w[i] \in S /\ w[i - 1] \in Handed
      BY <2>2, <3>1
    <3>3. PICK j \in 1..n : w[i - 1] = chain[j]
      BY <1>3, <3>2
    <3>4. Vouches(w[i], chain[j])
      BY <2>2, <3>2, <3>3, HandedCerts, IssuedIsVouched DEF IsServer
    <3> QED
      BY <1>1, <1>3, <3>2, <3>4
  <2>4. InDate(w[1])
    BY <1>4, <2>2
  <2>5. DOMAIN w = 1..Len(w) /\ \A i \in 1..Len(w) : i = 1 \/ i \in 2..Len(w)
    BY <2>2
  <2> QED
    BY <2>2, <2>3, <2>4, <2>5 DEF GoodWay, InDate
<1>9. ChainAnswers = {GoodWay(w, sent.now) : w \in ways}
  BY <1>7, PresentedIsChain DEF ChainAnswers, VerifyChainToTrustedRoots, EngineAnswers, Handed
<1> HIDE DEF ways
<1>10. \A w \in ways : GoodWay(w, sent.now) = TRUE
  BY <1>8 DEF GoodWay
<1> QED
  BY <1>7, <1>9, <1>10

-----------------------------------------------------------------------------
(* The certificate of the key and the record in it, read off an attestation *)
(* that decodes.                                                            *)
LEMMA KeyCertIsFirst ==
  ASSUME IsAttestation(sent), Len(sent.chain) > 1
  PROVE  /\ keyCert = sent.chain[1] /\ keyCert \in Range(sent.chain)
         /\ keyCert.ext.nonce # NoExtension =>
              keyCert.ext.nonce.tagged \in BOOLEAN /\ keyCert \notin Roots
         /\ description # NoExtension => IsRecord(description) /\ keyCert \notin Roots
         /\ Record = description
<1>1. keyCert = sent.chain[1]
  BY ChainIsCerts DEF keyCert
<1>2. keyCert \in Range(sent.chain)
  <2>1. 1 \in 1..Len(sent.chain)
    BY ChainIsCerts
  <2> QED
    BY <1>1, <2>1, ChainIsCerts
<1>3. /\ keyCert.ext.nonce # NoExtension => keyCert.ext.nonce.tagged \in BOOLEAN
      /\ \A r \in {keyCert.ext.v300, keyCert.ext.legacy} \ {NoExtension} : IsRecord(r)
  BY <1>2 DEF IsAttestation
<1>4. description = IF keyCert.ext.v300 # NoExtension THEN keyCert.ext.v300 ELSE keyCert.ext.legacy
  BY DEF description
<1>5. Record = description
  BY <1>4 DEF Record, keyCert
<1> QED
  BY <1>1, <1>2, <1>3, <1>4, <1>5, RootsAreCerts

-----------------------------------------------------------------------------
(* What the code reads off a patch level's field is what the field says.    *)
LEMMA OsLevelRead ==
  ASSUME NEW v \in Nat, NEW month, month = IF v >= 10000000 THEN v \div 100 ELSE v
  PROVE  (IF 200001 <= month /\ month <= 210012 THEN month ELSE Missing)
         = (IF IsMonth(v) THEN v ELSE IF IsMonth(v \div 100) THEN v \div 100 ELSE Missing)
<1> DEFINE h == v \div 100
<1>1. h \in Int /\ 100 * h <= v /\ v < 100 * h + 100
  OBVIOUS
<1> HIDE DEF h
<1> QED
  BY <1>1, SMT DEF IsMonth, Missing

(* The patch levels the code reads are those the record states.             *)
LEMMA LevelsRead ==
  ASSUME IsRecord(description), Record = description
  PROVE  \A p \in Patches : PatchLevels[p] = Level(p) /\ Level(p) \in Int
<1> DEFINE tags == description.hardware.tags
<1>1. /\ tags["osPatch"].form \in FieldForms /\ tags["osPatch"].value \in Nat
      /\ tags["vendorPatch"].form \in FieldForms /\ tags["vendorPatch"].value \in Nat
      /\ tags["bootPatch"].form \in FieldForms /\ tags["bootPatch"].value \in Nat
  BY DEF IsRecord, NumberTags
<1>2. OsPatchLevel = Level("os") /\ Level("os") \in Int
  <2> DEFINE form == tags["osPatch"].form
             v == tags["osPatch"].value
             raw == IF form \in {"explicit", "implicit"} THEN v ELSE Missing
             month == IF raw >= 10000000 THEN raw \div 100 ELSE raw
  <2>1. OsPatchLevel = IF 200001 <= month /\ month <= 210012 THEN month ELSE Missing
    <3> DEFINE read == IF form = "enumerated" THEN Missing ELSE ReadTagged("osPatch")
    <3>1. ReadTagged("osPatch") = IF form \in {"explicit", "implicit", "enumerated"}
                                  THEN v ELSE Missing
      BY DEF ReadTagged, Encoded
    <3>2. read = raw
      BY <3>1
    <3>3. OsPatchLevel = LET m == IF read >= 10000000 THEN read \div 100 ELSE read
                         IN  IF 200001 <= m /\ m <= 210012 THEN m ELSE Missing
      BY SMT DEF OsPatchLevel
    <3> HIDE DEF read, raw
    <3> QED
      BY <3>2, <3>3, SMT
  <2>2. Level("os") = IF form \notin {"explicit", "implicit"} THEN Missing
                      ELSE IF IsMonth(v) THEN v ELSE IF IsMonth(v \div 100) THEN v \div 100 ELSE Missing
    BY SMT DEF Level, Value, PatchTag
  <2>3. v \in Nat
    BY <1>1
  <2> HIDE DEF form, v, tags
  <2>4. CASE form \in {"explicit", "implicit"}
    <3>1. raw = v
      BY <2>4
    <3>2. Level("os") = IF IsMonth(v) THEN v ELSE IF IsMonth(v \div 100) THEN v \div 100 ELSE Missing
      BY <2>2, <2>4
    <3>3. v \div 100 \in Int
      BY <2>3
    <3>4. month = IF v >= 10000000 THEN v \div 100 ELSE v
      BY <3>1, SMT
    <3> HIDE DEF raw, month
    <3>5. OsPatchLevel = Level("os")
      BY <2>1, <2>3, <3>2, <3>4, OsLevelRead, SMT
    <3> QED
      BY <2>3, <3>2, <3>3, <3>5, SMT DEF Missing
  <2>5. CASE form \notin {"explicit", "implicit"}
    <3>1. raw = -1 /\ Level("os") = -1
      BY <2>2, <2>5 DEF Missing
    <3>2. month = -1
      BY <3>1, SMT
    <3> HIDE DEF raw, month
    <3> QED
      BY <2>1, <3>1, <3>2, SMT DEF Missing
  <2> QED
    BY <2>4, <2>5
<1>3. ASSUME NEW p \in {"vendor", "boot"}
      PROVE  DayPatchLevel(PatchTag[p]) = Level(p) /\ Level(p) \in Int
  <2> DEFINE form == tags[PatchTag[p]].form
             v == tags[PatchTag[p]].value
             raw == IF form \in {"explicit", "implicit", "enumerated"} THEN v ELSE Missing
             day == IF raw < 10000000 THEN raw * 100 + 1 ELSE raw
  <2>1. DayPatchLevel(PatchTag[p]) = IF 20000101 <= day /\ day <= 21001231 THEN day ELSE Missing
    <3>1. ReadTagged(PatchTag[p]) = raw
      BY DEF ReadTagged, Encoded
    <3> HIDE DEF raw
    <3> QED
      BY <3>1, SMT DEF DayPatchLevel
  <2>2. Level(p) = IF form \notin {"explicit", "implicit", "enumerated"} THEN Missing
                   ELSE IF IsMonth(v) THEN v * 100 + 1 ELSE IF IsDay(v) THEN v ELSE Missing
    BY SMT DEF Level, Value
  <2>3. v \in Nat
    BY <1>1 DEF PatchTag
  <2> HIDE DEF form, v, tags
  <2>4. CASE form \in {"explicit", "implicit", "enumerated"}
    <3>1. raw = v
      BY <2>4
    <3>2. Level(p) = IF IsMonth(v) THEN v * 100 + 1 ELSE IF IsDay(v) THEN v ELSE Missing
      BY <2>2, <2>4
    <3>3. day = IF v < 10000000 THEN v * 100 + 1 ELSE v
      BY <3>1, SMT
    <3> HIDE DEF raw, day
    <3>4. DayPatchLevel(PatchTag[p]) = Level(p)
      <4>1. (IF 20000101 <= day /\ day <= 21001231 THEN day ELSE Missing)
            = (IF IsMonth(v) THEN v * 100 + 1 ELSE IF IsDay(v) THEN v ELSE Missing)
        BY <2>3, <3>3, SMT DEF IsMonth, IsDay, Missing
      <4> QED
        BY <2>1, <3>2, <4>1, SMT
    <3> QED
      BY <2>3, <3>2, <3>4, SMT DEF Missing
  <2>5. CASE form \notin {"explicit", "implicit", "enumerated"}
    <3>1. raw = -1 /\ Level(p) = -1
      BY <2>2, <2>5 DEF Missing
    <3>2. day = -99
      BY <3>1, SMT
    <3> HIDE DEF raw, day
    <3> QED
      BY <2>1, <3>1, <3>2, SMT DEF Missing
  <2> QED
    BY <2>4, <2>5
<1>4. PatchLevels["vendor"] = Level("vendor") /\ PatchLevels["boot"] = Level("boot")
  BY <1>3 DEF PatchLevels, PatchTag
<1> QED
  BY <1>2, <1>3, <1>4 DEF PatchLevels, Patches

(* The ages the code tells apart are the ones the calendar does.            *)
LEMMA AgesRead ==
  ASSUME IsAttestation(sent), IsRecord(description), Record = description
  PROVE  /\ DOMAIN PatchLevels = Patches
         /\ \A p \in Patches : /\ PatchAge(p) = "ok" <=> Current(p)
                               /\ PatchAge(p) = "stale" <=> Outdated(p)
<1>1. sent.now \in Nat
  BY DEF IsAttestation
<1>2. DOMAIN PatchLevels = Patches
  BY DEF PatchLevels, Patches
<1>3. ASSUME NEW p \in Patches
      PROVE  /\ PatchAge(p) = Age(Level(p), Oldest(p), Newest(p))
             /\ Level(p) \in Int /\ Oldest(p) \in Int /\ Newest(p) \in Int
  <2>1. PatchLevels[p] = Level(p) /\ Level(p) \in Int
    BY LevelsRead
  <2>2. CASE p = "os"
    BY <1>1, <2>1, <2>2, MonthWindow DEF PatchAge
  <2>3. CASE p \in {"vendor", "boot"}
    BY <1>1, <2>1, <2>3, DayWindow DEF PatchAge
  <2> QED
    BY <2>2, <2>3 DEF Patches
<1> QED
  BY <1>2, <1>3 DEF Age, Current, Outdated

(* The environment the code insists on is the one meant.                    *)
LEMMA BootedIsDeployed ==
  ASSUME IsServer(server)
  PROVE  /\ Booted <=> Deployed
         /\ Booted => App = AppIdentity
         /\ Booted => ("development" \in Environments <=> server.optIn)
<1>1. FingerprintsHold <=> server.corrupt = {}
  BY DEF IsServer, FingerprintsHold, PinnedRoots
<1>2. /\ server.suffixed \in BOOLEAN /\ server.optIn \in BOOLEAN /\ server.local \in BOOLEAN
  BY DEF IsServer
<1>3. Booted <=> Deployed
  BY <1>1 DEF Booted, Deployed
<1>4. ASSUME Booted PROVE Relaxed <=> server.optIn
  BY <1>4 DEF Booted, Relaxed
<1> QED
  BY <1>3, <1>4 DEF App, AppIdentity, Environments

(* The gates of the Apple statement, all passed, are the statement made for *)
(* this request.                                                            *)
LEMMA AppleGatesAreGenuine ==
  ASSUME IsServer(server), IsAttestation(sent), Decoded, Booted
  PROVE  AppleStands <=> AppleGenuine
<1>1. App = AppIdentity /\ Environments = {"production"} \cup IF server.optIn THEN {"development"} ELSE {}
  BY BootedIsDeployed DEF Environments
<1>2. keyCert = Head(sent.chain)
  BY DEF keyCert
<1>3. HoldsNonce(keyCert.ext.nonce) <=>
        /\ keyCert.ext.nonce # NoExtension
        /\ <<keyCert.ext.nonce.outer, keyCert.ext.nonce.tagged, keyCert.ext.nonce.inner>>
             = <<"sequence", TRUE, "octets32">>
  <2>1. keyCert.ext.nonce # NoExtension => keyCert.ext.nonce.tagged \in BOOLEAN
    BY KeyCertIsFirst DEF Decoded
  <2> QED
    BY <2>1 DEF HoldsNonce
<1>4. NonceHolds <=> /\ HoldsNonce(keyCert.ext.nonce)
                     /\ keyCert.ext.nonce.over = <<sent.auth, sent.challenge, sent.seKey>>
  BY DEF NonceHolds
<1>5. AuthHolds <=> /\ sent.auth.rp = App /\ sent.auth.counter = 0
                    /\ sent.auth.aaguid = "production" \/ (server.optIn /\ sent.auth.aaguid = "development")
                    /\ sent.auth.credential = sent.keyId
  BY <1>1 DEF AuthHolds
<1> QED
  BY <1>2, <1>3, <1>4, <1>5 DEF AppleStands, AppleGenuine, KeyIdHolds, AuthReads, Decoded

(* Where a patch level or a number is not there the code reads -1.          *)
LEMMA TagsRead ==
  ASSUME IsRecord(description), Record = description
  PROVE  /\ \A tag \in NumberTags : \A n \in Nat :
              ReadTagged(tag) = n <=> Has(tag) /\ Value(tag) = n
         /\ \A tag \in SetTags : \A n \in Nat :
              n \in ReadTaggedSet(tag) <=> Has(tag) /\ n \in Value(tag)
<1>1. \A tag \in NumberTags \cup SetTags :
        description.hardware.tags[tag].form \in FieldForms
  BY DEF IsRecord
<1>2. \A tag \in NumberTags \cup SetTags :
        /\ Has(tag) <=> Encoded(description.hardware.tags[tag])
        /\ Value(tag) = description.hardware.tags[tag].value
  BY <1>1 DEF Has, Value, Encoded, FieldForms
<1>3. \A n \in Nat : n # Missing
  BY DEF Missing
<1> QED
  BY <1>2, <1>3 DEF ReadTagged, ReadTaggedSet

(* The rows of the AL2 table, one by one.                                   *)
LEMMA NoRowFails ==
  RowsThatFail = {} <=>
    /\ appId.digests \cap server.digests # {} /\ ~VersionBelowFloor
    /\ 2 \in ReadTaggedSet("purpose") /\ ReadTagged("algorithm") = 3
    /\ ReadTagged("keySize") = 256 /\ 4 \in ReadTaggedSet("digest")
    /\ ReadTagged("ecCurve") = 1 /\ ReadTagged("origin") = 0
    /\ description.hardware.rootOfTrust.form = "ok"
    /\ description.hardware.rootOfTrust.form = "ok" => description.hardware.rootOfTrust.locked
    /\ description.hardware.rootOfTrust.form = "ok" => description.hardware.rootOfTrust.state = 0
<1> DEFINE root == description.hardware.rootOfTrust
           holds == [signingCert |-> appId.digests \cap server.digests # {},
                     version     |-> ~VersionBelowFloor,
                     purpose     |-> 2 \in ReadTaggedSet("purpose"),
                     algorithm   |-> ReadTagged("algorithm") = 3,
                     keySize     |-> ReadTagged("keySize") = 256,
                     digest      |-> 4 \in ReadTaggedSet("digest"),
                     curve       |-> ReadTagged("ecCurve") = 1,
                     origin      |-> ReadTagged("origin") = 0,
                     rootOfTrust |-> root.form = "ok",
                     locked      |-> root.form = "ok" => root.locked,
                     verified    |-> root.form = "ok" => root.state = 0]
           rows == {"signingCert", "version", "purpose", "algorithm", "keySize", "digest",
                    "curve", "origin", "rootOfTrust", "locked", "verified"}
<1>1. RowsThatFail = {r \in DOMAIN holds : ~holds[r]}
  BY Zenon DEF RowsThatFail
<1>2. DOMAIN holds = rows
  BY SMT
<1>3. /\ holds["signingCert"] <=> (appId.digests \cap server.digests # {})
      /\ holds["version"] <=> ~VersionBelowFloor
      /\ holds["purpose"] <=> (2 \in ReadTaggedSet("purpose"))
      /\ holds["algorithm"] <=> (ReadTagged("algorithm") = 3)
      /\ holds["keySize"] <=> (ReadTagged("keySize") = 256)
      /\ holds["digest"] <=> (4 \in ReadTaggedSet("digest"))
      /\ holds["curve"] <=> (ReadTagged("ecCurve") = 1)
      /\ holds["origin"] <=> (ReadTagged("origin") = 0)
      /\ holds["rootOfTrust"] <=> (root.form = "ok")
      /\ holds["locked"] <=> (root.form = "ok" => root.locked)
      /\ holds["verified"] <=> (root.form = "ok" => root.state = 0)
  OBVIOUS
<1> HIDE DEF holds
<1>4. RowsThatFail = {} <=> \A r \in rows : holds[r]
  BY <1>1, <1>2
<1>5. (\A r \in rows : holds[r]) <=>
        /\ holds["signingCert"] /\ holds["version"] /\ holds["purpose"] /\ holds["algorithm"]
        /\ holds["keySize"] /\ holds["digest"] /\ holds["curve"] /\ holds["origin"]
        /\ holds["rootOfTrust"] /\ holds["locked"] /\ holds["verified"]
  OBVIOUS
<1> HIDE DEF rows
<1>6. RowsThatFail = {} <=>
        /\ holds["signingCert"] /\ holds["version"] /\ holds["purpose"] /\ holds["algorithm"]
        /\ holds["keySize"] /\ holds["digest"] /\ holds["curve"] /\ holds["origin"]
        /\ holds["rootOfTrust"] /\ holds["locked"] /\ holds["verified"]
  BY <1>4, <1>5
<1> QED
  BY <1>3, <1>6

(* The hardware rows of the table.                                          *)
LEMMA HardwareRows ==
  ASSUME IsRecord(description), Record = description
  PROVE  KeyIsHardwareMade <=>
           /\ 2 \in ReadTaggedSet("purpose") /\ ReadTagged("algorithm") = 3
           /\ ReadTagged("keySize") = 256 /\ 4 \in ReadTaggedSet("digest")
           /\ ReadTagged("ecCurve") = 1 /\ ReadTagged("origin") = 0
           /\ description.hardware.rootOfTrust.form = "ok"
           /\ description.hardware.rootOfTrust.locked
           /\ description.hardware.rootOfTrust.state = 0
<1>1. /\ ReadTagged("algorithm") = 3 <=> Has("algorithm") /\ Value("algorithm") = 3
      /\ ReadTagged("keySize") = 256 <=> Has("keySize") /\ Value("keySize") = 256
      /\ ReadTagged("ecCurve") = 1 <=> Has("ecCurve") /\ Value("ecCurve") = 1
      /\ ReadTagged("origin") = 0 <=> Has("origin") /\ Value("origin") = 0
      /\ 2 \in ReadTaggedSet("purpose") <=> Has("purpose") /\ 2 \in Value("purpose")
      /\ 4 \in ReadTaggedSet("digest") <=> Has("digest") /\ 4 \in Value("digest")
  BY TagsRead DEF NumberTags, SetTags
<1>2. /\ Has("purpose") /\ Has("algorithm") /\ Has("keySize") /\ Has("digest")
      /\ Has("ecCurve") /\ Has("origin")
      <=> \A tag \in {"purpose", "algorithm", "keySize", "digest", "ecCurve", "origin"} : Has(tag)
  OBVIOUS
<1>3. <<Value("algorithm"), Value("keySize"), Value("ecCurve"), Value("origin")>> = <<3, 256, 1, 0>>
      <=> /\ Value("algorithm") = 3 /\ Value("keySize") = 256
          /\ Value("ecCurve") = 1 /\ Value("origin") = 0
  OBVIOUS
<1> QED
  BY <1>1, <1>2, <1>3 DEF KeyIsHardwareMade

(* The rows about the app, with the package gate before them.               *)
LEMMA AppRows ==
  ASSUME IsServer(server), IsRecord(description), Record = description, Booted
  PROVE  AppIsOurs <=> /\ PackageHolds /\ appId.digests \cap server.digests # {}
                       /\ ~VersionBelowFloor
<1> DEFINE soft == description.software.appId
           hard == description.hardware.appId
           id == IF soft.form = "ok" THEN soft ELSE hard
           ours == {p \in id.packages : p.name = App}
<1>1. AppIsOurs <=> /\ id.form = "ok" /\ ours # {} /\ \E d \in id.digests : d \in server.digests
                    /\ server.floor # Missing => \E p \in ours : p.version >= server.floor
  BY DEF AppIsOurs
<1>2. appId = IF id.form = "ok" THEN id ELSE [packages |-> {}, digests |-> {}]
  <2> DEFINE lists == <<soft, hard>>
             found == {i \in {1, 2} : lists[i].form = "ok"}
             first == CHOOSE i \in found : \A j \in found : i <= j
  <2>1. appId = IF found = {} THEN [packages |-> {}, digests |-> {}] ELSE lists[first]
    BY DEF appId
  <2>2. lists[1] = soft /\ lists[2] = hard
    OBVIOUS
  <2> HIDE DEF lists
  <2>3. CASE soft.form = "ok"
    <3>1. 1 \in found /\ \A i \in found : 1 <= i /\ (i = 1 \/ i = 2)
      BY <2>2, <2>3
    <3> HIDE DEF found
    <3>2. first \in found /\ \A j \in found : first <= j
      BY <3>1
    <3>3. first = 1
      BY <3>1, <3>2
    <3> HIDE DEF first
    <3> QED
      BY <2>1, <2>2, <2>3, <3>1, <3>3
  <2>4. CASE soft.form # "ok" /\ hard.form = "ok"
    <3>1. found = {2}
      BY <2>2, <2>4
    <3>2. first = 2
      BY <3>1
    <3> HIDE DEF first, found
    <3> QED
      BY <2>1, <2>2, <2>4, <3>1, <3>2
  <2>5. CASE soft.form # "ok" /\ hard.form # "ok"
    <3>1. found = {}
      BY <2>2, <2>5
    <3> QED
      BY <2>1, <2>5, <3>1
  <2> QED
    BY <2>3, <2>4, <2>5
<1>3. App = AppIdentity
  BY BootedIsDeployed
<1>4. \A p \in id.packages : p.version \in Int
  <2>1. \A p \in soft.packages : p.version \in Int
    BY DEF IsRecord
  <2>2. \A p \in hard.packages : p.version \in Int
    BY DEF IsRecord
  <2> QED
    BY <2>1, <2>2
<1>5. server.floor \in Nat \cup {Missing}
  BY DEF IsServer
<1> HIDE DEF id
<1>6. CASE id.form # "ok"
  <2>1. appId.packages = {}
    BY <1>2, <1>6
  <2> QED
    BY <1>1, <1>6, <2>1 DEF PackageHolds
<1>7. CASE id.form = "ok"
  <2>1. appId = id
    BY <1>2, <1>7
  <2>2. PackageHolds <=> ours # {}
    BY <1>3, <2>1 DEF PackageHolds
  <2>3. VersionBelowFloor <=> server.floor # Missing /\ ~\E p \in ours : p.version >= server.floor
    <3>1. ASSUME server.floor # Missing
          PROVE  (\E v \in {p.version : p \in ours} \ {Missing} : v >= server.floor)
                 <=> \E p \in ours : p.version >= server.floor
      <4>1. \A p \in ours : p.version >= server.floor => p.version # Missing
        BY <1>4, <1>5, <3>1 DEF Missing
      <4> QED
        BY <4>1
    <3>2. VersionBelowFloor <=>
            server.floor # Missing
            /\ ~\E v \in {p.version : p \in ours} \ {Missing} : v >= server.floor
      BY <1>3, <2>1 DEF VersionBelowFloor
    <3> QED
      BY <3>1, <3>2
  <2>4. appId.digests \cap server.digests # {} <=> \E d \in id.digests : d \in server.digests
    BY <2>1
  <2> QED
    BY <1>1, <1>7, <2>2, <2>3, <2>4
<1> QED
  BY <1>6, <1>7

(* The gates of an Android key, all passed but the last, with no row of the *)
(* table failing and no patch level amiss but the renewed ones, are the     *)
(* statement made for this request.                                         *)
LEMMA AndroidGatesAreGenuine ==
  ASSUME IsServer(server), IsAttestation(sent), Decoded, Booted, NEW renewed
  PROVE  AndroidGenuine(renewed) <=>
           AndroidStands /\ RowsThatFail = {} /\ UnfitPatches \subseteq renewed
<1>1. CASE description = NoExtension
  <2>1. ~AndroidStands
    BY <1>1 DEF AndroidStands, Described
  <2>2. Record = NoExtension
    BY <1>1, KeyCertIsFirst DEF Decoded
  <2> QED
    BY <2>1, <2>2 DEF AndroidGenuine
<1>2. CASE description # NoExtension
  <2>1. IsRecord(description) /\ Record = description
    BY <1>2, KeyCertIsFirst DEF Decoded
  <2>2. KeyIsHardwareMade /\ AppIsOurs <=> PackageHolds /\ RowsThatFail = {}
    <3>1. description.hardware.rootOfTrust.locked \in BOOLEAN
      BY <2>1 DEF IsRecord
    <3> QED
      BY <2>1, <3>1, HardwareRows, AppRows, NoRowFails
  <2>3. (\A p \in Patches : p \in renewed \/ Current(p)) <=> UnfitPatches \subseteq renewed
    BY <2>1, AgesRead DEF UnfitPatches
  <2>4. LevelsStand <=>
          /\ Record.attestationLevel \in {1, 2} /\ Record.keymasterLevel # 0
          /\ sent.platform = "android-strongbox" =>
               {Record.attestationLevel, Record.keymasterLevel} = {2}
    BY <2>1 DEF LevelsStand
  <2>5. Described <=> Record # NoExtension /\ Record.readable
    BY <2>1 DEF Described
  <2>6. ChallengeHolds <=> Record.challenge = sent.challenge
    BY <2>1 DEF ChallengeHolds
  <2>7. KeyHolds <=> Head(sent.chain).spki.key = sent.seKey
    BY DEF KeyHolds, keyCert
  <2>8. Unrevoked <=> \A c \in Range(sent.chain) : c.serial \notin server.revoked
    BY DEF Unrevoked
  <2>9. sent.form = "ok"
    BY DEF Decoded
  <2> QED
    BY <2>2, <2>3, <2>4, <2>5, <2>6, <2>7, <2>8, <2>9 DEF AndroidGenuine, AndroidStands
<1> QED
  BY <1>1, <1>2

(* What stands at the end of the gates is anchored.                         *)
LEMMA StandsIsAnchored ==
  ASSUME IsServer(server), IsAttestation(sent), Stands
  PROVE  Len(sent.chain) > 1 /\ Anchored
<1>1. Len(sent.chain) > 1 /\ TRUE \in ChainAnswers
  BY DEF Stands, Decoded
<1>2. keyCert \notin Roots
  <2>1. CASE IsApple
    <3>1. keyCert.ext.nonce # NoExtension
      BY <2>1 DEF Stands, AppleStands, NonceHolds, HoldsNonce
    <3> QED
      BY <1>1, <3>1, KeyCertIsFirst
  <2>2. CASE ~IsApple
    <3>1. description # NoExtension
      BY <2>2 DEF Stands, AndroidStands, Described
    <3> QED
      BY <1>1, <3>1, KeyCertIsFirst
  <2> QED
    BY <2>1, <2>2
<1> QED
  BY <1>1, <1>2, KeyCertIsFirst, PassedIsAnchored

(* The promise, gate by gate.                                               *)
LEMMA GenuineMeans ==
  ASSUME IsServer(server), IsAttestation(sent), Decoded, Booted, NEW renewed
  PROVE  Genuine(renewed) <=>
           IF IsApple THEN AppleStands
           ELSE AndroidStands /\ RowsThatFail = {} /\ UnfitPatches \subseteq renewed
BY BootedIsDeployed, AppleGatesAreGenuine, AndroidGatesAreGenuine DEF Genuine

(* What was accepted passed every gate, and so is genuine.                  *)
LEMMA InvariantAccepts ==
  ASSUME AttestationInv
  PROVE  AcceptedIsGenuine
<1> SUFFICES ASSUME verdict = "ok" PROVE Len(sent.chain) > 1 /\ Anchored /\ Genuine({})
  BY DEF AcceptedIsGenuine
<1>1. IsServer(server) /\ IsAttestation(sent) /\ Judged
  BY DEF AttestationInv
<1>2. Stands /\ (IsApple \/ RowsThatFail \cup UnfitPatches = {})
  BY <1>1 DEF Judged
<1>3. Decoded /\ Booted /\ IF IsApple THEN AppleStands ELSE AndroidStands
  BY <1>2 DEF Stands
<1>4. Genuine({})
  BY <1>1, <1>2, <1>3, GenuineMeans
<1> QED
  BY <1>1, <1>2, <1>4, StandsIsAnchored

(* What is genuine fails at no gate.                                        *)
LEMMA InvariantRefuses ==
  ASSUME AttestationInv
  PROVE  GenuineIsNotRefused
<1> SUFFICES ASSUME gate = "done", Deployed, Len(sent.chain) > 1, StraightUp, Genuine({})
             PROVE  verdict = "ok"
  BY DEF GenuineIsNotRefused
<1>1. IsServer(server) /\ IsAttestation(sent) /\ Judged
  BY DEF AttestationInv
<1>2. Booted /\ Decoded
  <2>1. sent.form = "ok"
    BY DEF Genuine, AppleGenuine, AndroidGenuine
  <2> QED
    BY <1>1, <2>1, BootedIsDeployed DEF Decoded
<1>3. IF IsApple THEN AppleStands ELSE AndroidStands /\ RowsThatFail = {} /\ UnfitPatches = {}
  BY <1>1, <1>2, GenuineMeans
<1>4. ~Fails
  <2>1. FALSE \notin ChainAnswers
    BY <1>1, StraightUpPasses
  <2>2. StalePatches \subseteq UnfitPatches
    BY DEF StalePatches, UnfitPatches
  <2>3. IsApple \/ UnfitPatches = StalePatches
    BY <1>3, <2>2
  <2> QED
    BY <1>2, <1>3, <2>1, <2>3 DEF Fails
<1> QED
  BY <1>1, <1>3, <1>4 DEF Judged

(* The detail names a level that is out of date, the oldest of its kind.    *)
LEMMA StaleDetail ==
  ASSUME IsAttestation(sent), IsRecord(description), Record = description, StalePatches # {}
  PROVE  \E p \in StalePatches :
           /\ StalePatchDetail.level = Level(p)
           /\ StalePatchDetail.kind = "os" <=> p = "os"
           /\ StalePatchDetail.kind = "firmware" <=> "os" \notin StalePatches
           /\ \A q \in StalePatches \ {"os"} : p # "os" => Level(p) <= Level(q)
<1>1. StalePatches \subseteq Patches /\ \A p \in Patches : PatchLevels[p] = Level(p) /\ Level(p) \in Int
  BY AgesRead, LevelsRead DEF StalePatches
<1>2. CASE "os" \in StalePatches
  <2>1. StalePatchDetail = [kind |-> "os", level |-> PatchLevels["os"]]
    BY <1>2 DEF StalePatchDetail
  <2> QED
    BY <1>1, <1>2, <2>1
<1>3. CASE "os" \notin StalePatches
  <2> DEFINE levels == {PatchLevels[p] : p \in StalePatches}
  <2>1. StalePatchDetail.kind = "firmware" /\ StalePatchDetail.level = Min(levels)
    BY <1>3 DEF StalePatchDetail
  <2>2. \E m \in levels : \A l \in levels : m <= l
    <3>1. CASE "vendor" \in StalePatches /\ "boot" \in StalePatches
      <4>1. StalePatches = {"vendor", "boot"}
        BY <1>1, <1>3, <3>1 DEF Patches
      <4>2. levels = {Level("vendor"), Level("boot")}
        BY <1>1, <4>1
      <4>3. Level("vendor") \in Int /\ Level("boot") \in Int
        BY <1>1 DEF Patches
      <4> QED
        BY <4>2, <4>3
    <3>2. CASE \E p \in Patches : StalePatches = {p}
      <4>1. PICK p \in Patches : StalePatches = {p}
        BY <3>2
      <4>2. levels = {Level(p)} /\ Level(p) \in Int
        BY <1>1, <4>1
      <4> QED
        BY <4>2
    <3> QED
      BY <1>1, <1>3, <3>1, <3>2 DEF Patches
  <2>3. Min(levels) \in levels /\ \A l \in levels : Min(levels) <= l
    <3> HIDE DEF levels
    <3> QED
      BY <2>2 DEF Min
  <2>4. PICK p \in StalePatches : Min(levels) = PatchLevels[p]
    BY <2>3
  <2>5. \A q \in StalePatches : PatchLevels[p] <= PatchLevels[q]
    BY <2>3, <2>4
  <2> HIDE DEF levels
  <2> QED
    BY <1>1, <1>3, <2>1, <2>4, <2>5
<1> QED
  BY <1>2, <1>3

(* Only out-of-date levels make a statement stale, and all of them count.   *)
LEMMA InvariantExplains ==
  ASSUME AttestationInv
  PROVE  StaleMeansUpdatable
<1> DEFINE stale == {p \in Patches : Outdated(p)}
           helps == ~IsApple /\ Len(sent.chain) > 1 /\ ~Genuine({}) /\ Genuine(stale)
<1>1. IsServer(server) /\ IsAttestation(sent)
  BY DEF AttestationInv
<1> SUFFICES ASSUME gate = "done"
             PROVE  /\ verdict = "ATTESTATION_STALE_PATCH" => helps /\ Anchored
                    /\ helps /\ StraightUp => verdict = "ATTESTATION_STALE_PATCH"
                    /\ verdict = "ATTESTATION_STALE_PATCH" =>
                         /\ detail.kind = "firmware" <=> Current("os")
                         /\ \E p \in stale :
                              /\ detail.level = Level(p)
                              /\ detail.kind = "os" <=> p = "os"
                              /\ \A q \in stale \ {"os"} : p # "os" => Level(p) <= Level(q)
  BY DEF StaleMeansUpdatable
<1>2. Judged
  BY DEF AttestationInv
<1> HIDE DEF helps
<1>3. ASSUME IsRecord(description), Record = description
      PROVE  /\ stale = StalePatches /\ StalePatches \subseteq UnfitPatches
             /\ "os" \in UnfitPatches <=> ~Current("os")
  BY <1>1, <1>3, AgesRead DEF StalePatches, UnfitPatches, Patches
<1> HIDE DEF stale
<1>4. ASSUME verdict = "ATTESTATION_STALE_PATCH"
      PROVE  /\ helps /\ Anchored
             /\ detail.kind = "firmware" <=> Current("os")
             /\ \E p \in stale : /\ detail.level = Level(p)
                                 /\ detail.kind = "os" <=> p = "os"
                                 /\ \A q \in stale \ {"os"} : p # "os" => Level(p) <= Level(q)
  <2>1. /\ Stands /\ ~IsApple /\ RowsThatFail = {} /\ UnfitPatches = StalePatches
        /\ UnfitPatches # {} /\ detail = StalePatchDetail
    BY <1>2, <1>4 DEF Judged
  <2>2. Decoded /\ Booted /\ AndroidStands
    BY <2>1 DEF Stands
  <2>3. IsRecord(description) /\ Record = description
    <3>1. description # NoExtension
      BY <2>2 DEF AndroidStands, Described
    <3> QED
      BY <1>1, <2>2, <3>1, KeyCertIsFirst DEF Decoded
  <2>4. ~Genuine({}) /\ Genuine(stale)
    BY <1>1, <1>3, <2>1, <2>2, <2>3, GenuineMeans
  <2>5. Len(sent.chain) > 1 /\ Anchored
    BY <1>1, <2>1, StandsIsAnchored
  <2>6. helps
    BY <2>1, <2>4, <2>5 DEF helps
  <2>7. stale = StalePatches /\ ("os" \in StalePatches <=> ~Current("os"))
    BY <1>3, <2>1, <2>3
  <2>8. PICK p \in StalePatches :
          /\ detail.level = Level(p)
          /\ detail.kind = "os" <=> p = "os"
          /\ detail.kind = "firmware" <=> "os" \notin StalePatches
          /\ \A q \in StalePatches \ {"os"} : p # "os" => Level(p) <= Level(q)
    BY <1>1, <2>1, <2>3, StaleDetail
  <2> QED
    BY <2>5, <2>6, <2>7, <2>8
<1>5. ASSUME helps, StraightUp PROVE verdict = "ATTESTATION_STALE_PATCH"
  <2>1. ~IsApple /\ Len(sent.chain) > 1 /\ ~Genuine({}) /\ Genuine(stale)
    BY <1>5 DEF helps
  <2>2. Booted /\ Decoded
    <3>1. Deployed /\ sent.form = "ok"
      BY <2>1 DEF Genuine, AndroidGenuine
    <3> QED
      BY <1>1, <2>1, <3>1, BootedIsDeployed DEF Decoded
  <2>3. /\ AndroidStands /\ RowsThatFail = {} /\ UnfitPatches \subseteq stale
        /\ UnfitPatches # {}
    BY <1>1, <2>1, <2>2, GenuineMeans
  <2>4. IsRecord(description) /\ Record = description
    <3>1. description # NoExtension
      BY <2>3 DEF AndroidStands, Described
    <3> QED
      BY <1>1, <2>2, <3>1, KeyCertIsFirst DEF Decoded
  <2>5. UnfitPatches = StalePatches
    BY <1>3, <2>3, <2>4
  <2>6. FALSE \notin ChainAnswers
    BY <1>1, <1>5, <2>1, StraightUpPasses
  <2>7. ~Fails
    BY <2>1, <2>2, <2>3, <2>5, <2>6 DEF Fails
  <2> QED
    BY <1>2, <2>1, <2>3, <2>7 DEF Judged
<1> QED
  BY <1>4, <1>5

-----------------------------------------------------------------------------
(* No gate changes what is judged, nor therefore what is true of it.        *)
LEMMA InputsKept ==
  ASSUME UNCHANGED <<server, sent>>
  PROVE  /\ IsServer(server)' = IsServer(server) /\ IsAttestation(sent)' = IsAttestation(sent)
         /\ IsApple' = IsApple /\ Booted' = Booted /\ Decoded' = Decoded
         /\ ChainAnswers' = ChainAnswers
         /\ NonceHolds' = NonceHolds /\ KeyIdHolds' = KeyIdHolds /\ AuthReads' = AuthReads
         /\ AppleStands' = AppleStands
         /\ Unrevoked' = Unrevoked /\ Described' = Described /\ ChallengeHolds' = ChallengeHolds
         /\ LevelsStand' = LevelsStand /\ KeyHolds' = KeyHolds /\ PackageHolds' = PackageHolds
         /\ AndroidStands' = AndroidStands
         /\ RowsThatFail' = RowsThatFail /\ UnfitPatches' = UnfitPatches
         /\ StalePatches' = StalePatches /\ StalePatchDetail' = StalePatchDetail
         /\ Stands' = Stands /\ Fails' = Fails
<1>1. IsServer(server)' = IsServer(server) /\ IsAttestation(sent)' = IsAttestation(sent)
  BY DEF IsServer, IsAttestation
<1>2. IsApple' = IsApple /\ Roots' = Roots /\ keyCert' = keyCert
  BY DEF IsApple, Roots, keyCert
<1>3. Booted' = Booted /\ Decoded' = Decoded
  BY DEF Booted, Decoded, FingerprintsHold
<1>4. ChainAnswers' = ChainAnswers
  BY <1>2 DEF ChainAnswers
<1>5. AppIdentity' = AppIdentity /\ Environments' = Environments
  BY DEF AppIdentity, Environments, Relaxed
<1>6. NonceHolds' = NonceHolds /\ KeyIdHolds' = KeyIdHolds /\ AuthReads' = AuthReads
  BY <1>2 DEF NonceHolds, KeyIdHolds, AuthReads
<1>7. AuthHolds' = AuthHolds
  BY <1>5 DEF AuthHolds
<1>8. AppleStands' = AppleStands
  BY <1>6, <1>7 DEF AppleStands
<1>9. description' = description
  BY <1>2 DEF description
<1>10. appId' = appId
  BY <1>9 DEF appId
<1>11. Unrevoked' = Unrevoked /\ Described' = Described /\ ChallengeHolds' = ChallengeHolds
  BY <1>9 DEF Unrevoked, Described, ChallengeHolds
<1>12. LevelsStand' = LevelsStand /\ KeyHolds' = KeyHolds /\ PackageHolds' = PackageHolds
  BY <1>2, <1>5, <1>9, <1>10 DEF LevelsStand, KeyHolds, PackageHolds
<1>13. AndroidStands' = AndroidStands
  BY <1>11, <1>12 DEF AndroidStands
<1>14. /\ \A tag : ReadTagged(tag)' = ReadTagged(tag)
       /\ \A tag : ReadTaggedSet(tag)' = ReadTaggedSet(tag)
       /\ VersionBelowFloor' = VersionBelowFloor
  BY <1>5, <1>9, <1>10 DEF ReadTagged, ReadTaggedSet, VersionBelowFloor
<1>15. RowsThatFail' = RowsThatFail
  BY <1>9, <1>10, <1>14 DEF RowsThatFail
<1>16. PatchLevels' = PatchLevels
  BY <1>9, <1>14 DEF PatchLevels, OsPatchLevel, DayPatchLevel
<1>17. UnfitPatches' = UnfitPatches /\ StalePatches' = StalePatches
  BY <1>16 DEF UnfitPatches, StalePatches, PatchAge
<1>18. StalePatchDetail' = StalePatchDetail
  BY <1>16, <1>17 DEF StalePatchDetail
<1>19. Stands' = Stands /\ Fails' = Fails
  BY <1>2, <1>3, <1>4, <1>8, <1>13, <1>15, <1>17 DEF Stands, Fails
<1> QED
  BY <1>1, <1>2, <1>3, <1>4, <1>6, <1>8, <1>11, <1>12, <1>13, <1>15, <1>17, <1>18, <1>19

(* The invariant holds at the start.                                        *)
LEMMA BeginsUnjudged ==
  ASSUME AttestationInit
  PROVE  AttestationInv
<1>1. IsServer(server) /\ IsAttestation(sent)
  BY BatchesAssumption DEF AttestationInit
<1>2. gate = "boot" /\ verdict = "none"
  BY DEF AttestationInit
<1> QED
  BY <1>1, <1>2 DEF AttestationInv, AppleInv, AndroidInv, AppleGates, AndroidGates

(* An attestation that a gate turned away failed at it.                     *)
LEMMA TurnedAway ==
  ASSUME AttestationInv, NEW code, Answer(code), Fails,
         code \notin {"ok", "ATTESTATION_STALE_PATCH"}
  PROVE  AttestationInv'
<1>1. UNCHANGED <<server, sent>> /\ gate' = "done" /\ verdict' = code
  BY DEF Answer
<1>2. Judged'
  BY <1>1, InputsKept DEF Judged
<1> QED
  BY <1>1, <1>2, InputsKept
  DEF AttestationInv, AppleInv, AndroidInv, AppleGates, AndroidGates

(* An attestation that is accepted stood at every gate.                     *)
LEMMA Accepted ==
  ASSUME AttestationInv, Answer("ok"), Stands, IsApple \/ RowsThatFail \cup UnfitPatches = {}
  PROVE  AttestationInv'
<1>1. UNCHANGED <<server, sent>> /\ gate' = "done" /\ verdict' = "ok"
  BY DEF Answer
<1>2. Judged'
  BY <1>1, InputsKept DEF Judged
<1> QED
  BY <1>1, <1>2, InputsKept
  DEF AttestationInv, AppleInv, AndroidInv, AppleGates, AndroidGates

(* The gates both platforms share.                                          *)
LEMMA FirstGates ==
  ASSUME AttestationInv, Boot \/ DecodeApple \/ DecodeAndroid \/ VerifyChain
  PROVE  AttestationInv'
<1> USE DEF AttestationInv, AppleInv, AndroidInv, AppleGates, AndroidGates
<1>1. CASE Boot
  <2>1. gate = "boot" /\ IF ~Booted THEN Answer("down") ELSE Pass("decode")
    BY <1>1 DEF Boot, Gate, Booted, IsServer
  <2>2. CASE ~Booted
    BY <2>1, <2>2, TurnedAway DEF Fails
  <2>3. CASE Booted
    <3>1. UNCHANGED <<server, sent>> /\ gate' = "decode" /\ verdict' = verdict
      BY <2>1, <2>3 DEF Pass
    <3> QED
      BY <2>1, <2>3, <3>1, InputsKept
  <2> QED
    BY <2>2, <2>3
<1>2. ASSUME gate = "decode", ~Decoded, NEW code, Answer(code),
             code \notin {"ok", "ATTESTATION_STALE_PATCH"}
      PROVE  AttestationInv'
  BY <1>2, TurnedAway DEF Fails
<1>3. ASSUME gate = "decode", Decoded, Pass("chain")
      PROVE  AttestationInv'
  <2>1. UNCHANGED <<server, sent>> /\ gate' = "chain" /\ verdict' = verdict
    BY <1>3 DEF Pass
  <2> QED
    BY <1>3, <2>1, InputsKept
<1>4. Len(sent.chain) \in Nat
  BY ChainIsCerts
<1>5. CASE DecodeApple
  <2>1. gate = "decode"
    BY <1>5 DEF DecodeApple
  <2>2. CASE sent.form = "unreadable" /\ Answer("ATTESTATION_DECODE_FAILED")
    BY <1>2, <2>1, <2>2 DEF Decoded
  <2>3. CASE sent.form = "other" /\ Answer("WRONG_FORMAT")
    BY <1>2, <2>1, <2>3 DEF Decoded
  <2>4. CASE sent.form \in {"ok", "badCert"} /\ Len(sent.chain) < 2
             /\ Answer("ATTESTATION_DECODE_FAILED")
    <3>1. ~Decoded
      BY <1>4, <2>4 DEF Decoded
    <3> QED
      BY <1>2, <2>1, <2>4, <3>1
  <2>5. CASE sent.form = "badCert" /\ Answer("CERT_PARSE_FAILED")
    BY <1>2, <2>1, <2>5 DEF Decoded
  <2>6. CASE sent.form = "ok" /\ ~(Len(sent.chain) < 2) /\ Pass("chain")
    <3>1. Decoded
      BY <1>4, <2>6 DEF Decoded
    <3> QED
      BY <1>3, <2>1, <2>6, <3>1
  <2> QED
    BY <1>5, <2>2, <2>3, <2>4, <2>5, <2>6 DEF DecodeApple
<1>6. CASE DecodeAndroid
  <2>1. gate = "decode"
    BY <1>6 DEF DecodeAndroid
  <2>2. sent.form # "ok" \/ Len(sent.chain) < 2 <=> ~Decoded
    BY <1>4 DEF Decoded
  <2>3. IF ~Decoded THEN Answer("ATTESTATION_DECODE_FAILED") ELSE Pass("chain")
    BY <1>6, <2>2 DEF DecodeAndroid
  <2> QED
    BY <1>2, <1>3, <2>1, <2>3
<1>7. CASE VerifyChain
  <2>1. gate = "chain" /\ \E ok \in ChainAnswers :
          IF ~ok THEN Answer("CHAIN_INVALID") ELSE Pass(IF IsApple THEN "nonce" ELSE "revoked")
    BY <1>7 DEF VerifyChain, ChainAnswers, Roots
  <2>2. PICK ok \in ChainAnswers :
          IF ~ok THEN Answer("CHAIN_INVALID") ELSE Pass(IF IsApple THEN "nonce" ELSE "revoked")
    BY <2>1
  <2>3. ok \in BOOLEAN
    BY DEF ChainAnswers, VerifyChainToTrustedRoots, EngineAnswers, GoodWay
  <2>4. CASE ok = FALSE
    BY <2>1, <2>2, <2>4, TurnedAway DEF Fails
  <2>5. CASE ok = TRUE
    <3>1. /\ UNCHANGED <<server, sent>> /\ verdict' = verdict
          /\ gate' = IF IsApple THEN "nonce" ELSE "revoked"
      BY <2>2, <2>5 DEF Pass
    <3>2. TRUE \in ChainAnswers
      BY <2>5
    <3>3. /\ Booted' /\ Decoded' /\ (TRUE \in ChainAnswers)' /\ verdict' = "none"
          /\ IsServer(server)' /\ IsAttestation(sent)' /\ IsApple' = IsApple
      BY <2>1, <3>1, <3>2, InputsKept
    <3>4. CASE IsApple
      BY <3>1, <3>3, <3>4
    <3>5. CASE ~IsApple
      BY <3>1, <3>3, <3>5
    <3> QED
      BY <3>4, <3>5
  <2> QED
    BY <2>3, <2>4, <2>5
<1> QED
  BY <1>1, <1>5, <1>6, <1>7

(* The gates of the Apple statement: passed, each adds what it checks; not  *)
(* passed, it refuses.                                                      *)
LEMMA AppleGate ==
  ASSUME AttestationInv, IsApple,
         AppleNonce \/ KeyIdMatches \/ ParseAuthData \/ AuthFields
  PROVE  AttestationInv'
<1> USE DEF AttestationInv, AppleInv, AndroidInv, AppleGates, AndroidGates
<1>2. ASSUME NEW next \in {"keyId", "authData", "authFields"}, Pass(next), gate \in AppleGates,
             NonceHolds, next \in {"authData", "authFields"} => KeyIdHolds,
             next = "authFields" => AuthReads
      PROVE  AttestationInv'
  <2>1. UNCHANGED <<server, sent>> /\ gate' = next /\ verdict' = verdict
    BY <1>2 DEF Pass
  <2> QED
    BY <1>2, <2>1, InputsKept
<1>3. CASE AppleNonce
  <2>1. gate = "nonce" /\ IF ~NonceHolds THEN Answer("NONCE_INVALID") ELSE Pass("keyId")
    BY <1>3 DEF AppleNonce, Gate, NonceHolds
  <2> QED
    BY <1>2, <2>1, TurnedAway DEF Fails, AppleStands
<1>4. CASE KeyIdMatches
  <2>1. gate = "keyId" /\ IF ~KeyIdHolds THEN Answer("KEY_ID_MISMATCH") ELSE Pass("authData")
    BY <1>4 DEF KeyIdMatches, Gate, KeyIdHolds
  <2> QED
    BY <1>2, <2>1, TurnedAway DEF Fails, AppleStands
<1>5. CASE ParseAuthData
  <2>1. gate = "authData" /\ IF ~AuthReads THEN Answer("AUTH_DATA_INVALID") ELSE Pass("authFields")
    BY <1>5 DEF ParseAuthData, Gate, AuthReads, IsAttestation
  <2> QED
    BY <1>2, <2>1, TurnedAway DEF Fails, AppleStands
<1>6. CASE AuthFields
  <2>1. gate = "authFields" /\ Answer(IF AuthHolds THEN "ok" ELSE "AUTH_DATA_INVALID")
    BY <1>6 DEF AuthFields, AuthHolds
  <2>2. CASE AuthHolds
    <3>1. Stands
      BY <2>1, <2>2 DEF Stands, AppleStands
    <3> QED
      BY <2>1, <2>2, <3>1, Accepted
  <2>3. CASE ~AuthHolds
    BY <2>1, <2>3, TurnedAway DEF Fails, AppleStands
  <2> QED
    BY <2>2, <2>3
<1> QED
  BY <1>3, <1>4, <1>5, <1>6

(* The gates of an Android key before the table.                            *)
LEMMA AndroidGate ==
  ASSUME AttestationInv, ~IsApple,
         NotRevoked \/ Describe \/ ChallengeMatches \/ LevelsHold \/ KeyMatches \/ PackageMatches
  PROVE  AttestationInv'
<1> USE DEF AttestationInv, AppleInv, AndroidInv, AppleGates, AndroidGates
<1>1. ASSUME NEW next \in AndroidGates \ {"revoked"}, Pass(next), gate \in AndroidGates, Unrevoked,
             next # "describe" => Described,
             next \in {"levels", "key", "package", "evidence"} => ChallengeHolds,
             next \in {"key", "package", "evidence"} => LevelsStand,
             next \in {"package", "evidence"} => KeyHolds,
             next = "evidence" => PackageHolds
      PROVE  AttestationInv'
  <2>1. UNCHANGED <<server, sent>> /\ gate' = next /\ verdict' = verdict
    BY <1>1 DEF Pass
  <2>2. /\ Booted' /\ Decoded' /\ (TRUE \in ChainAnswers)' /\ verdict' = "none"
        /\ IsServer(server)' /\ IsAttestation(sent)' /\ ~IsApple'
    <3>1. /\ Booted /\ Decoded /\ TRUE \in ChainAnswers /\ verdict = "none"
          /\ IsServer(server) /\ IsAttestation(sent)
      BY <1>1
    <3>2. /\ Booted' = Booted /\ Decoded' = Decoded /\ ChainAnswers' = ChainAnswers
          /\ IsServer(server)' = IsServer(server) /\ IsAttestation(sent)' = IsAttestation(sent)
          /\ IsApple' = IsApple
      BY <2>1, InputsKept
    <3> QED
      BY <2>1, <3>1, <3>2
  <2>3. AndroidInv'
    <3>1. /\ Unrevoked' = Unrevoked /\ Described' = Described /\ ChallengeHolds' = ChallengeHolds
          /\ LevelsStand' = LevelsStand /\ KeyHolds' = KeyHolds /\ PackageHolds' = PackageHolds
      BY <2>1, InputsKept
    <3> QED
      BY <1>1, <2>1, <3>1
  <2>4. AppleInv'
    BY <1>1, <2>1
  <2> HIDE DEF AndroidInv, AppleInv
  <2> QED
    BY <1>1, <2>1, <2>2, <2>3, <2>4
<1>2. CASE NotRevoked
  <2>1. gate = "revoked" /\ IF ~Unrevoked THEN Answer("ATTESTATION_CERT_REVOKED") ELSE Pass("describe")
    BY <1>2 DEF NotRevoked, Gate, Unrevoked
  <2> QED
    BY <1>1, <2>1, TurnedAway DEF Fails, AndroidStands
<1>3. gate \in AndroidGates => Len(sent.chain) > 1
  BY DEF Decoded
<1>4. CASE Describe
  <2>1. description # NoExtension => description.readable \in BOOLEAN
    BY <1>3, <1>4, KeyCertIsFirst DEF Describe, Gate, IsRecord
  <2>2. gate = "describe" /\ IF ~Described THEN Answer("KEY_DESCRIPTION_INVALID") ELSE Pass("challenge")
    BY <1>4, <2>1 DEF Describe, Gate, Described
  <2> QED
    BY <1>1, <2>2, TurnedAway DEF Fails, AndroidStands
<1>5. CASE ChallengeMatches
  <2>1. gate = "challenge" /\ IF ~ChallengeHolds THEN Answer("CHALLENGE_MISMATCH") ELSE Pass("levels")
    BY <1>5 DEF ChallengeMatches, Gate, ChallengeHolds
  <2> QED
    BY <1>1, <2>1, TurnedAway DEF Fails, AndroidStands
<1>6. CASE LevelsHold
  <2>1. sent.platform \in {"android-tee", "android-strongbox"}
    BY DEF IsAttestation, IsApple
  <2>2. gate = "levels" /\ IF ~LevelsStand THEN Answer("SECURITY_LEVEL_MISMATCH") ELSE Pass("key")
    BY <1>6, <2>1 DEF LevelsHold, Gate, LevelsStand
  <2> QED
    BY <1>1, <2>2, TurnedAway DEF Fails, AndroidStands
<1>7. CASE KeyMatches
  <2>1. gate = "key" /\ IF ~KeyHolds THEN Answer("PUBLIC_KEY_MISMATCH") ELSE Pass("package")
    BY <1>7 DEF KeyMatches, Gate, KeyHolds
  <2> QED
    BY <1>1, <2>1, TurnedAway DEF Fails, AndroidStands
<1>8. CASE PackageMatches
  <2>1. gate = "package" /\ IF ~PackageHolds THEN Answer("PACKAGE_NAME_MISMATCH") ELSE Pass("evidence")
    BY <1>8 DEF PackageMatches, Gate, PackageHolds
  <2> QED
    BY <1>1, <2>1, TurnedAway DEF Fails, AndroidStands
<1> QED
  BY <1>2, <1>4, <1>5, <1>6, <1>7, <1>8

(* The table, and what its failing rows make of the verdict.                *)
LEMMA EvidenceGate ==
  ASSUME AttestationInv, ~IsApple, Al2Evidence
  PROVE  AttestationInv'
<1> USE DEF AttestationInv, AppleInv, AndroidInv, AppleGates, AndroidGates
<1>1. gate = "evidence"
  BY DEF Al2Evidence
<1>2. Stands
  BY <1>1 DEF Stands, AndroidStands
<1>3. CASE RowsThatFail \cup UnfitPatches = {} /\ Answer("ok")
  BY <1>2, <1>3, Accepted
<1>4. CASE /\ RowsThatFail \cup UnfitPatches # {} /\ RowsThatFail = {}
           /\ UnfitPatches = StalePatches
           /\ gate' = "done" /\ verdict' = "ATTESTATION_STALE_PATCH"
           /\ detail' = StalePatchDetail /\ UNCHANGED <<server, sent>>
  <2>1. Judged'
    BY <1>2, <1>4, InputsKept DEF Judged
  <2> QED
    BY <1>4, <2>1, InputsKept
<1>5. CASE ~(RowsThatFail = {} /\ UnfitPatches = StalePatches) /\ Answer("AL2_EVIDENCE_FAILED")
  BY <1>5, TurnedAway DEF Fails
<1> QED
  BY <1>3, <1>4, <1>5 DEF Al2Evidence

(* The inductive invariant of the gates: at each of them, what the gates    *)
(* before it established, and at the end that the verdict is what they came *)
(* to.                                                                      *)
THEOREM AttestationInvariant == AttestationSpec => []AttestationInv
<1>1. AttestationInit => AttestationInv
  BY BeginsUnjudged
<1>2. AttestationInv /\ [AttestationNext]_attestationVars => AttestationInv'
  <2> SUFFICES ASSUME AttestationInv, [AttestationNext]_attestationVars PROVE AttestationInv'
    OBVIOUS
  <2>1. CASE Boot \/ DecodeApple \/ DecodeAndroid \/ VerifyChain
    BY <2>1, FirstGates
  <2>2. CASE AppleNonce \/ KeyIdMatches \/ ParseAuthData \/ AuthFields
    <3>1. IsApple
      BY <2>2 DEF AppleNonce, KeyIdMatches, ParseAuthData, AuthFields, Gate,
                  AttestationInv, AppleGates, AndroidGates
    <3> QED
      BY <2>2, <3>1, AppleGate
  <2>3. CASE NotRevoked \/ Describe \/ ChallengeMatches \/ LevelsHold \/ KeyMatches \/ PackageMatches
    <3>1. ~IsApple
      BY <2>3 DEF NotRevoked, Describe, ChallengeMatches, LevelsHold, KeyMatches,
                  PackageMatches, Gate, AttestationInv, AppleGates, AndroidGates
    <3> QED
      BY <2>3, <3>1, AndroidGate
  <2>4. CASE Al2Evidence
    <3>1. ~IsApple
      BY <2>4 DEF Al2Evidence, AttestationInv, AppleGates, AndroidGates
    <3> QED
      BY <2>4, <3>1, EvidenceGate
  <2>5. CASE UNCHANGED attestationVars
    <3>1. UNCHANGED <<server, sent>> /\ gate' = gate /\ verdict' = verdict /\ detail' = detail
      BY <2>5 DEF attestationVars
    <3>2. Judged' = Judged
      BY <3>1, InputsKept DEF Judged
    <3>3. AppleInv' = AppleInv /\ AndroidInv' = AndroidInv
      BY <3>1, InputsKept DEF AppleInv, AndroidInv
    <3>4. gate' \in {"boot", "decode", "chain", "done"}
                    \cup (IF IsApple' THEN AppleGates ELSE AndroidGates)
      BY <3>1, InputsKept DEF AttestationInv
    <3> QED
      BY <3>1, <3>2, <3>3, <3>4, InputsKept DEF AttestationInv
  <2> QED
    BY <2>1, <2>2, <2>3, <2>4, <2>5 DEF AttestationNext
<1> QED
  BY <1>1, <1>2, PTL DEF AttestationSpec

(* For any certificates, roots, keys and dates: a key is accepted only      *)
(* under an unbroken line of in-date CA certificates up to a pinned root,   *)
(* with a statement made for this request (verifyChainToTrustedRoots, the   *)
(* gates of apple.ts and android.ts).                                       *)
THEOREM AcceptedIsGenuineHolds == AttestationSpec => []AcceptedIsGenuine
BY AttestationInvariant, InvariantAccepts, PTL

(* For any certificates, roots, keys and dates: a genuine statement under a *)
(* chain as devices present it is accepted, on either runtime (the fallback *)
(* engine, the dropped top, the patch windows).                             *)
THEOREM GenuineIsNotRefusedHolds == AttestationSpec => []GenuineIsNotRefused
BY AttestationInvariant, InvariantRefuses, PTL

(* For any record and date: a stale patch level is reported exactly when    *)
(* newer patches would help, with the oldest level that needs them          *)
(* (enforceAl2Evidence, stalePatchDetail).                                  *)
THEOREM StaleMeansUpdatableHolds == AttestationSpec => []StaleMeansUpdatable
BY AttestationInvariant, InvariantExplains, PTL

-----------------------------------------------------------------------------
(* Issuing a leaf.                                                          *)
(* The pairs that name a flow. *)
LEMMA FlowPairs ==
  /\ \A r \in Requests : Issue(r) \in Flow /\ Check(r) \in Flow
  /\ \A f \in Flow : /\ f[2] \in Requests
                     /\ f[1] = "check" => f = Check(f[2])
                     /\ f[1] # "check" => f = Issue(f[2])
  /\ \A r : /\ Issue(r)[1] = "issue" /\ Issue(r)[2] = r
            /\ Check(r)[1] = "check" /\ Check(r)[2] = r
BY DEF Flow, Issue, Check

(* What a step is. *)
LEMMA StepCases ==
  ASSUME [Next]_vars
  PROVE  \/ UNCHANGED vars \/ TimePasses
         \/ \E r \in Requests :
              \/ CheckCsr(r) \/ LoadKmsCredentials(r) \/ AwaitCheck(r)
              \/ BuildLeaf(r) \/ PublicKeyArrives(r) \/ SignatureArrives(r)
         \/ \E f \in Flow : GetAccessToken(f) \/ (f \notin silent /\ TokenExchanged(f))
BY FlowPairs DEF Next, Local, Answered

(* The serial both sides derive is positive and has no leading zero.        *)
LEMMA SerialPositive ==
  ASSUME NEW head \in 0 .. 255, NEW rest
  PROVE  /\ SerialDecimal(<<head, rest>>)[1] \in 1 .. 127
         /\ CertSerial(<<head, rest>>) = SerialDecimal(<<head, rest>>)
<1>1. Head(<<head, rest>>) = head
  OBVIOUS
<1>2. head % 128 \in 0 .. 127
  OBVIOUS
<1>3. \A x : (<<x>> \o Tail(<<head, rest>>))[1] = x
  OBVIOUS
<1> QED
  BY <1>1, <1>2, <1>3 DEF SerialDecimal, CertSerial

(* A leaf lasts for the days of its assurance level, which its cap covers.  *)
LEMMA ValidityWithinCap ==
  ASSUME now \in Nat, NEW level \in {"AL1", "AL2"}
  PROVE  NotAfter(leafValidityDays(level)) - NotBefore + 1 <= Cap(level) * 86400
<1>1. leafValidityDays(level) \in Nat /\ leafValidityDays(level) <= Cap(level)
      /\ Cap(level) \in Nat
  BY DEF leafValidityDays, Cap
<1>2. NotAfter(leafValidityDays(level)) - NotBefore + 1 = leafValidityDays(level) * 86400
  BY <1>1 DEF NotAfter, NotBefore, Day
<1> QED
  BY <1>1, <1>2

-----------------------------------------------------------------------------
(* The types. *)
LEMMA Overwrite ==
  ASSUME NEW S, NEW g, DOMAIN g = S, NEW a \in S, NEW b
  PROVE  LET h == [g EXCEPT ![a] = b]
         IN  DOMAIN h = S /\ h[a] = b /\ \A c \in S : c # a => h[c] = g[c]
OBVIOUS

(* Each action leaves the clock, the program counters and the outcomes in   *)
(* their types.                                                             *)
LEMMA ControlStep ==
  ASSUME Control, [Next]_vars
  PROVE  Control'
<1> USE FlowPairs DEF Control, Steps, Outcomes
<1>1. CASE UNCHANGED vars
  BY <1>1 DEF vars
<1>2. CASE TimePasses
  BY <1>2, IssuanceTimes DEF TimePasses
<1>3. ASSUME NEW r \in Requests, CheckCsr(r) PROVE Control'
  BY <1>3 DEF CheckCsr, Goto, Refuse
<1>4. ASSUME NEW r \in Requests, LoadKmsCredentials(r) PROVE Control'
  BY <1>4, SMTT(30) DEF LoadKmsCredentials, EnsureIntermediateMatchesKms, Goto, Refuse
<1>5. ASSUME NEW r \in Requests, AwaitCheck(r) PROVE Control'
  BY <1>5 DEF AwaitCheck, Goto, Refuse
<1>6. ASSUME NEW r \in Requests, BuildLeaf(r) PROVE Control'
  BY <1>6 DEF BuildLeaf, Goto, Refuse
<1>7. ASSUME NEW r \in Requests, PublicKeyArrives(r) PROVE Control'
  BY <1>7, SMTT(30) DEF PublicKeyArrives, Goto, Throw, Refuse, RejectCheck
<1>8. ASSUME NEW r \in Requests, SignatureArrives(r) PROVE Control'
  BY <1>8 DEF SignatureArrives, Goto, Throw, Refuse, RejectCheck
<1>9. ASSUME NEW f \in Flow, GetAccessToken(f) PROVE Control'
  BY <1>9 DEF GetAccessToken, Present, Goto
<1>10. ASSUME NEW f \in Flow, TokenExchanged(f) PROVE Control'
  BY <1>10 DEF TokenExchanged, CacheToken, Present, Throw, RejectCheck, Refuse, Goto
<1> QED
  BY <1>1, <1>2, <1>3, <1>4, <1>5, <1>6, <1>7, <1>8, <1>9, <1>10, StepCases

(* Each action overwrites the tables of the registrations in place.         *)
LEMMA DomainsStep ==
  ASSUME Domains, [Next]_vars
  PROVE  Domains'
<1> USE FlowPairs, NoneAssumption DEF Domains
<1>1. CASE UNCHANGED vars
  BY <1>1 DEF vars
<1>2. CASE TimePasses
  BY <1>2 DEF TimePasses
<1>3. ASSUME NEW r \in Requests, CheckCsr(r) PROVE Domains'
  BY <1>3 DEF CheckCsr, Goto, Refuse
<1>4. ASSUME NEW r \in Requests, LoadKmsCredentials(r) PROVE Domains'
  BY <1>4 DEF LoadKmsCredentials, EnsureIntermediateMatchesKms, Goto, Refuse
<1>5. ASSUME NEW r \in Requests, AwaitCheck(r) PROVE Domains'
  BY <1>5 DEF AwaitCheck, Goto, Refuse
<1>6. ASSUME NEW r \in Requests, BuildLeaf(r) PROVE Domains'
  BY <1>6 DEF BuildLeaf, Goto, Refuse
<1>7. ASSUME NEW r \in Requests, PublicKeyArrives(r) PROVE Domains'
  BY <1>7 DEF PublicKeyArrives, Goto, Throw, Refuse, RejectCheck
<1>8. ASSUME NEW r \in Requests, SignatureArrives(r) PROVE Domains'
  BY <1>8 DEF SignatureArrives, Goto, Throw, Refuse, RejectCheck
<1>9. ASSUME NEW f \in Flow, GetAccessToken(f) PROVE Domains'
  BY <1>9 DEF GetAccessToken, Present, Goto
<1>10. ASSUME NEW f \in Flow, f \notin silent, TokenExchanged(f) PROVE Domains'
  BY <1>10 DEF TokenExchanged, CacheToken, Present, Throw, RejectCheck, Refuse, Goto
<1> QED
  BY <1>1, <1>2, <1>3, <1>4, <1>5, <1>6, <1>7, <1>8, <1>9, <1>10, StepCases

(* The shared check. *)
LEMMA CheckStep ==
  ASSUME Control, CheckInv, [Next]_vars
  PROVE  CheckInv'
<1> USE FlowPairs, NoneAssumption DEF Control, CheckInv, Steps, Outcomes, inputs, IntermediateMatches
<1>1. CASE UNCHANGED vars
  BY <1>1 DEF vars
<1>2. CASE TimePasses
  BY <1>2 DEF TimePasses
<1>3. ASSUME NEW r \in Requests, CheckCsr(r) PROVE CheckInv'
  BY <1>3 DEF CheckCsr, Goto, Refuse
<1>4. ASSUME NEW r \in Requests, LoadKmsCredentials(r) PROVE CheckInv'
  <2>1. /\ lost' = [lost EXCEPT ![r] = {q \in Requests : promise[q] = "rejected"}]
        /\ UNCHANGED env /\ at[Issue(r)] = "load" /\ promise[r] = "none"
        /\ awaited[r] = NoPromise
    BY <1>4 DEF LoadKmsCredentials
  <2>2. CASE ~CredentialsLoad
    <3>1. awaited' = awaited /\ cache' = cache /\ promise' = promise
          /\ at' = [at EXCEPT ![Issue(r)] = "done"]
      BY <1>4, <2>2 DEF LoadKmsCredentials, Goto, Refuse
    <3> QED
      BY <2>1, <3>1
  <2>3. CASE CredentialsLoad /\ cache = NoPromise
    <3>1. /\ cache' = r /\ promise' = [promise EXCEPT ![r] = "pending"]
          /\ at' = [at EXCEPT ![Check(r)] = "token", ![Issue(r)] = "wait"]
          /\ awaited' = [awaited EXCEPT ![r] = r]
      BY <1>4, <2>3 DEF LoadKmsCredentials, EnsureIntermediateMatchesKms
    <3> QED
      BY <2>1, <3>1
  <2>4. CASE CredentialsLoad /\ cache # NoPromise
    <3>1. /\ cache' = cache /\ promise' = promise
          /\ at' = [at EXCEPT ![Issue(r)] = "wait"]
          /\ awaited' = [awaited EXCEPT ![r] = cache]
      BY <1>4, <2>4 DEF LoadKmsCredentials, EnsureIntermediateMatchesKms, Goto
    <3> QED
      BY <2>1, <2>4, <3>1
  <2> QED
    BY <2>2, <2>3, <2>4
<1>5. ASSUME NEW r \in Requests, AwaitCheck(r) PROVE CheckInv'
  BY <1>5 DEF AwaitCheck, Goto, Refuse
<1>6. ASSUME NEW r \in Requests, BuildLeaf(r) PROVE CheckInv'
  BY <1>6 DEF BuildLeaf, Goto, Refuse
<1>7. ASSUME NEW r \in Requests, PublicKeyArrives(r) PROVE CheckInv'
  BY <1>7 DEF PublicKeyArrives, Goto, Throw, Refuse, RejectCheck
<1>8. ASSUME NEW r \in Requests, SignatureArrives(r) PROVE CheckInv'
  BY <1>8 DEF SignatureArrives, Goto, Throw, Refuse, RejectCheck
<1>9. ASSUME NEW f \in Flow, GetAccessToken(f) PROVE CheckInv'
  BY <1>9 DEF GetAccessToken, Present, Goto
<1>10. ASSUME NEW f \in Flow, f \notin silent, TokenExchanged(f) PROVE CheckInv'
  BY <1>10 DEF TokenExchanged, CacheToken, Present, Throw, RejectCheck, Refuse, Goto
<1> QED
  BY <1>1, <1>2, <1>3, <1>4, <1>5, <1>6, <1>7, <1>8, <1>9, <1>10, StepCases

(* The token. *)
LEMMA TokenStep ==
  ASSUME Control, Domains, TokenInv, [Next]_vars
  PROVE  TokenInv'
<1> USE FlowPairs, NoneAssumption DEF Control, Domains, TokenInv, TokenOutlivesItsUse, Steps, Outcomes, inputs
<1>1. CASE UNCHANGED vars
  BY <1>1 DEF vars
<1>2. CASE TimePasses
  BY <1>2, IssuanceTimes DEF TimePasses
<1>3. ASSUME NEW r \in Requests, CheckCsr(r) PROVE TokenInv'
  BY <1>3 DEF CheckCsr, Goto, Refuse
<1>4. ASSUME NEW r \in Requests, LoadKmsCredentials(r) PROVE TokenInv'
  BY <1>4 DEF LoadKmsCredentials, EnsureIntermediateMatchesKms, Goto, Refuse
<1>5. ASSUME NEW r \in Requests, AwaitCheck(r) PROVE TokenInv'
  BY <1>5 DEF AwaitCheck, Goto, Refuse
<1>6. ASSUME NEW r \in Requests, BuildLeaf(r) PROVE TokenInv'
  BY <1>6 DEF BuildLeaf, Goto, Refuse
<1>7. ASSUME NEW r \in Requests, PublicKeyArrives(r) PROVE TokenInv'
  BY <1>7 DEF PublicKeyArrives, Goto, Throw, Refuse, RejectCheck
<1>8. ASSUME NEW r \in Requests, SignatureArrives(r) PROVE TokenInv'
  BY <1>8 DEF SignatureArrives, Goto, Throw, Refuse, RejectCheck
<1>9. ASSUME NEW f \in Flow, GetAccessToken(f) PROVE TokenInv'
  <2>1. UNCHANGED <<silent, now, cachedToken>> /\ at[f] = "token"
    BY <1>9 DEF GetAccessToken
  <2>2. CASE TokenUsable
    <3>1. /\ at' = [at EXCEPT ![f] = "kms"] /\ began' = began
          /\ bearer' = [bearer EXCEPT ![f] = [value |-> cachedToken.value, since |-> now]]
      BY <1>9, <2>2 DEF GetAccessToken, Present, Goto
    <3>2. cachedToken.value - now > 60
      BY <2>2 DEF TokenUsable, Margin
    <3>3. TokenOutlivesItsUse'
      BY <3>1, <3>2, Overwrite
    <3> QED
      BY <2>1, <3>1, <3>3
  <2>3. CASE ~TokenUsable
    <3>1. /\ at' = [at EXCEPT ![f] = "exchange"] /\ bearer' = bearer
          /\ began' = [began EXCEPT ![f] = now]
      BY <1>9, <2>3 DEF GetAccessToken, Goto
    <3> QED
      BY <2>1, <3>1, IssuanceTimes
  <2> QED
    BY <2>2, <2>3
<1>10. ASSUME NEW f \in Flow, f \notin silent, TokenExchanged(f) PROVE TokenInv'
  <2>1. UNCHANGED <<silent, now, began>> /\ at[f] = "exchange" /\ now <= began[f] + Patience
    BY <1>10 DEF TokenExchanged
  <2>2. CASE Throw(f) /\ UNCHANGED <<cachedToken, bearer>>
    BY <2>1, <2>2 DEF Throw, RejectCheck, Refuse, Goto
  <2>3. ASSUME NEW minted \in 0 .. now, began[f] <= minted,
               CacheToken(f, minted + TokenLife), Present(f, minted + TokenLife)
        PROVE  TokenInv'
    <3> DEFINE expiry == minted + TokenLife
    <3>1. /\ at' = [at EXCEPT ![f] = "kms"]
          /\ bearer' = [bearer EXCEPT ![f] = [value |-> expiry, since |-> now]]
          /\ cachedToken' = [value |-> expiry, expiresAt |-> began[f] + TokenLife]
      BY <2>3 DEF CacheToken, Present, Goto
    <3>2. expiry \in Int /\ expiry >= began[f] + TokenLife /\ expiry - now > 60
      BY <2>1, <2>3, IssuanceTimes
    <3>3. TokenOutlivesItsUse'
      BY <3>1, <3>2, Overwrite
    <3> QED
      BY <2>1, <3>1, <3>2, <3>3, IssuanceTimes
  <2> QED
    BY <1>10, <2>2, <2>3 DEF TokenExchanged
<1> QED
  BY <1>1, <1>2, <1>3, <1>4, <1>5, <1>6, <1>7, <1>8, <1>9, <1>10, StepCases

-----------------------------------------------------------------------------
(* What a request has established.  A step of one request, or of a check,   *)
(* leaves what the others have.                                             *)
Kept(q) ==
  /\ at'[Issue(q)] = at[Issue(q)] /\ leaf'[q] = leaf[q] /\ issued'[q] = issued[q]

(* A registration that a step leaves alone keeps what it has established.   *)
LEMMA KeptProgress ==
  ASSUME ProgressInv, UNCHANGED <<env, asks>>, NEW q \in Requests, Kept(q)
  PROVE  Progress(q)'
BY DEF ProgressInv, Progress, Kept, Promising, LeafTruthful, IntermediateMatches, LedgerEntryHolds,
       WithinCap

(* A request that failed leaves nothing but its end. *)
LEMMA EndedProgress ==
  ASSUME ProgressInv, UNCHANGED <<env, asks, leaf, issued>>, NEW q \in Requests,
         at'[Issue(q)] = "done"
  PROVE  Progress(q)'
BY DEF ProgressInv, Progress, LeafTruthful, IntermediateMatches, LedgerEntryHolds, WithinCap

(* A call to Google that fails ends its registration, or only the check.    *)
LEMMA ThrowProgress ==
  ASSUME Control, ProgressInv, UNCHANGED <<env, asks, leaf, issued>>,
         NEW f \in Flow, Throw(f), NEW q \in Requests
  PROVE  Progress(q)'
<1>1. CASE f[1] = "check"
  <2>1. at' = [at EXCEPT ![Check(f[2])] = "done"]
    BY <1>1 DEF Throw, RejectCheck, Goto
  <2> QED
    BY <1>1, <2>1, FlowPairs, KeptProgress DEF Kept, Control
<1>2. CASE f[1] # "check"
  <2>1. at' = [at EXCEPT ![Issue(f[2])] = "done"]
    BY <1>2 DEF Throw, Refuse, Goto
  <2>2. CASE q = f[2]
    BY <2>1, <2>2, FlowPairs, EndedProgress DEF Control
  <2>3. CASE q # f[2]
    BY <2>1, <2>3, FlowPairs, KeptProgress DEF Kept, Control
  <2> QED
    BY <2>2, <2>3
<1> QED
  BY <1>1, <1>2

(* A registration that gets its token goes on with the leaf it has built.   *)
LEMMA MovedOnProgress ==
  ASSUME Control, ProgressInv, UNCHANGED <<env, asks, leaf, issued>>, NEW f \in Flow,
         at[f] \in {"token", "exchange"}, NEW step \in {"exchange", "kms"},
         at' = [at EXCEPT ![f] = step], NEW q \in Requests
  PROVE  Progress(q)'
<1>1. CASE f # Issue(q)
  BY <1>1, FlowPairs, KeptProgress DEF Kept, Control
<1>2. CASE f = Issue(q)
  <2>1. at'[Issue(q)] = step
    BY <1>2 DEF Control
  <2>2. at[Issue(q)] \in {"token", "exchange"}
    BY <1>2
  <2> QED
    BY <2>1, <2>2
       DEF ProgressInv, Progress, Promising, LeafTruthful, IntermediateMatches, LedgerEntryHolds,
           WithinCap
<1> QED
  BY <1>1, <1>2

(* Each action keeps the promises of every registration.                    *)
LEMMA ProgressStep ==
  ASSUME Control, Domains, CheckInv, ProgressInv, [Next]_vars
  PROVE  ProgressInv'
<1> SUFFICES ASSUME NEW q \in Requests PROVE Progress(q)'
  BY DEF ProgressInv
<1> USE FlowPairs DEF Kept
<1>1. CASE UNCHANGED vars
  BY <1>1, KeptProgress DEF vars
<1>2. CASE TimePasses
  BY <1>2, KeptProgress DEF TimePasses, inputs
<1>3. ASSUME NEW r \in Requests, CheckCsr(r) PROVE Progress(q)'
  <2>1. /\ UNCHANGED <<env, asks, leaf, issued>> /\ at[Issue(r)] = "csr"
        /\ \/ at' = [at EXCEPT ![Issue(r)] = "done"]
           \/ /\ at' = [at EXCEPT ![Issue(r)] = "load"]
              /\ asks[r].csr.spki = asks[r].sePublicKey
    BY <1>3 DEF CheckCsr, Goto, Refuse, inputs
  <2>2. CASE q # r
    BY <2>1, <2>2, KeptProgress DEF Control
  <2>3. CASE q = r /\ at' = [at EXCEPT ![Issue(r)] = "done"]
    BY <2>1, <2>3, EndedProgress DEF Control
  <2>4. CASE q = r /\ at' = [at EXCEPT ![Issue(r)] = "load"]
    <3>1. at'[Issue(r)] = "load" /\ asks[r].csr.spki = asks[r].sePublicKey
      BY <2>1, <2>4 DEF Control
    <3> QED
      BY <2>1, <2>4, <3>1
         DEF ProgressInv, Progress, LeafTruthful, IntermediateMatches, LedgerEntryHolds, WithinCap
  <2> QED
    BY <2>1, <2>2, <2>3, <2>4
<1>4. ASSUME NEW r \in Requests, LoadKmsCredentials(r) PROVE Progress(q)'
  <2>1. /\ UNCHANGED <<env, asks, leaf, issued>> /\ at[Issue(r)] = "load"
        /\ \/ at' = [at EXCEPT ![Issue(r)] = "done"]
           \/ at' = [at EXCEPT ![Issue(r)] = "wait"]
           \/ at' = [at EXCEPT ![Check(r)] = "token", ![Issue(r)] = "wait"]
    BY <1>4 DEF LoadKmsCredentials, EnsureIntermediateMatchesKms, Goto, Refuse, inputs
  <2>2. CASE q # r
    <3>1. at'[Issue(q)] = at[Issue(q)]
      BY <2>1, <2>2 DEF Control
    <3> QED
      BY <2>1, <3>1, KeptProgress
  <2>3. CASE q = r
    <3>1. at'[Issue(r)] \in {"done", "wait"}
      BY <2>1 DEF Control
    <3> QED
      BY <2>1, <2>3, <3>1
         DEF ProgressInv, Progress, LeafTruthful, IntermediateMatches, LedgerEntryHolds, WithinCap
  <2> QED
    BY <2>2, <2>3
<1>5. ASSUME NEW r \in Requests, AwaitCheck(r) PROVE Progress(q)'
  <2>1. /\ UNCHANGED <<env, asks, leaf, issued>> /\ at[Issue(r)] = "wait"
        /\ \/ at' = [at EXCEPT ![Issue(r)] = "done"]
           \/ at' = [at EXCEPT ![Issue(r)] = "build"] /\ promise[awaited[r]] = "fulfilled"
    BY <1>5 DEF AwaitCheck, Goto, Refuse, inputs
  <2>2. CASE q # r
    BY <2>1, <2>2, KeptProgress DEF Control
  <2>3. CASE q = r /\ at' = [at EXCEPT ![Issue(r)] = "done"]
    BY <2>1, <2>3, EndedProgress DEF Control
  <2>4. CASE q = r /\ at' = [at EXCEPT ![Issue(r)] = "build"] /\ promise[awaited[r]] = "fulfilled"
    <3>1. at'[Issue(r)] = "build" /\ IntermediateMatches
      BY <2>1, <2>4 DEF Control, CheckInv
    <3> QED
      BY <2>1, <2>4, <3>1
         DEF ProgressInv, Progress, LeafTruthful, IntermediateMatches, LedgerEntryHolds, WithinCap
  <2> QED
    BY <2>1, <2>2, <2>3, <2>4
<1>6. ASSUME NEW r \in Requests, BuildLeaf(r) PROVE Progress(q)'
  <2>1. UNCHANGED <<env, asks, issued, now>> /\ at[Issue(r)] = "build"
    BY <1>6 DEF BuildLeaf, inputs
  <2>2. CASE leaf' = leaf /\ at' = [at EXCEPT ![Issue(r)] = "done"]
    <3>1. CASE q # r
      BY <2>1, <2>2, <3>1, KeptProgress DEF Control
    <3>2. CASE q = r
      BY <2>1, <2>2, <3>2, EndedProgress DEF Control
    <3> QED
      BY <3>1, <3>2
  <2>3. ASSUME NEW head \in Heads, at' = [at EXCEPT ![Issue(r)] = "token"],
               leaf' = [leaf EXCEPT ![r] = BuildLeafCertificate(r, <<head, r>>)]
        PROVE  Progress(q)'
    <3>1. DOMAIN leaf = Requests
      BY DEF Domains
    <3>2. leaf'[r] = BuildLeafCertificate(r, <<head, r>>)
          /\ \A p \in Requests : p # r => leaf'[p] = leaf[p]
      BY <2>3, <3>1, Overwrite
    <3>3. CASE q # r
      BY <2>1, <2>3, <3>2, <3>3, KeptProgress DEF Control
    <3>4. CASE q = r
      <4>1. at'[Issue(r)] = "token"
        BY <2>3 DEF Control
      <4>2. /\ leaf'[r].serial = SerialDecimal(leaf'[r].bytes) /\ leaf'[r].serial[1] \in 1 .. 127
            /\ leaf'[r].until - leaf'[r].from + 1 <= Cap(leaf'[r].ext.policy.level) * 86400
            /\ leaf'[r].spki = asks[r].csr.spki
            /\ {"serial", "from", "until", "spki", "ext"} \subseteq DOMAIN leaf'[r]
        <5>1. now \in Nat /\ head \in 0 .. 255
          BY HeadsAssumption DEF Control
        <5> DEFINE c == leaf'[r]
                   level == assuranceLevelFor(asks[r].platform)
        <5>2. c = BuildLeafCertificate(r, <<head, r>>)
          BY <3>2
        <5> HIDE DEF c
        <5>3. /\ c.serial = CertSerial(c.bytes) /\ c.bytes = <<head, r>>
              /\ c.spki = asks[r].csr.spki
              /\ {"serial", "from", "until", "spki", "ext"} \subseteq DOMAIN c
          BY <5>2, Zenon DEF BuildLeafCertificate
        <5>4. /\ c.from = NotBefore /\ c.until = NotAfter(leafValidityDays(level))
              /\ c.ext.policy.level = level
          BY <5>2 DEF BuildLeafCertificate, LeafProfile, PolicyExtensions
        <5>5. NotAfter(leafValidityDays(level)) - NotBefore + 1 <= Cap(level) * 86400
          BY <5>1, ValidityWithinCap DEF assuranceLevelFor
        <5> HIDE DEF level
        <5>6. c.until - c.from + 1 <= Cap(c.ext.policy.level) * 86400
          BY <5>4, <5>5
        <5>7. c.serial = SerialDecimal(c.bytes) /\ c.serial[1] \in 1 .. 127
          <6>1. /\ SerialDecimal(<<head, r>>)[1] \in 1 .. 127
                /\ CertSerial(<<head, r>>) = SerialDecimal(<<head, r>>)
            BY <5>1, SerialPositive
          <6> QED
            BY <5>3, <6>1, Zenon
        <5> QED
          BY <5>3, <5>6, <5>7 DEF c
      <4>3. Promising(r)'
        BY <2>1, <4>2 DEF Promising
      <4> QED
        BY <2>1, <3>4, <4>1, <4>3
           DEF ProgressInv, Progress, LeafTruthful, IntermediateMatches, LedgerEntryHolds, WithinCap
    <3> QED
      BY <3>3, <3>4
  <2> QED
    BY <1>6, <2>2, <2>3 DEF BuildLeaf, Goto, Refuse
<1>7. ASSUME NEW r \in Requests, PublicKeyArrives(r) PROVE Progress(q)'
  <2>1. UNCHANGED <<env, asks, leaf, issued>> /\ (at' = [at EXCEPT ![Check(r)] = "done"] \/ Throw(Check(r)))
    BY <1>7 DEF PublicKeyArrives, Goto, inputs
  <2>2. CASE at' = [at EXCEPT ![Check(r)] = "done"]
    BY <2>1, <2>2, KeptProgress DEF Control
  <2> QED
    BY <2>1, <2>2, ThrowProgress
<1>8. ASSUME NEW r \in Requests, SignatureArrives(r) PROVE Progress(q)'
  <2>1. UNCHANGED <<env, asks, leaf>> /\ at[Issue(r)] = "kms"
    BY <1>8 DEF SignatureArrives, inputs
  <2>2. CASE Throw(Issue(r)) /\ issued' = issued
    BY <2>1, <2>2, ThrowProgress
  <2> DEFINE given == [leaf |-> FinalizeLeaf(leaf[r]), intermediate |-> env.pem,
                       serialDecimal |-> SerialDecimal(leaf[r].bytes), notAfter |-> leaf[r].until]
  <2>3. CASE issued' = [issued EXCEPT ![r] = given] /\ at' = [at EXCEPT ![Issue(r)] = "done"]
    <3>1. issued'[r] = given /\ \A p \in Requests : p # r => issued'[p] = issued[p]
      BY <2>3, Overwrite DEF Domains
    <3>2. CASE q # r
      BY <2>1, <2>3, <3>1, <3>2, KeptProgress DEF Control
    <3>3. CASE q = r
      <4>1. /\ IntermediateMatches /\ Promising(r) /\ asks[r].csr.spki = asks[r].sePublicKey
        BY <2>1 DEF ProgressInv, Progress
      <4>2. /\ given.leaf.serial = leaf[r].serial /\ given.leaf.from = leaf[r].from
            /\ given.leaf.until = leaf[r].until /\ given.leaf.spki = leaf[r].spki
            /\ given.leaf.ext = leaf[r].ext
            /\ given.serialDecimal = SerialDecimal(leaf[r].bytes)
            /\ given.notAfter = leaf[r].until
        BY <4>1 DEF FinalizeLeaf, Promising
      <4>3. WithinCap(given) /\ LedgerEntryHolds(given) /\ given.leaf.spki = asks[r].sePublicKey
        <5> HIDE DEF given
        <5> QED
          BY <4>1, <4>2 DEF WithinCap, LedgerEntryHolds, Promising
      <4>4. LeafTruthful(r)'
        <5> HIDE DEF given
        <5> QED
          BY <2>1, <3>1, <4>1, <4>3
             DEF LeafTruthful, IntermediateMatches, WithinCap, LedgerEntryHolds
      <4>5. at'[Issue(r)] = "done"
        BY <2>3 DEF Control
      <4> QED
        BY <3>3, <4>4, <4>5 DEF Progress
    <3> QED
      BY <3>2, <3>3
  <2> QED
    BY <1>8, <2>2, <2>3 DEF SignatureArrives, Goto
<1>9. ASSUME NEW f \in Flow, GetAccessToken(f) PROVE Progress(q)'
  <2>1. /\ UNCHANGED <<env, asks, leaf, issued>> /\ at[f] = "token"
        /\ at' = [at EXCEPT ![f] = "kms"] \/ at' = [at EXCEPT ![f] = "exchange"]
    BY <1>9 DEF GetAccessToken, Present, Goto, inputs
  <2> QED
    BY <2>1, MovedOnProgress
<1>10. ASSUME NEW f \in Flow, TokenExchanged(f) PROVE Progress(q)'
  <2>1. /\ UNCHANGED <<env, asks, leaf, issued>> /\ at[f] = "exchange"
        /\ Throw(f) \/ at' = [at EXCEPT ![f] = "kms"]
    BY <1>10 DEF TokenExchanged, Present, Goto, inputs
  <2> QED
    BY <2>1, MovedOnProgress, ThrowProgress
<1> QED
  BY <1>1, <1>2, <1>3, <1>4, <1>5, <1>6, <1>7, <1>8, <1>9, <1>10, StepCases

-----------------------------------------------------------------------------
(* The inductive invariant of issuance holds where a server starts.         *)
LEMMA InitHolds ==
  ASSUME Init
  PROVE  IssuanceInv
<1>1. Control
  BY FlowPairs, IssuanceTimes DEF Init, Control, Steps, Outcomes
<1>2. Domains
  BY DEF Init, Domains
<1>3. CheckInv
  BY FlowPairs, NoneAssumption DEF Init, CheckInv
<1>4. TokenInv
  BY FlowPairs, IssuanceTimes DEF Init, TokenInv, TokenOutlivesItsUse
<1>5. ProgressInv
  BY FlowPairs DEF Init, ProgressInv, Progress
<1> QED
  BY <1>1, <1>2, <1>3, <1>4, <1>5 DEF IssuanceInv

(* Issuance keeps its inductive invariant, for every number of              *)
(* registrations and every set of secrets: types, the shared check, the     *)
(* token, and what a registration has established when it stands at each    *)
(* step (issueLeafChainFromCSR, buildCachedIntermediateCheck).              *)
THEOREM IssuanceInvariant == Spec => []IssuanceInv
<1>1. Init => IssuanceInv
  BY InitHolds
<1>2. IssuanceInv /\ [Next]_vars => IssuanceInv'
  BY ControlStep, DomainsStep, CheckStep, TokenStep, ProgressStep DEF IssuanceInv
<1> QED
  BY <1>1, <1>2, PTL DEF Spec

(* No request is refused on account of a check that had failed before it    *)
(* asked, however many requests share checks (buildCachedIntermediateCheck).*)
THEOREM OutagesAreForgottenHolds == Spec => []OutagesAreForgotten
<1>1. IssuanceInv => OutagesAreForgotten
  BY DEF IssuanceInv, CheckInv, OutagesAreForgotten
<1> QED
  BY <1>1, IssuanceInvariant, PTL

(* Every token has more than a minute left when it goes to KMS, for any     *)
(* lifetime that exceeds an exchange by a minute (getAccessToken).          *)
THEOREM TokenOutlivesItsUseHolds == Spec => []TokenOutlivesItsUse
<1>1. IssuanceInv => TokenOutlivesItsUse
  BY DEF IssuanceInv, TokenInv
<1> QED
  BY <1>1, IssuanceInvariant, PTL

(* A leaf is handed out only when KMS and the intermediate were found to    *)
(* agree; it certifies the attested key within its level's cap, and the     *)
(* ledger is told its own serial and expiry (issueLeafChainFromCSR).        *)
THEOREM LeavesAreTruthful ==
  Spec => [](\A r \in Requests : issued[r] # NoLeaf => LeafTruthful(r))
<1>1. IssuanceInv => \A r \in Requests : issued[r] # NoLeaf => LeafTruthful(r)
  BY DEF IssuanceInv, ProgressInv, Progress
<1> QED
  BY <1>1, IssuanceInvariant, PTL

(* What moves a request: its leaf and what it was given change only where   *)
(* it builds the one and is handed the other.                               *)
LEMMA RequestStep ==
  ASSUME Control, Domains, [Next]_vars, NEW q \in Requests
  PROVE  /\ UNCHANGED env
         /\ \/ BuildLeaf(q) \/ SignatureArrives(q)
            \/ /\ leaf'[q] = leaf[q] /\ issued'[q] = issued[q]
               /\ at'[Issue(q)] \in {"token", "exchange", "kms"} =>
                    at[Issue(q)] \in {"token", "exchange", "kms"}
         /\ at'[Issue(q)] \notin {"csr", "load", "done"} =>
              at[Issue(q)] \notin {"csr", "load", "done"} \/ env.resource # Unset
<1> DEFINE in == {"token", "exchange", "kms"}
           same == /\ leaf'[q] = leaf[q] /\ issued'[q] = issued[q]
                   /\ at'[Issue(q)] \in in => at[Issue(q)] \in in
           run == at'[Issue(q)] \notin {"csr", "load", "done"} =>
                    at[Issue(q)] \notin {"csr", "load", "done"} \/ env.resource # Unset
<1> USE FlowPairs
<1>1. CASE UNCHANGED vars
  BY <1>1 DEF vars
<1>2. CASE TimePasses
  BY <1>2 DEF TimePasses, inputs
<1>3. ASSUME NEW f \in Flow, NEW step, at' = [at EXCEPT ![f] = step], UNCHANGED <<env, leaf, issued>>,
             f # Issue(q) \/ step \notin in \/ at[f] \in in,
             f # Issue(q) \/ step \in {"csr", "load", "done"} \/ at[f] \notin {"csr", "load", "done"}
      PROVE  UNCHANGED env /\ same /\ run
  BY <1>3 DEF Control
<1>4. ASSUME NEW f \in Flow, Throw(f), UNCHANGED <<env, leaf, issued>>
      PROVE  UNCHANGED env /\ same /\ run
  <2>1. PICK g \in Flow : at' = [at EXCEPT ![g] = "done"]
    BY <1>4 DEF Throw, RejectCheck, Refuse, Goto
  <2> QED
    BY <1>3, <1>4, <2>1
<1>5. ASSUME NEW r \in Requests, CheckCsr(r) PROVE UNCHANGED env /\ same /\ run
  <2>1. /\ UNCHANGED <<env, leaf, issued>> /\ at[Issue(r)] = "csr"
        /\ at' = [at EXCEPT ![Issue(r)] = "done"] \/ at' = [at EXCEPT ![Issue(r)] = "load"]
    BY <1>5 DEF CheckCsr, Goto, Refuse, inputs
  <2> QED
    BY <1>3, <2>1
<1>6. ASSUME NEW r \in Requests, LoadKmsCredentials(r) PROVE UNCHANGED env /\ same /\ run
  <2>1. UNCHANGED <<env, leaf, issued>>
    BY <1>6 DEF LoadKmsCredentials, inputs
  <2>2. \/ at' = [at EXCEPT ![Issue(r)] = "done"]
        \/ /\ env.resource # Unset
           /\ \/ at' = [at EXCEPT ![Issue(r)] = "wait"]
              \/ at' = [at EXCEPT ![Check(r)] = "token", ![Issue(r)] = "wait"]
    BY <1>6 DEF LoadKmsCredentials, CredentialsLoad, EnsureIntermediateMatchesKms, Goto, Refuse
  <2>3. /\ at'[Issue(q)] = at[Issue(q)] \/ at'[Issue(q)] = "done"
           \/ (env.resource # Unset /\ at'[Issue(q)] = "wait")
    BY <2>2 DEF Control
  <2> QED
    BY <2>1, <2>3
<1>7. ASSUME NEW r \in Requests, AwaitCheck(r) PROVE UNCHANGED env /\ same /\ run
  <2>1. /\ UNCHANGED <<env, leaf, issued>> /\ at[Issue(r)] = "wait"
        /\ at' = [at EXCEPT ![Issue(r)] = "done"] \/ at' = [at EXCEPT ![Issue(r)] = "build"]
    BY <1>7 DEF AwaitCheck, Goto, Refuse, inputs
  <2> QED
    BY <1>3, <2>1
<1>8. ASSUME NEW r \in Requests, BuildLeaf(r)
      PROVE  UNCHANGED env /\ (BuildLeaf(q) \/ same) /\ run
  <2>1. /\ UNCHANGED <<env, issued>> /\ at[Issue(r)] = "build"
        /\ at' = [at EXCEPT ![Issue(r)] = "done"] \/ at' = [at EXCEPT ![Issue(r)] = "token"]
    BY <1>8 DEF BuildLeaf, Goto, Refuse, inputs
  <2>2. r # q => leaf'[q] = leaf[q]
    BY <1>8 DEF BuildLeaf, Domains
  <2>3. at'[Issue(q)] = at[Issue(q)] \/ r = q
    BY <2>1 DEF Control
  <2>4. r = q => at[Issue(q)] = "build"
    BY <2>1
  <2> QED
    BY <1>8, <2>1, <2>2, <2>3, <2>4
<1>9. ASSUME NEW r \in Requests, PublicKeyArrives(r) PROVE UNCHANGED env /\ same /\ run
  <2>1. UNCHANGED <<env, leaf, issued>> /\ (at' = [at EXCEPT ![Check(r)] = "done"] \/ Throw(Check(r)))
    BY <1>9 DEF PublicKeyArrives, Goto, inputs
  <2> QED
    BY <1>3, <1>4, <2>1
<1>10. ASSUME NEW r \in Requests, SignatureArrives(r)
       PROVE  UNCHANGED env /\ (SignatureArrives(q) \/ same) /\ run
  <2>1. /\ UNCHANGED <<env, leaf>>
        /\ at' = [at EXCEPT ![Issue(r)] = "done"] \/ (Throw(Issue(r)) /\ UNCHANGED issued)
    BY <1>10 DEF SignatureArrives, Goto, inputs
  <2>2. r # q => issued'[q] = issued[q]
    BY <1>10 DEF SignatureArrives, Domains
  <2>3. CASE Throw(Issue(r)) /\ UNCHANGED issued
    BY <1>4, <2>1, <2>3
  <2>4. CASE at' = [at EXCEPT ![Issue(r)] = "done"]
    BY <1>10, <2>1, <2>2, <2>4 DEF Control
  <2> QED
    BY <2>1, <2>3, <2>4
<1>11. ASSUME NEW f \in Flow, GetAccessToken(f) PROVE UNCHANGED env /\ same /\ run
  <2>1. /\ UNCHANGED <<env, leaf, issued>> /\ at[f] = "token"
        /\ at' = [at EXCEPT ![f] = "kms"] \/ at' = [at EXCEPT ![f] = "exchange"]
    BY <1>11 DEF GetAccessToken, Present, Goto, inputs
  <2> QED
    BY <1>3, <2>1
<1>12. ASSUME NEW f \in Flow, TokenExchanged(f) PROVE UNCHANGED env /\ same /\ run
  <2>1. /\ UNCHANGED <<env, leaf, issued>> /\ at[f] = "exchange"
        /\ Throw(f) \/ at' = [at EXCEPT ![f] = "kms"]
    BY <1>12 DEF TokenExchanged, Present, Goto, inputs
  <2> QED
    BY <1>3, <1>4, <2>1
<1> HIDE DEF same, run
<1>13. UNCHANGED env /\ (BuildLeaf(q) \/ SignatureArrives(q) \/ same) /\ run
  <2>1. CASE UNCHANGED vars
    BY <2>1 DEF vars, same, run
  <2>2. CASE TimePasses
    BY <2>2 DEF TimePasses, inputs, same, run
  <2> QED
    BY <1>5, <1>6, <1>7, <1>8, <1>9, <1>10, <1>11, <1>12, <2>1, <2>2, StepCases
<1> QED
  BY <1>13 DEF same, run

(* The leaf as it is built.                                                 *)
LEMMA BuiltIsFitting ==
  ASSUME Control, NEW r \in Requests, NEW head \in Heads
  PROVE  Fitting(BuildLeafCertificate(r, <<head, r>>))
<1> DEFINE c == BuildLeafCertificate(r, <<head, r>>)
           level == assuranceLevelFor(asks[r].platform)
           days == leafValidityDays(level)
<1>1. /\ c.issuer = env.pem.subject /\ c.ca = FALSE /\ c.ext.keys.aki = env.pem.ski
      /\ {"issuer", "ca", "from", "until", "ext", "signature"} \subseteq DOMAIN c
  BY DEF BuildLeafCertificate, KeyUsages, KeyIdentifiers, ReadSubjectKeyIdentifier
<1>2. c.from = NotBefore /\ c.until = NotAfter(days)
  BY DEF BuildLeafCertificate, LeafProfile
<1>3. days = 90 \/ days = 180
  BY DEF leafValidityDays
<1>4. now \in Nat
  BY DEF Control
<1>5. NotBefore \in Int /\ NotAfter(days) \in Int /\ NotBefore + 300 <= NotAfter(days)
  <2> HIDE DEF days
  <2> QED
    BY <1>3, <1>4 DEF NotBefore, NotAfter, Day
<1> HIDE DEF c, days
<1>6. Fitting(c)
  BY <1>1, <1>2, <1>5 DEF Fitting
<1> QED
  BY <1>6 DEF c

(* Three different things are three.                                        *)
LEMMA ThreeOfThem ==
  ASSUME NEW a, NEW b, NEW c, a # b, a # c, b # c
  PROVE  IsFiniteSet({a, b} \cup {c}) /\ Cardinality({a, b} \cup {c}) = 3
<1>1. IsFiniteSet({a}) /\ Cardinality({a}) = 1
  BY FS_Singleton
<1>2. b \notin {a} /\ {a} \cup {b} = {a, b}
  OBVIOUS
<1>3. IsFiniteSet({a, b}) /\ Cardinality({a, b}) = 1 + 1
  <2>1. IsFiniteSet({a} \cup {b}) /\ Cardinality({a} \cup {b}) = Cardinality({a}) + 1
    BY <1>1, <1>2, FS_AddElement, Zenon
  <2> QED
    BY <1>1, <1>2, <2>1
<1>4. c \notin {a, b}
  OBVIOUS
<1>5. /\ IsFiniteSet({a, b} \cup {c})
      /\ Cardinality({a, b} \cup {c}) = Cardinality({a, b}) + 1
  BY <1>3, <1>4, FS_AddElement, Zenon
<1> QED
  BY <1>3, <1>5

(* The way up from a leaf, through the intermediate, to the root.           *)
LEMMA LeafChains ==
  ASSUME Certified(env), IntermediateMatches, env.resource # Unset, NEW c, Fitting(c),
         NEW t \in Int, c.from <= t, t <= c.until,
         \A ca \in {env.pem, env.root} : ca.from <= t /\ t <= ca.until
  PROVE  TRUE \in VerifyChainToRealReelRoot(<<FinalizeLeaf(c), env.pem>>, env.root, t)
<1> DEFINE l == FinalizeLeaf(c)
           p == env.pem
           top == env.root
           chain == <<l, p>>
           certs == {l, p}
           w == <<l, p, top>>
<1>1. /\ l.issuer = p.subject /\ l.ca = FALSE /\ l.from = c.from /\ l.until = c.until
      /\ l.signature = KmsSignature
  BY DEF FinalizeLeaf, Fitting
<1>2. /\ IsCert(p) /\ p.ca = TRUE /\ p.issuer # p.subject /\ IssuedBy("edge", p, top)
      /\ IsCert(top) /\ top.ca = TRUE
      /\ p.spki.algorithm = "ec" /\ p.spki.curve = "P384" /\ p.spki.oidParams /\ p.spki.uncompressed
      /\ p.spki = env.resource.spki
  BY DEF Certified, IntermediateMatches, SelfSigned, IsCert
<1>3. VerifyWithPublicKey("edge", p.spki, KmsSignature)
  <2>1. /\ KmsSignature.by = p.spki.key /\ KmsSignature.declared = "ecdsa"
        /\ KmsSignature.hash = "SHA-384" /\ KmsSignature.shape = "der"
    BY <1>2 DEF KmsSignature
  <2>2. NaturalHash["P384"] = "SHA-384" /\ "P384" \in DOMAIN NaturalHash
    BY DEF NaturalHash
  <2>3. ~FallbackApplies(p.spki, KmsSignature)
    BY <1>2, <2>1, <2>2 DEF FallbackApplies
  <2>4. WebCryptoVerifies("edge", p.spki, KmsSignature)
    BY <1>2, <2>1, <2>2 DEF WebCryptoVerifies, FallbackHashes, Readable
  <2> QED
    BY <1>2, <2>3, <2>4 DEF VerifyWithPublicKey
<1>4. IssuedBy("edge", l, p)
  BY <1>1, <1>3 DEF IssuedBy
<1>5. l # p /\ l # top /\ p # top
  <2>1. p.issuer = top.subject
    BY <1>2 DEF IssuedBy
  <2> QED
    BY <1>1, <1>2, <2>1
<1> HIDE DEF l, p, top
<1>6. Presented(chain) = chain
  <2>1. Len(chain) = 2 /\ Last(chain) = p
    BY DEF Last
  <2> QED
    BY <1>2, <2>1 DEF Presented, SelfSigned
<1>7. Head(chain) = l /\ Range(chain) = certs
  <2>1. DOMAIN chain = {1, 2} /\ chain[1] = l /\ chain[2] = p
    OBVIOUS
  <2> QED
    BY <2>1 DEF Range
<1>8. IsFiniteSet(certs \cup {top}) /\ Cardinality(certs \cup {top}) = 3
  BY <1>5, ThreeOfThem
<1>9. Climbs("edge", l, certs, {top}, w) /\ Len(w) = 3 /\ Last(w) = top
  <2>1. /\ w \in Seq(certs \cup {top} \cup {l}) /\ Len(w) = 3 /\ Last(w) = top
        /\ w[1] = l /\ w[2] = p /\ w[3] = top
    BY DEF Last
  <2> HIDE DEF w
  <2>2. ASSUME NEW i \in 2..3
        PROVE  /\ w[i] \in certs \cup {top} /\ w[i - 1] \notin {top}
               /\ IssuedBy("edge", w[i - 1], w[i])
               /\ \A j \in 1..(i - 1) : w[j] # w[i]
    <3>1. CASE i = 2
      <4>1. i - 1 = 1 /\ \A j \in 1..(i - 1) : j = 1
        BY <3>1
      <4> QED
        BY <1>4, <1>5, <2>1, <3>1, <4>1
    <3>2. CASE i = 3
      <4>1. i - 1 = 2 /\ \A j \in 1..(i - 1) : j = 1 \/ j = 2
        BY <3>2
      <4> QED
        BY <1>2, <1>5, <2>1, <3>2, <4>1
    <3> QED
      BY <3>1, <3>2
  <2> QED
    BY <2>1, <2>2 DEF Climbs
<1>10. w \in WaysUp("edge", l, certs, {top})
  <2>1. Len(w) <= Cardinality(certs \cup {top}) /\ Last(w) \in {top}
    BY <1>8, <1>9
  <2> HIDE DEF certs, w
  <2> QED
    BY <1>8, <1>9, <2>1, WaysUpAreClimbs
<1>11. GoodWay(w, t) = TRUE
  <2>1. DOMAIN w = {1, 2, 3} /\ w[1] = l /\ w[2] = p /\ w[3] = top
    OBVIOUS
  <2>2. /\ l.from <= t /\ t <= l.until /\ p.from <= t /\ t <= p.until
        /\ top.from <= t /\ t <= top.until
    BY <1>1 DEF p, top
  <2> HIDE DEF w
  <2> QED
    BY <1>2, <2>1, <2>2 DEF GoodWay
<1>12. TRUE \in EngineAnswers("edge", l, certs, {top}, t)
  BY <1>10, <1>11 DEF EngineAnswers
<1>13. TRUE \in VerifyChainToRealReelRoot(chain, top, t)
  BY <1>6, <1>7, <1>12 DEF VerifyChainToRealReelRoot, VerifyChainToTrustedRoots
<1> QED
  BY <1>13 DEF l, p, top

(* No step breaks what is known of the chains.                              *)
LEMMA ChainStep ==
  ASSUME IssuanceInv, ChainInv, [Next]_vars
  PROVE  ChainInv'
<1> USE FlowPairs
<1>1. Control /\ Domains /\ ProgressInv
  BY DEF IssuanceInv
<1>2. UNCHANGED env
  BY DEF Next, vars, TimePasses, Local, Answered, inputs, GetAccessToken, CheckCsr, LoadKmsCredentials,
         AwaitCheck, BuildLeaf, TokenExchanged, PublicKeyArrives, SignatureArrives
<1>3. Certified(env)'
  BY <1>2 DEF ChainInv, Certified
<1>4. ASSUME NEW q \in Requests
      PROVE  /\ at'[Issue(q)] \notin {"csr", "load", "done"} => env'.resource # Unset
             /\ at'[Issue(q)] \in {"token", "exchange", "kms"} => Fitting(leaf[q])'
             /\ issued'[q] # NoLeaf => ChainsToRoot(issued[q], env.root)'
  <2>1. at'[Issue(q)] \notin {"csr", "load", "done"} => env'.resource # Unset
    BY <1>1, <1>2, RequestStep DEF ChainInv
  <2>2. CASE /\ leaf'[q] = leaf[q] /\ issued'[q] = issued[q]
             /\ at'[Issue(q)] \in {"token", "exchange", "kms"} =>
                  at[Issue(q)] \in {"token", "exchange", "kms"}
    <3>1. at'[Issue(q)] \in {"token", "exchange", "kms"} => Fitting(leaf[q])'
      BY <1>2, <2>2 DEF ChainInv, Fitting
    <3>2. issued'[q] # NoLeaf => ChainsToRoot(issued[q], env.root)'
      BY <1>2, <2>2 DEF ChainInv
    <3> QED
      BY <2>1, <3>1, <3>2
  <2>3. CASE BuildLeaf(q)
    <3>1. issued'[q] # NoLeaf => ChainsToRoot(issued[q], env.root)'
      BY <1>2, <2>3 DEF ChainInv, BuildLeaf
    <3>2. CASE leaf' = leaf /\ at' = [at EXCEPT ![Issue(q)] = "done"]
      <4>1. at'[Issue(q)] = "done"
        BY <1>1, <3>2 DEF Control
      <4> QED
        BY <2>1, <3>1, <4>1
    <3>3. ASSUME NEW head \in Heads,
                 leaf' = [leaf EXCEPT ![q] = BuildLeafCertificate(q, <<head, q>>)]
          PROVE  Fitting(leaf[q])'
      <4>1. leaf'[q] = BuildLeafCertificate(q, <<head, q>>)
        BY <1>1, <3>3, Overwrite DEF Domains
      <4>2. Fitting(leaf'[q])
        BY <1>1, <4>1, BuiltIsFitting
      <4> QED
        BY <1>2, <4>2 DEF Fitting
    <3> QED
      BY <2>1, <2>3, <3>1, <3>2, <3>3 DEF BuildLeaf, Goto, Refuse
  <2>4. CASE SignatureArrives(q)
    <3>1. UNCHANGED leaf /\ at[Issue(q)] = "kms"
      BY <2>4 DEF SignatureArrives
    <3>2. at'[Issue(q)] = "done"
      BY <1>1, <2>4 DEF SignatureArrives, Throw, RejectCheck, Refuse, Goto, Control
    <3>3. CASE issued' = issued
      BY <1>2, <2>1, <3>2, <3>3 DEF ChainInv
    <3> DEFINE given == [leaf |-> FinalizeLeaf(leaf[q]), intermediate |-> env.pem,
                         serialDecimal |-> SerialDecimal(leaf[q].bytes), notAfter |-> leaf[q].until]
    <3>4. CASE issued' = [issued EXCEPT ![q] = given]
      <4>1. issued'[q] = given
        BY <1>1, <3>4, Overwrite DEF Domains
      <4>2. /\ IntermediateMatches /\ Fitting(leaf[q]) /\ env.resource # Unset /\ Certified(env)
        BY <1>1, <3>1 DEF ProgressInv, Progress, ChainInv
      <4>3. /\ given.leaf = FinalizeLeaf(leaf[q]) /\ given.intermediate = env.pem
            /\ given.leaf.from = leaf[q].from /\ given.leaf.until = leaf[q].until
            /\ given.leaf.ext = leaf[q].ext
        BY <4>2 DEF FinalizeLeaf, Fitting
      <4> HIDE DEF given
      <4>4. leaf[q].from \in Int /\ leaf[q].until \in Int /\ leaf[q].from + 300 <= leaf[q].until
            /\ leaf[q].ext.keys.aki = env.pem.ski
        BY <4>2 DEF Fitting
      <4>5. ASSUME NEW t \in {leaf[q].from, leaf[q].from + 300, leaf[q].until},
                   \A ca \in {env.pem, env.root} : ca.from <= t /\ t <= ca.until
            PROVE  TRUE \in VerifyChainToRealReelRoot(<<FinalizeLeaf(leaf[q]), env.pem>>, env.root, t)
        <5>1. t \in Int /\ leaf[q].from <= t /\ t <= leaf[q].until
          BY <4>4
        <5> QED
          BY <4>2, <4>5, <5>1, LeafChains
      <4>6. ASSUME NEW t \in {given.leaf.from, given.leaf.from + 300, given.leaf.until},
                   \A ca \in {given.intermediate, env.root} : ca.from <= t /\ t <= ca.until
            PROVE  TRUE \in VerifyChainToRealReelRoot(<<given.leaf, given.intermediate>>, env.root, t)
        <5>1. t \in {leaf[q].from, leaf[q].from + 300, leaf[q].until}
          BY <4>3, <4>6
        <5>2. \A ca \in {env.pem, env.root} : ca.from <= t /\ t <= ca.until
          BY <4>3, <4>6
        <5> QED
          BY <4>3, <4>5, <5>1, <5>2
      <4>7. given.leaf.ext.keys.aki = given.intermediate.ski
        BY <4>3, <4>4
      <4>8. ChainsToRoot(given, env.root)
        BY <4>6, <4>7 DEF ChainsToRoot
      <4>9. ChainsToRoot(issued[q], env.root)'
        BY <1>2, <4>1, <4>8
      <4> QED
        BY <2>1, <3>2, <4>9
    <3> QED
      BY <2>4, <3>3, <3>4 DEF SignatureArrives
  <2> QED
    BY <1>1, <2>2, <2>3, <2>4, RequestStep
<1> QED
  BY <1>3, <1>4 DEF ChainInv

(* For any number of registrations and any secrets: a leaf that is handed   *)
(* out chains to the root through the intermediate handed out with it, and  *)
(* is what it was asked to be (issueLeafChainFromCSR).                      *)
THEOREM EveryLeafStandsHolds == Spec => []EveryLeafStands
<1>1. Init => ChainInv
  <2> SUFFICES ASSUME Init PROVE ChainInv
    OBVIOUS
  <2>1. Certified(env)
    BY HierarchyAssumption DEF Init
  <2> QED
    BY <2>1, FlowPairs DEF Init, ChainInv
<1>2. IssuanceInv /\ ChainInv /\ [Next]_vars => ChainInv'
  BY ChainStep
<1>3. IssuanceInv /\ ChainInv => EveryLeafStands
  BY DEF IssuanceInv, ProgressInv, Progress, LeafTruthful, ChainInv, EveryLeafStands
<1> QED
  BY <1>1, <1>2, <1>3, IssuanceInvariant, PTL DEF Spec
=============================================================================
