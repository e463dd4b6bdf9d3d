--------------------------- MODULE BackoffProofs ---------------------------
(***************************************************************************)
(* The bounds, the schedule and the pace of a reconnect, for all validated *)
(* policies, all draws of the jitter and all dials: with a finite          *)
(* max_attempts it returns within the time its policy adds up to, its      *)
(* backoffs are the powers of two of initial_backoff up to max_backoff,    *)
(* and it sleeps at least half of their sum and at most all of it.         *)
(***************************************************************************)
EXTENDS Backoff, FiniteSetTheorems, WellFoundedInduction, TLAPS

USE MaxDurationAssumption, PoliciesAssumption, MaxDialsAssumption

(* The loop's backoff stays between the bounds validate compares. *)
WithinPolicy ==
    phase \in {"dial", "sleep"} =>
       policy.initial_backoff <= backoff /\ backoff <= policy.max_backoff

(* What StuckReturns leaves out: the dials and sleeps that are still to come. *)
Budget ==
    policy.max_attempts # NoLimit =>
       /\ phase = "dial" =>
             /\ attempts < Dials
             /\ now <= attempts * policy.connect_timeout + attempts * policy.max_backoff
       /\ phase = "sleep" =>
             /\ attempts \in 1..(Dials - 1)
             /\ now <= attempts * policy.connect_timeout + (attempts - 1) * policy.max_backoff

Unspent == phase = "new" => now = 0 /\ attempts = 0

Inv == BackoffTypeOK /\ Unspent /\ WithinPolicy /\ Budget /\ StuckReturns

-----------------------------------------------------------------------------
(* Arithmetic *)

LEMMA OneMore == ASSUME NEW n \in Nat, NEW a \in Nat PROVE (n + 1) * a = n * a + a
  BY SMT

LEMMA Monotone == ASSUME NEW m \in Nat, NEW n \in Nat, NEW a \in Nat, m <= n
                  PROVE  m * a <= n * a /\ m * a \in Nat /\ n * a \in Nat
<1> DEFINE k == n - m
<1>1. k \in Nat
  BY SMT
<1>2. n * a = m * a + k * a
  BY SMT
<1>3. k * a \in Nat /\ m * a \in Nat /\ n * a \in Nat
  BY <1>1, SMT
<1> QED
  BY <1>2, <1>3, SMT

(* next_backoff moves within the bounds, and never down before the cap. *)
LEMMA NextWithin ==
    ASSUME NEW b \in Durations, NEW max \in Durations, b <= max
    PROVE  next_backoff(b, max) \in Durations /\ b <= next_backoff(b, max)
             /\ next_backoff(b, max) <= max
  BY DEF next_backoff, saturating_mul, Least, Durations

(* A jittered sleep is at least half of the backoff and at most all of it. *)
LEMMA JitterWithin ==
    ASSUME NEW b \in Nat, NEW s \in jittered(b)
    PROVE  s \in Nat /\ s <= b
<1> DEFINE half == b \div 2
<1>1. half \in Nat /\ half + half <= b
  BY SMT
<1>2. PICK part \in 0..half : s = half + part
  BY DEF jittered
<1> HIDE DEF half
<1> QED
  BY <1>1, <1>2, SMT

LEMMA PolicyType ==
    ASSUME policy \in Policies
    PROVE  /\ policy.connect_timeout \in Durations /\ policy.initial_backoff \in Durations
           /\ policy.max_backoff \in Durations
           /\ policy.connect_timeout \in Nat /\ policy.max_backoff \in Nat
           /\ policy.max_attempts \in Nat \union {NoLimit}
           /\ policy.max_attempts # NoLimit => Dials \in Nat \ {0}
  BY DEF ReconnectPolicy, Durations, Dials

-----------------------------------------------------------------------------
(* The invariant *)

LEMMA InitInv == Init => Inv
  BY DEF Init, Inv, BackoffTypeOK, Unspent, WithinPolicy, Budget, StuckReturns, Durations

LEMMA BeginStep == ASSUME Inv, BeginReconnect PROVE Inv'
<1> USE DEF Inv, BeginReconnect
<1>1. policy' = policy /\ Dials' = Dials
  BY DEF Dials
<1>2. BackoffTypeOK' /\ Unspent'
  BY PolicyType DEF BackoffTypeOK, Unspent
<1>3. WithinPolicy'
  BY PolicyType DEF BackoffTypeOK, WithinPolicy, validate, Durations
<1>4. now' = 0 /\ attempts' = 0
  BY DEF Unspent
<1>5. 0 * policy.connect_timeout = 0 /\ 0 * policy.max_backoff = 0
  BY PolicyType DEF BackoffTypeOK
<1>6. Budget'
  BY <1>1, <1>4, <1>5, PolicyType DEF Budget, BackoffTypeOK
<1>7. ASSUME policy.max_attempts # NoLimit
      PROVE  0 <= Dials * policy.connect_timeout + (Dials - 1) * policy.max_backoff
  <2>1. Dials \in Nat /\ Dials - 1 \in Nat
    BY <1>7, PolicyType DEF BackoffTypeOK
  <2>2. Dials * policy.connect_timeout \in Nat /\ (Dials - 1) * policy.max_backoff \in Nat
    BY <2>1, Monotone, PolicyType DEF BackoffTypeOK
  <2> QED
    BY <2>2
<1>8. StuckReturns'
  BY <1>1, <1>4, <1>7 DEF StuckReturns
<1> QED
  BY <1>2, <1>3, <1>6, <1>8

(* What a dial costs at most, counted in the budget of one that starts. *)
LEMMA DialCost ==
    ASSUME Inv, phase = "dial", policy.max_attempts # NoLimit,
           NEW d \in 0..policy.connect_timeout
    PROVE  /\ now + d <= (attempts + 1) * policy.connect_timeout
                           + attempts * policy.max_backoff
           /\ now + d <= Dials * policy.connect_timeout + (Dials - 1) * policy.max_backoff
<1> DEFINE ct == policy.connect_timeout
           mb == policy.max_backoff
           D == Dials
<1>1. ct \in Nat /\ mb \in Nat /\ D \in Nat \ {0} /\ attempts \in Nat /\ now \in Nat
  BY PolicyType DEF Inv, BackoffTypeOK
<1>2. attempts < D /\ now <= attempts * ct + attempts * mb /\ d \in 0..ct
  BY DEF Inv, Budget
<1> HIDE DEF ct, mb, D
<1>3. (attempts + 1) * ct = attempts * ct + ct
  BY <1>1, OneMore
<1>4. (attempts + 1) * ct <= D * ct /\ D * ct \in Nat /\ (attempts + 1) * ct \in Nat
  <2>1. attempts + 1 \in Nat /\ attempts + 1 <= D
    BY <1>1, <1>2
  <2> QED
    BY <2>1, <1>1, Monotone
<1>5. attempts * mb <= (D - 1) * mb /\ (D - 1) * mb \in Nat /\ attempts * mb \in Nat
  <2>1. D - 1 \in Nat /\ attempts <= D - 1
    BY <1>1, <1>2
  <2> QED
    BY <2>1, <1>1, Monotone
<1>6. attempts * ct \in Nat
  BY <1>1, Monotone
<1>7. now + d <= (attempts + 1) * ct + attempts * mb
  BY <1>1, <1>2, <1>3, <1>5, <1>6
<1>8. now + d <= D * ct + (D - 1) * mb
  BY <1>1, <1>2, <1>4, <1>5, <1>7
<1> QED
  BY <1>7, <1>8 DEF ct, mb, D

LEMMA DialEndsStep ==
    ASSUME Inv, NEW d \in 0..policy.connect_timeout, DialEnds(d) PROVE Inv'
<1> USE DEF Inv, DialEnds
<1>1. policy' = policy /\ Dials' = Dials /\ d \in Nat
  BY PolicyType DEF Dials, BackoffTypeOK
<1>2. BackoffTypeOK'
  BY <1>1 DEF BackoffTypeOK
<1>3. Unspent' /\ WithinPolicy' /\ Budget'
  BY DEF Unspent, WithinPolicy, Budget
<1>4. StuckReturns'
  BY <1>1, DialCost DEF StuckReturns
<1> QED
  BY <1>2, <1>3, <1>4

LEMMA DialFailsStep ==
    ASSUME Inv, NEW d \in 0..policy.connect_timeout, DialFails(d) PROVE Inv'
<1> USE DEF Inv, DialFails
<1>1. policy' = policy /\ Dials' = Dials /\ d \in Nat
  BY PolicyType DEF Dials, BackoffTypeOK
<1>2. BackoffTypeOK'
  BY <1>1 DEF BackoffTypeOK
<1>3. Unspent' /\ WithinPolicy'
  BY DEF Unspent, WithinPolicy
<1>4. StuckReturns'
  BY <1>1, DialCost DEF StuckReturns
<1>5. ASSUME policy.max_attempts # NoLimit, phase' = "sleep"
      PROVE  attempts' \in 1..(Dials - 1)
  <2>1. attempts + 1 < policy.max_attempts
    BY <1>5, PolicyType DEF Exhausted, BackoffTypeOK
  <2>2. Dials = policy.max_attempts
    BY <2>1, <1>5, PolicyType DEF Dials, BackoffTypeOK
  <2> QED
    BY <2>1, <2>2, <1>5, PolicyType DEF BackoffTypeOK
<1>6. Budget'
  <2>1. policy.max_attempts # NoLimit =>
          now' <= attempts' * policy.connect_timeout + (attempts' - 1) * policy.max_backoff
    <3>1. attempts' = attempts + 1 /\ attempts' - 1 = attempts
      BY DEF BackoffTypeOK
    <3> QED
      BY <3>1, DialCost
  <2>2. phase' # "dial"
    OBVIOUS
  <2> QED
    BY <1>1, <1>5, <2>1, <2>2 DEF Budget
<1> QED
  BY <1>2, <1>3, <1>4, <1>6

LEMMA SleepStep ==
    ASSUME Inv, NEW s \in jittered(backoff), Sleep(s) PROVE Inv'
<1> USE DEF Inv, Sleep
<1>1. policy' = policy /\ Dials' = Dials
  BY DEF Dials
<1>2. s \in Nat /\ s <= backoff /\ backoff <= policy.max_backoff
  BY JitterWithin DEF BackoffTypeOK, Durations, WithinPolicy
<1>3. /\ backoff' \in Durations /\ policy.initial_backoff <= backoff'
      /\ backoff' <= policy.max_backoff
  <2>1. backoff \in Durations /\ policy.max_backoff \in Durations
    BY PolicyType DEF BackoffTypeOK
  <2>2. /\ backoff' \in Durations /\ backoff <= backoff'
        /\ backoff' <= policy.max_backoff
    BY <2>1, <1>2, NextWithin
  <2> QED
    BY <2>1, <2>2, PolicyType DEF WithinPolicy, Durations, BackoffTypeOK
<1>4. BackoffTypeOK'
  BY <1>2, <1>3 DEF BackoffTypeOK
<1>5. Unspent' /\ WithinPolicy'
  BY <1>1, <1>3 DEF Unspent, WithinPolicy
<1>6. ASSUME policy.max_attempts # NoLimit
      PROVE  /\ attempts < Dials
             /\ now' <= attempts * policy.connect_timeout + attempts * policy.max_backoff
             /\ now' <= Dials * policy.connect_timeout + (Dials - 1) * policy.max_backoff
  <2> DEFINE ct == policy.connect_timeout
             mb == policy.max_backoff
             D == Dials
  <2>1. ct \in Nat /\ mb \in Nat /\ D \in Nat \ {0} /\ now \in Nat
    BY <1>6, PolicyType DEF BackoffTypeOK
  <2>2. /\ attempts \in 1..(D - 1) /\ now <= attempts * ct + (attempts - 1) * mb
        /\ now' = now + s /\ s <= mb
    BY <1>2, <1>6, PolicyType DEF Budget, BackoffTypeOK, Durations
  <2> HIDE DEF ct, mb, D
  <2>3. attempts * mb = (attempts - 1) * mb + mb
    <3>1. attempts - 1 \in Nat /\ (attempts - 1) + 1 = attempts
      BY <2>1, <2>2
    <3> QED
      BY <3>1, <2>1, OneMore
  <2>4. attempts * ct <= D * ct /\ attempts * ct \in Nat /\ D * ct \in Nat
    <3>1. attempts \in Nat /\ attempts <= D
      BY <2>1, <2>2
    <3> QED
      BY <3>1, <2>1, Monotone
  <2>5. attempts * mb <= (D - 1) * mb /\ attempts * mb \in Nat /\ (D - 1) * mb \in Nat
    <3>1. attempts \in Nat /\ D - 1 \in Nat /\ attempts <= D - 1
      BY <2>1, <2>2
    <3> QED
      BY <3>1, <2>1, Monotone
  <2>6. (attempts - 1) * mb \in Nat
    <3>1. attempts - 1 \in Nat
      BY <2>1, <2>2
    <3> QED
      BY <3>1, <2>1, Monotone
  <2>7. attempts < D /\ now' <= attempts * ct + attempts * mb
    BY <1>2, <2>1, <2>2, <2>3, <2>4, <2>6
  <2>8. now' <= D * ct + (D - 1) * mb
    BY <1>2, <2>1, <2>2, <2>4, <2>5, <2>7
  <2> QED
    BY <2>7, <2>8 DEF ct, mb, D
<1>7. Budget'
  BY <1>1, <1>6 DEF Budget
<1>8. StuckReturns'
  BY <1>1, <1>6 DEF StuckReturns
<1> QED
  BY <1>4, <1>5, <1>7, <1>8

LEMMA StutterStep == ASSUME Inv, Reject \/ UNCHANGED vars PROVE Inv'
<1>1. CASE Reject
  BY <1>1 DEF Inv, Reject, BackoffTypeOK, Unspent, WithinPolicy, Budget, StuckReturns, Dials
<1>2. CASE UNCHANGED vars
  BY <1>2 DEF Inv, vars, BackoffTypeOK, Unspent, WithinPolicy, Budget, StuckReturns, Dials
<1> QED
  BY <1>1, <1>2

(* The types and the budget of time and dials hold in every reachable state. *)
THEOREM Invariance == Spec => []Inv
<1>1. Inv /\ [Next]_vars => Inv'
  BY BeginStep, DialEndsStep, DialFailsStep, SleepStep, StutterStep DEF Next, Done
<1> QED
  BY InitInv, <1>1, PTL DEF Spec

(* README.md on max_attempts: a stuck reconnect returns within a bounded time, for every
   policy that validate accepts and every width of a Duration. *)
THEOREM BoundedReconnect == Spec => []StuckReturns
<1>1. Inv => StuckReturns
  BY DEF Inv
<1> QED
  BY Invariance, <1>1, PTL

(* next_backoff neither leaves the type nor the policy's bounds. *)
THEOREM BackoffTyping == Spec => []BackoffTypeOK
<1>1. Inv => BackoffTypeOK
  BY DEF Inv
<1> QED
  BY Invariance, <1>1, PTL

-----------------------------------------------------------------------------
(* Doubling *)

(* A set of n + 1 has twice the subsets of one of n: those without the new element and
   those with it. *)
LEMMA PowerDoubles ==
    ASSUME NEW n \in Nat PROVE 2 ^ n \in Nat /\ 2 ^ (n + 1) = 2 * 2 ^ n
<1> DEFINE S == 1..n
           T == 1..(n + 1)
           Without == SUBSET S
           With == {s \union {n + 1} : s \in Without}
<1>1. IsFiniteSet(S) /\ Cardinality(S) = n /\ IsFiniteSet(T) /\ Cardinality(T) = n + 1
  BY FS_Interval
<1>2. /\ IsFiniteSet(Without) /\ Cardinality(Without) = 2 ^ n /\ Cardinality(Without) \in Nat
      /\ Cardinality(SUBSET T) = 2 ^ (n + 1)
  <2> HIDE DEF S, T
  <2> QED
    BY <1>1, FS_SUBSET, FS_CardinalityType
<1>3. \A s \in Without : n + 1 \notin s
  OBVIOUS
<1>4. IsFiniteSet(With) /\ Cardinality(With) = Cardinality(Without)
  <2> DEFINE add == [s \in Without |-> s \union {n + 1}]
  <2>1. \A s, r \in Without : s \union {n + 1} = r \union {n + 1} => s = r
    BY <1>3
  <2> HIDE DEF Without
  <2>2. add \in Injection(Without, With) /\ add \in Surjection(Without, With)
    BY <2>1 DEF Injection, IsInjective, Surjection
  <2>3. ExistsBijection(Without, With)
    BY <2>2 DEF ExistsBijection, Bijection
  <2> QED
    BY <2>3, <1>2, FS_Bijection
<1>5. SUBSET T = Without \union With
  <2>1. ASSUME NEW t \in SUBSET T PROVE t \in Without \union With
    <3>1. t \ {n + 1} \in Without
      <4>1. \A i \in T : i # n + 1 => i \in S
        OBVIOUS
      <4> HIDE DEF S, T
      <4> QED
        BY <4>1
    <3>2. t = t \ {n + 1} \/ t = (t \ {n + 1}) \union {n + 1}
      OBVIOUS
    <3> HIDE DEF Without
    <3> QED
      BY <3>1, <3>2
  <2>2. Without \subseteq SUBSET T /\ With \subseteq SUBSET T
    <3>1. S \subseteq T /\ n + 1 \in T
      OBVIOUS
    <3> HIDE DEF S, T
    <3> QED
      BY <3>1
  <2> QED
    BY <2>1, <2>2
<1>6. Without \cap With = {}
  BY <1>3
<1>7. Cardinality(SUBSET T) = Cardinality(Without) + Cardinality(With) - 0
  <2> HIDE DEF Without, With, T
  <2> QED
    <3>1. Cardinality(Without \union With)
             = Cardinality(Without) + Cardinality(With) - Cardinality(Without \cap With)
      BY <1>2, <1>4, FS_Union
    <3> QED
      BY <1>5, <1>6, <3>1, FS_EmptySet
<1> HIDE DEF Without, With, T
<1> QED
  BY <1>2, <1>4, <1>7

-----------------------------------------------------------------------------
(* Sums *)

LEMMA LeastNatural ==
    ASSUME NEW S \in SUBSET Nat, S # {}
    PROVE  \E x \in S : \A y \in S : x <= y
<1>1. PICK x \in S : \A y \in S : ~ (<<y, x>> \in OpToRel(<, Nat))
  BY NatLessThanWellFounded, WFMin
<1>2. \A y \in S : ~ (y < x)
  BY <1>1 DEF OpToRel
<1> QED
  BY <1>2

(* f holds the sums of the first terms up to the n-th. *)
Sums(f, n, term) ==
    /\ f \in [0..n -> Nat] /\ f[0] = 0
    /\ \A k \in 1..n : f[k] = f[k - 1] + term[k]

LEMMA SumsUpTo ==
    ASSUME NEW term \in [Nat -> Nat]
    PROVE  \A n \in Nat : \E f : Sums(f, n, term)
<1> DEFINE Missing == {n \in Nat : ~ \E f : Sums(f, n, term)}
<1> SUFFICES ASSUME Missing # {} PROVE FALSE
  OBVIOUS
<1>1. PICK n \in Missing : \A m \in Missing : n <= m
  BY LeastNatural
<1>2. n # 0
  <2>1. Sums([k \in 0..0 |-> 0], 0, term)
    BY DEF Sums
  <2> QED
    BY <1>1, <2>1
<1>3. n - 1 \in Nat /\ n - 1 \notin Missing /\ n \in Nat
  BY <1>1, <1>2
<1>4. PICK f : Sums(f, n - 1, term)
  BY <1>3
<1> DEFINE g == [k \in 0..n |-> IF k = n THEN f[n - 1] + term[n] ELSE f[k]]
<1>5. Sums(g, n, term)
  <2>1. \A k \in 0..n : k = n \/ k \in 0..(n - 1)
    BY <1>3
  <2>2. f \in [0..(n - 1) -> Nat] /\ f[0] = 0
    BY <1>4 DEF Sums
  <2>3. n - 1 \in 0..(n - 1) /\ f[n - 1] \in Nat /\ term[n] \in Nat
    <3>1. n - 1 \in 0..(n - 1)
      BY <1>3
    <3>2. f[n - 1] \in Nat
      BY <2>2, <3>1
    <3> QED
      BY <1>3, <3>1, <3>2
  <2>4. g \in [0..n -> Nat] /\ g[0] = 0
    <3>1. ASSUME NEW k \in 0..n
          PROVE  (IF k = n THEN f[n - 1] + term[n] ELSE f[k]) \in Nat
      <4>1. f[n - 1] + term[n] \in Nat
        BY <2>3
      <4>2. k \in 0..(n - 1) => f[k] \in Nat
        BY <2>2
      <4> QED
        BY <2>1, <4>1, <4>2
    <3>2. 0 \in 0..n
      BY <1>3
    <3> QED
      BY <1>2, <2>2, <3>1, <3>2
  <2>5. ASSUME NEW k \in 1..n PROVE g[k] = g[k - 1] + term[k]
    <3>1. k - 1 \in 0..n /\ k - 1 # n /\ k \in 0..n
      BY <1>3
    <3>2. k # n => k \in 1..(n - 1)
      BY <1>3
    <3> QED
      BY <1>4, <3>1, <3>2 DEF Sums
  <2> HIDE DEF g
  <2> QED
    BY <2>4, <2>5 DEF Sums
<1> QED
  BY <1>1, <1>5

LEMMA SumsAgree ==
    ASSUME NEW term \in [Nat -> Nat], NEW n \in Nat, NEW m \in Nat, n <= m,
           NEW f, NEW g, Sums(f, n, term), Sums(g, m, term)
    PROVE  \A k \in 0..n : f[k] = g[k]
<1> DEFINE Wrong == {k \in 0..n : f[k] # g[k]}
<1> SUFFICES ASSUME Wrong # {} PROVE FALSE
  OBVIOUS
<1>1. PICK k \in Wrong : \A j \in Wrong : k <= j
  <2>1. Wrong \in SUBSET Nat
    OBVIOUS
  <2> QED
    BY <2>1, LeastNatural
<1>2. k # 0
  BY <1>1 DEF Sums
<1>3. k \in 1..n /\ k \in 1..m /\ k - 1 \in 0..n /\ k - 1 \notin Wrong
  BY <1>1, <1>2
<1> QED
  BY <1>1, <1>3 DEF Sums

Upto(n, term) == CHOOSE f : Sums(f, n, term)

(* So there is a function of all sums. *)
LEMMA SumExists ==
    ASSUME NEW term \in [Nat -> Nat]
    PROVE  \E f : f = [k \in Nat |-> IF k = 0 THEN 0 ELSE f[k - 1] + term[k]]
<1> DEFINE all == [k \in Nat |-> Upto(k, term)[k]]
<1>1. \A n \in Nat : Sums(Upto(n, term), n, term)
  BY SumsUpTo DEF Upto
<1>2. ASSUME NEW k \in Nat
      PROVE  all[k] = IF k = 0 THEN 0 ELSE all[k - 1] + term[k]
  <2>1. CASE k = 0
    BY <1>1, <2>1 DEF Sums
  <2>2. CASE k # 0
    <3>1. k - 1 \in Nat /\ k - 1 <= k /\ k - 1 \in 0..(k - 1) /\ k \in 1..k
      BY <2>2
    <3>2. Upto(k - 1, term)[k - 1] = Upto(k, term)[k - 1]
      <4>1. Sums(Upto(k - 1, term), k - 1, term) /\ Sums(Upto(k, term), k, term)
        BY <1>1, <3>1
      <4> QED
        BY <3>1, <4>1, SumsAgree
    <3>3. Upto(k, term)[k] = Upto(k, term)[k - 1] + term[k]
      BY <1>1, <3>1 DEF Sums
    <3> QED
      BY <2>2, <3>1, <3>2, <3>3
  <2> QED
    BY <2>1, <2>2
<1>3. all = [k \in Nat |-> IF k = 0 THEN 0 ELSE all[k - 1] + term[k]]
  <2> DEFINE again == [k \in Nat |-> IF k = 0 THEN 0 ELSE all[k - 1] + term[k]]
  <2>1. \A k \in Nat : all[k] = again[k]
    BY <1>2
  <2> QED
    BY <2>1
<1> HIDE DEF all
<1> QED
  BY <1>3

LEMMA SumType ==
    ASSUME NEW term \in [Nat -> Nat], NEW f, f[0] = 0,
           \A k \in Nat \ {0} : f[k] = f[k - 1] + term[k]
    PROVE  \A k \in Nat : f[k] \in Nat
<1> DEFINE Wrong == {k \in Nat : f[k] \notin Nat}
<1> SUFFICES ASSUME Wrong # {} PROVE FALSE
  OBVIOUS
<1>1. PICK k \in Wrong : \A j \in Wrong : k <= j
  <2>1. Wrong \in SUBSET Nat
    OBVIOUS
  <2> QED
    BY <2>1, LeastNatural
<1>2. k \in Nat \ {0} /\ k - 1 \in Nat /\ k - 1 \notin Wrong
  BY <1>1
<1> QED
  BY <1>1, <1>2

-----------------------------------------------------------------------------
(* The schedule and its sums, of a given policy. *)

ScheduleOf(p, k) == Least(p.initial_backoff * 2 ^ (k - 1), p.max_backoff)

Whole(p) ==
    CHOOSE sum : sum = [k \in Nat |-> IF k = 0 THEN 0 ELSE sum[k - 1] + ScheduleOf(p, k)]

Halves(p) ==
    CHOOSE sum : sum = [k \in Nat |-> IF k = 0 THEN 0
                                      ELSE sum[k - 1] + ScheduleOf(p, k) \div 2]

LEMMA PlannedIs ==
    /\ Planned(LAMBDA b : b) = Whole(policy)
    /\ Planned(LAMBDA b : b \div 2) = Halves(policy)
BY DEF Planned, Schedule, Whole, Halves, ScheduleOf

(* Each backoff is the next_backoff of the one before, the cap and the saturation
   included: once beyond the cap, the closed form stays there. *)
LEMMA ScheduleSteps ==
    ASSUME NEW p \in ReconnectPolicy, NEW k \in Nat \ {0}
    PROVE  /\ ScheduleOf(p, k) \in Nat
           /\ next_backoff(ScheduleOf(p, k), p.max_backoff) = ScheduleOf(p, k + 1)
<1> DEFINE x == p.initial_backoff * 2 ^ (k - 1)
           y == p.initial_backoff * 2 ^ k
           top == p.max_backoff
<1>1. /\ p.initial_backoff \in Nat /\ top \in Nat /\ top <= MaxDuration
      /\ MaxDuration \in Nat
  BY DEF ReconnectPolicy, Durations
<1>2. /\ 2 ^ (k - 1) \in Nat /\ 2 ^ k \in Nat /\ 2 ^ k = 2 * 2 ^ (k - 1)
      /\ (k + 1) - 1 = k
  <2>1. k - 1 \in Nat /\ (k - 1) + 1 = k /\ k \in Nat /\ (k + 1) - 1 = k
    OBVIOUS
  <2> QED
    BY <2>1, PowerDoubles
<1>3. x \in Nat /\ y = 2 * x
  <2> DEFINE i == p.initial_backoff
             q == 2 ^ (k - 1)
  <2>1. i \in Nat /\ q \in Nat /\ 2 ^ k = 2 * q
    BY <1>1, <1>2
  <2> HIDE DEF i, q
  <2>2. i * q \in Nat /\ i * (2 * q) = 2 * (i * q)
    BY <2>1
  <2> QED
    BY <2>1, <2>2 DEF i, q
<1>4. ScheduleOf(p, k) = Least(x, top) /\ ScheduleOf(p, k + 1) = Least(y, top)
  BY <1>2 DEF ScheduleOf
<1> HIDE DEF x, y, top
<1>5. Least(Least(Least(x, top) * 2, MaxDuration), top) = Least(y, top)
  BY <1>1, <1>3 DEF Least
<1>6. Least(x, top) \in Nat
  BY <1>1, <1>3 DEF Least
<1> QED
  BY <1>4, <1>5, <1>6 DEF next_backoff, saturating_mul, top

LEMMA WholeSteps ==
    ASSUME NEW p \in ReconnectPolicy
    PROVE  /\ Whole(p)[0] = 0
           /\ \A k \in Nat : Whole(p)[k] \in Nat
           /\ \A k \in Nat \ {0} : Whole(p)[k] = Whole(p)[k - 1] + ScheduleOf(p, k)
<1> DEFINE term == [k \in Nat |-> IF k = 0 THEN 0 ELSE ScheduleOf(p, k)]
           Is(f) == f = [k \in Nat |-> IF k = 0 THEN 0 ELSE f[k - 1] + ScheduleOf(p, k)]
<1>1. term \in [Nat -> Nat]
  BY ScheduleSteps
<1>2. PICK f : f = [k \in Nat |-> IF k = 0 THEN 0 ELSE f[k - 1] + term[k]]
  BY <1>1, SumExists
<1>3. Is(f)
  BY <1>2
<1>4. Is(Whole(p))
  BY <1>3 DEF Whole
<1>5. /\ Whole(p)[0] = 0
      /\ \A k \in Nat \ {0} : Whole(p)[k] = Whole(p)[k - 1] + ScheduleOf(p, k)
  BY <1>4
<1>6. \A k \in Nat \ {0} : Whole(p)[k] = Whole(p)[k - 1] + term[k]
  BY <1>5
<1>7. \A k \in Nat : Whole(p)[k] \in Nat
  <2> HIDE DEF term
  <2> QED
    BY <1>1, <1>5, <1>6, SumType
<1> QED
  BY <1>5, <1>7

LEMMA HalvesSteps ==
    ASSUME NEW p \in ReconnectPolicy
    PROVE  /\ Halves(p)[0] = 0
           /\ \A k \in Nat : Halves(p)[k] \in Nat
           /\ \A k \in Nat \ {0} :
                 Halves(p)[k] = Halves(p)[k - 1] + ScheduleOf(p, k) \div 2
<1> DEFINE term == [k \in Nat |-> IF k = 0 THEN 0 ELSE ScheduleOf(p, k) \div 2]
           Is(f) == f = [k \in Nat |-> IF k = 0 THEN 0
                                       ELSE f[k - 1] + ScheduleOf(p, k) \div 2]
<1>1. term \in [Nat -> Nat]
  BY ScheduleSteps
<1>2. PICK f : f = [k \in Nat |-> IF k = 0 THEN 0 ELSE f[k - 1] + term[k]]
  BY <1>1, SumExists
<1>3. Is(f)
  BY <1>2
<1>4. Is(Halves(p))
  BY <1>3 DEF Halves
<1>5. /\ Halves(p)[0] = 0
      /\ \A k \in Nat \ {0} :
            Halves(p)[k] = Halves(p)[k - 1] + ScheduleOf(p, k) \div 2
  BY <1>4
<1>6. \A k \in Nat \ {0} : Halves(p)[k] = Halves(p)[k - 1] + term[k]
  BY <1>5
<1>7. \A k \in Nat : Halves(p)[k] \in Nat
  <2> HIDE DEF term
  <2> QED
    BY <1>1, <1>5, <1>6, SumType
<1> QED
  BY <1>5, <1>7

-----------------------------------------------------------------------------
(* The pace *)

(* How long a reconnect has slept, before the next dial and before the next sleep. *)
Slept ==
    /\ phase = "new" => slept = 0
    /\ phase = "dial" => slept \in Halves(policy)[attempts]..Whole(policy)[attempts]
    /\ phase = "sleep" =>
          /\ attempts # 0
          /\ slept \in Halves(policy)[attempts - 1]..Whole(policy)[attempts - 1]

(* The backoff of the loop is the schedule's. *)
BackoffIs ==
    /\ phase = "sleep" => backoff = ScheduleOf(policy, attempts)
    /\ phase = "dial" => backoff = ScheduleOf(policy, attempts + 1)

PaceInv == Inv /\ Slept /\ BackoffIs

LEMMA PaceStep == PaceInv /\ [Next]_vars => Slept' /\ BackoffIs'
<1> SUFFICES ASSUME PaceInv, [Next]_vars PROVE Slept' /\ BackoffIs'
  OBVIOUS
<1>1. /\ policy \in ReconnectPolicy /\ attempts \in Nat /\ slept \in Nat
      /\ \A k \in Nat : Whole(policy)[k] \in Nat /\ Halves(policy)[k] \in Nat
  BY WholeSteps, HalvesSteps DEF PaceInv, Inv, BackoffTypeOK
<1>2. CASE BeginReconnect
  <2>1. attempts = 0 /\ slept = 0
    BY <1>2 DEF BeginReconnect, PaceInv, Slept, Inv, Unspent
  <2>2. Whole(policy)[0] = 0 /\ Halves(policy)[0] = 0
    BY <1>1, WholeSteps, HalvesSteps
  <2>3. ScheduleOf(policy, 1) = policy.initial_backoff
    <3>1. 2 ^ (1 - 1) = 1
      OBVIOUS
    <3>2. /\ policy.initial_backoff \in Nat /\ policy.max_backoff \in Nat
          /\ policy.initial_backoff <= policy.max_backoff
      BY <1>1, <1>2 DEF BeginReconnect, validate, ReconnectPolicy, Durations
    <3> QED
      BY <3>1, <3>2 DEF ScheduleOf, Least
  <2> QED
    BY <1>2, <2>1, <2>2, <2>3 DEF BeginReconnect, Slept, BackoffIs
<1>3. ASSUME NEW d \in 0..policy.connect_timeout, DialFails(d)
      PROVE  Slept' /\ BackoffIs'
  <2>1. attempts' = attempts + 1 /\ attempts' - 1 = attempts /\ attempts' # 0
    BY <1>1, <1>3 DEF DialFails
  <2>2. phase' # "dial" /\ phase' # "new" /\ UNCHANGED <<policy, slept, backoff>>
    BY <1>3 DEF DialFails
  <2> QED
    BY <1>3, <2>1, <2>2 DEF DialFails, PaceInv, Slept, BackoffIs
<1>4. ASSUME NEW s \in jittered(backoff), Sleep(s)
      PROVE  Slept' /\ BackoffIs'
  <2> DEFINE b == ScheduleOf(policy, attempts)
             w == Whole(policy)
             h == Halves(policy)
  <2>1. attempts \in Nat \ {0} /\ attempts - 1 \in Nat /\ backoff = b
    BY <1>1, <1>4 DEF Sleep, PaceInv, Slept, BackoffIs
  <2>2. s \in (b \div 2)..b /\ b \in Nat
    <3>1. b \in Nat
      BY <1>1, <2>1, ScheduleSteps
    <3>2. PICK part \in 0..(b \div 2) : s = b \div 2 + part
      BY <2>1 DEF jittered
    <3> HIDE DEF b
    <3>3. b \div 2 \in Nat /\ b \div 2 + b \div 2 <= b
      BY <3>1
    <3> QED
      BY <3>1, <3>2, <3>3
  <2>3. w[attempts] = w[attempts - 1] + b /\ h[attempts] = h[attempts - 1] + b \div 2
    BY <1>1, <2>1, WholeSteps, HalvesSteps
  <2>4. /\ h[attempts - 1] \in Nat /\ w[attempts - 1] \in Nat
        /\ slept \in h[attempts - 1]..w[attempts - 1]
    BY <1>1, <1>4, <2>1 DEF Sleep, PaceInv, Slept
  <2>5. backoff' = ScheduleOf(policy, attempts + 1)
    BY <1>1, <1>4, <2>1, ScheduleSteps DEF Sleep
  <2>6. slept' = slept + s /\ phase' = "dial" /\ UNCHANGED <<policy, attempts>>
    BY <1>4 DEF Sleep
  <2>7. slept + s \in h[attempts]..w[attempts]
    <3> DEFINE low == h[attempts - 1]
               high == w[attempts - 1]
    <3>1. low \in Nat /\ high \in Nat /\ slept \in low..high /\ b \div 2 \in Nat
      BY <2>2, <2>4
    <3>2. slept + s \in (low + b \div 2)..(high + b)
      <4> DEFINE half == b \div 2
      <4>1. s \in half..b /\ half \in Nat /\ b \in Nat
        BY <2>2, <3>1
      <4> HIDE DEF low, high, b, half
      <4>2. slept + s \in (low + half)..(high + b)
        BY <3>1, <4>1
      <4> QED
        BY <4>2 DEF half
    <3> QED
      BY <2>3, <3>2
  <2> QED
    BY <2>5, <2>6, <2>7 DEF Slept, BackoffIs
<1>5. ASSUME NEW d \in 0..policy.connect_timeout, DialEnds(d)
      PROVE  Slept' /\ BackoffIs'
  BY <1>5 DEF DialEnds, Slept, BackoffIs
<1>6. CASE Reject \/ UNCHANGED vars
  BY <1>6 DEF Reject, vars, PaceInv, Slept, BackoffIs
<1> QED
  BY <1>2, <1>3, <1>4, <1>5, <1>6 DEF Next, Done

(* The loop's backoff follows the schedule, and the time asleep its sums, in every
   reachable state. *)
THEOREM PaceInvariance == Spec => [](Slept /\ BackoffIs)
<1>1. Init => Slept /\ BackoffIs
  BY DEF Init, Slept, BackoffIs
<1>2. Inv /\ Slept /\ BackoffIs /\ [Next]_vars => (Slept /\ BackoffIs)'
  BY PaceStep DEF PaceInv
<1> QED
  BY <1>1, <1>2, Invariance, PTL DEF Spec

(* Doubling with saturation and cap comes out as the closed form, for every width of a
   Duration and every validated policy: Spec => []OnSchedule. *)
THEOREM BackoffOnSchedule == Spec => []OnSchedule
<1>1. BackoffIs => OnSchedule
  BY DEF BackoffIs, OnSchedule, ScheduleOf, Schedule
<1> QED
  BY <1>1, PaceInvariance, PTL

(* With every draw of the jitter the time asleep is within the plan: Spec => []Paced. *)
THEOREM SleepsArePaced == Spec => []Paced
<1>1. BackoffTypeOK /\ Slept => Paced
  <2> SUFFICES ASSUME BackoffTypeOK, Slept, phase = "dial"
               PROVE  /\ slept <= Planned(LAMBDA b : b)[attempts]
                      /\ slept >= Planned(LAMBDA b : b \div 2)[attempts]
    BY DEF Paced
  <2>1. slept \in Halves(policy)[attempts]..Whole(policy)[attempts] /\ slept \in Nat
    BY DEF Slept, BackoffTypeOK
  <2>2. Whole(policy)[attempts] \in Nat /\ Halves(policy)[attempts] \in Nat
    BY WholeSteps, HalvesSteps DEF BackoffTypeOK
  <2>3. slept <= Whole(policy)[attempts] /\ slept >= Halves(policy)[attempts]
    BY <2>1, <2>2
  <2> QED
    BY <2>3, PlannedIs
<1> QED
  BY <1>1, PaceInvariance, BackoffTyping, PTL
=============================================================================
