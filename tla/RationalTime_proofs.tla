-------------------------- MODULE RationalTime_proofs --------------------------
(***************************************************************************)
(* Proofs about RationalTime and its wire form, for limbs of any width.    *)
(***************************************************************************)
EXTENDS TimeAccumulator, WireDocument, FiniteSetTheorems, SequenceTheorems, TLAPS

\* Every non-empty set of natural numbers has a least one,
LEMMA FirstExists ==
  ASSUME NEW T \in SUBSET Nat, T # {}
  PROVE  \E x \in T : \A y \in T : x <= y
  <1>1. PICK x \in T : \A y \in T : ~(<<y, x>> \in OpToRel(<, Nat))
    BY WFMin, NatLessThanWellFounded, Zenon
  <1>2. ASSUME NEW y \in T PROVE x <= y
    <2>1. ~(y < x)
      BY <1>1 DEF OpToRel
    <2>2. QED
      BY <2>1
  <1>3. QED
    BY <1>2

\* so that a set with every number whose predecessors are in it has them all:
\* induction, where the property is the membership in a set.
LEMMA Induction ==
  ASSUME NEW n \in Nat, NEW G,
         \A k \in 0..n : (\A j \in 0..(k - 1) : j \in G) => k \in G
  PROVE  \A k \in 0..n : k \in G
<1> DEFINE Bad == {k \in 0..n : k \notin G}
<1>1. SUFFICES ASSUME Bad # {} PROVE FALSE
  OBVIOUS
<1>2. PICK k \in Bad : \A j \in Bad : k <= j
  <2>1. Bad \in SUBSET Nat
    OBVIOUS
  <2> HIDE DEF Bad
  <2>2. QED
    BY <1>1, <2>1, FirstExists
<1>3. k \in 0..n /\ k \notin G
  BY <1>2
<1>4. ASSUME NEW j \in 0..(k - 1) PROVE j \in G
  <2>1. j \in 0..n /\ ~(k <= j)
    BY <1>3
  <2>2. QED
    BY <1>2, <2>1
<1>5. QED
  BY <1>3, <1>4

-----------------------------------------------------------------------------
(***************************************************************************)
(* Recursion on the numbers up to n. The value at m is step[m] of the      *)
(* function, of which step[m] looks at the values before m only.           *)
(***************************************************************************)
LooksBack(step, n, V) ==
  \A m \in 0..n : \A g, h \in [0..n -> V] :
    (\A j \in 0..(m - 1) : g[j] = h[j]) => step[m][g] = step[m][h]

Solves(f, step, n) == \A m \in 0..n : f[m] = step[m][f]

LEMMA RecursionExists ==
  ASSUME NEW n \in Nat, NEW V, NEW v0 \in V, NEW step \in [0..n -> [[0..n -> V] -> V]],
         LooksBack(step, n, V)
  PROVE  \E f \in [0..n -> V] : Solves(f, step, n)
<1> DEFINE Good(k) == \E f \in [0..n -> V] : \A m \in 0..k : f[m] = step[m][f]
           G == {k \in 0..n : Good(k)}
<1>1. ASSUME NEW k \in 0..n, NEW f \in [0..n -> V], \A m \in 0..(k - 1) : f[m] = step[m][f]
      PROVE  Good(k)
  <2> DEFINE g == [m \in 0..n |-> IF m = k THEN step[k][f] ELSE f[m]]
  <2>1. step[k][f] \in V
    OBVIOUS
  <2>2. g \in [0..n -> V]
    BY <2>1
  <2>3. g[k] = step[k][f] /\ \A m \in 0..(k - 1) : g[m] = f[m]
    OBVIOUS
  <2> HIDE DEF g
  <2>4. ASSUME NEW m \in 0..k PROVE g[m] = step[m][g]
    <3>1. m \in 0..n /\ \A j \in 0..(m - 1) : g[j] = f[j]
      BY <2>3
    <3>2. step[m][g] = step[m][f]
      BY <2>2, <3>1 DEF LooksBack
    <3>3. CASE m = k
      BY <2>3, <3>2, <3>3
    <3>4. CASE m \in 0..(k - 1)
      BY <1>1, <2>3, <3>2, <3>4
    <3>5. QED
      BY <3>3, <3>4
  <2>5. QED
    BY <2>2, <2>4
<1>2. \A k \in 0..n : k \in G
  <2>1. ASSUME NEW k \in 0..n, \A j \in 0..(k - 1) : j \in G
        PROVE  k \in G
    <3>1. CASE k = 0
      <4>1. [m \in 0..n |-> v0] \in [0..n -> V] /\ 0..(k - 1) = {}
        BY <3>1
      <4>2. QED
        BY <1>1, <4>1
    <3>2. CASE k # 0
      <4>1. k - 1 \in 0..(k - 1)
        BY <3>2
      <4>2. Good(k - 1)
        BY <2>1, <4>1
      <4>3. QED
        BY <1>1, <4>2
    <3>3. QED
      BY <3>1, <3>2
  <2> HIDE DEF G
  <2>2. QED
    BY <2>1, Induction
<1>3. n \in 0..n
  OBVIOUS
<1>4. QED
  BY <1>2, <1>3 DEF Solves

-----------------------------------------------------------------------------
(***************************************************************************)
(* Integers.                                                               *)
(***************************************************************************)
\* Division with remainder, and that there is only one.
LEMMA DivisionLaw ==
  ASSUME NEW a \in Nat, NEW b \in Nat, b > 0
  PROVE  /\ a = b * (a \div b) + (a % b)
         /\ a \div b \in Nat /\ a % b \in 0..(b - 1) /\ a \div b <= a
<1>1. a = b * (a \div b) + (a % b)
  OBVIOUS
<1>2. a \div b \in Nat /\ a % b \in 0..(b - 1)
  OBVIOUS
<1>3. a \div b <= a
  <2>1. \A q, r \in Nat : a = b * q + r => q <= a
    <3>1. ASSUME NEW q \in Nat, NEW r \in Nat, a = b * q + r PROVE q <= a
      <4>1. b * q >= q
        OBVIOUS
      <4>2. QED
        BY <3>1, <4>1
    <3>2. QED
      BY <3>1
  <2>2. QED
    BY <1>1, <1>2, <2>1
<1>4. QED
  BY <1>1, <1>2, <1>3

LEMMA DivisionUnique ==
  ASSUME NEW a \in Int, NEW b \in Nat, b > 0, NEW q \in Int, NEW r \in 0..(b - 1), a = b * q + r
  PROVE  a \div b = q /\ a % b = r
  OBVIOUS

Divides(k, a) == \E q \in Int : a = k * q

\* No common factor, by Bezout.
Coprime(a, b) == \E x, y \in Int : a * x + b * y = 1

LEMMA CoprimeSymmetric ==
  ASSUME NEW a \in Int, NEW b \in Int, Coprime(a, b)
  PROVE  Coprime(b, a)
  BY DEF Coprime

\* A sign does not matter,
LEMMA CoprimeNegated ==
  ASSUME NEW a \in Int, NEW b \in Int, Coprime(a, b)
  PROVE  Coprime(-a, b)
<1>1. PICK x \in Int, y \in Int : a * x + b * y = 1
  BY DEF Coprime
<1> DEFINE m == -a
           u == -x
<1>2. m \in Int /\ u \in Int /\ m * u + b * y = 1
  BY <1>1
<1> HIDE DEF m, u
<1>3. Coprime(m, b)
  BY <1>2 DEF Coprime
<1>4. QED
  BY <1>3 DEF m

\* nor does a multiple of the other number,
LEMMA CoprimeShifted ==
  ASSUME NEW a \in Int, NEW b \in Int, NEW k \in Int, Coprime(a, b)
  PROVE  Coprime(a + k * b, b)
<1>1. PICK x \in Int, y \in Int : a * x + b * y = 1
  BY DEF Coprime
<1>2. (a + k * b) * x + b * (y - k * x) = 1
  BY <1>1
<1>3. QED
  BY <1>2 DEF Coprime

\* a factor keeps no common factor,
LEMMA CoprimeFactor ==
  ASSUME NEW a \in Int, NEW b \in Int, NEW n \in Int, Divides(a, n), Coprime(n, b)
  PROVE  Coprime(a, b)
<1>1. PICK c \in Int : n = a * c
  BY DEF Divides
<1>2. PICK x \in Int, y \in Int : (a * c) * x + b * y = 1
  BY <1>1 DEF Coprime
<1> DEFINE u == c * x
<1>3. u \in Int /\ a * u + b * y = 1
  BY <1>2
<1> HIDE DEF u
<1>4. QED
  BY <1>3 DEF Coprime

\* and neither does a product.
LEMMA CoprimeProduct ==
  ASSUME NEW a \in Int, NEW b \in Int, NEW c \in Int, Coprime(a, b), Coprime(c, b)
  PROVE  Coprime(a * c, b)
<1>1. PICK x \in Int, y \in Int : a * x + b * y = 1
  BY DEF Coprime
<1>2. PICK u \in Int, v \in Int : c * u + b * v = 1
  BY DEF Coprime
<1>3. (a * x + b * y) * (c * u + b * v) = 1
  BY <1>1, <1>2
<1>4. (a * x + b * y) * (c * u + b * v)
        = (a * c) * (x * u) + b * (a * x * v + y * c * u + b * y * v)
  OBVIOUS
<1> DEFINE m == a * c
           p == x * u
           q == a * x * v + y * c * u + b * y * v
<1>5. m \in Int /\ p \in Int /\ q \in Int /\ m * p + b * q = 1
  BY <1>3, <1>4
<1> HIDE DEF m, p, q
<1>6. Coprime(m, b)
  BY <1>5 DEF Coprime
<1>7. QED
  BY <1>6 DEF m

\* A number that has no factor in common with one factor divides the other.
LEMMA FactorOfProduct ==
  ASSUME NEW a \in Int, NEW b \in Int, NEW c \in Int, Coprime(a, b), Divides(b, a * c)
  PROVE  Divides(b, c)
<1>1. PICK x \in Int, y \in Int : a * x + b * y = 1
  BY DEF Coprime
<1>2. PICK q \in Int : a * c = b * q
  BY DEF Divides
<1>3. c = (a * x + b * y) * c
  BY <1>1
<1>4. (a * x + b * y) * c = (a * c) * x + b * (y * c)
  OBVIOUS
<1>5. (a * c) * x + b * (y * c) = b * (q * x + y * c)
  BY <1>2
<1>6. c = b * (q * x + y * c)
  BY <1>3, <1>4, <1>5
<1>7. QED
  BY <1>6 DEF Divides

\* What divides both of two numbers without common factor is a unit.
LEMMA CommonFactor ==
  ASSUME NEW a \in Int, NEW b \in Int, NEW k \in Nat, Coprime(a, b), Divides(k, a), Divides(k, b)
  PROVE  k = 1
<1>1. PICK x \in Int, y \in Int : a * x + b * y = 1
  BY DEF Coprime
<1>2. PICK p \in Int : a = k * p
  BY DEF Divides
<1>3. PICK q \in Int : b = k * q
  BY DEF Divides
<1>4. k * (p * x + q * y) = 1
  BY <1>1, <1>2, <1>3
<1>5. \A m \in Int : k * m = 1 => k = 1
  OBVIOUS
<1>6. QED
  BY <1>4, <1>5

LEMMA DividesIsRemainder ==
  ASSUME NEW a \in Int, NEW k \in Nat, k > 0, a % k = 0
  PROVE  Divides(k, a)
<1>1. a = k * (a \div k)
  OBVIOUS
<1>2. QED
  BY <1>1 DEF Divides

-----------------------------------------------------------------------------
(***************************************************************************)
(* The width.                                                              *)
(***************************************************************************)
LEMMA PowerRecursion ==
  /\ PowerOfTwo \in [0..(4 * HalfBits) -> Nat]
  /\ \A n \in 0..(4 * HalfBits) : PowerOfTwo[n] = IF n = 0 THEN 1 ELSE 2 * PowerOfTwo[n - 1]
<1> DEFINE N == 4 * HalfBits
           step == [m \in 0..N |-> [g \in [0..N -> Nat] |-> IF m = 0 THEN 1 ELSE 2 * g[m - 1]]]
           F(f) == f = [n \in 0..N |-> IF n = 0 THEN 1 ELSE 2 * f[n - 1]]
<1>1. N \in Nat
  BY HalfBitsAssumption
<1>2. ASSUME NEW m \in 0..N, NEW g \in [0..N -> Nat]
      PROVE  step[m][g] = (IF m = 0 THEN 1 ELSE 2 * g[m - 1]) /\ step[m][g] \in Nat
  <2>1. step[m][g] = (IF m = 0 THEN 1 ELSE 2 * g[m - 1])
    OBVIOUS
  <2>2. m # 0 => m - 1 \in 0..N
    BY <1>1
  <2>3. (IF m = 0 THEN 1 ELSE 2 * g[m - 1]) \in Nat
    BY <2>2
  <2>4. QED
    BY <2>1, <2>3
<1>3. step \in [0..N -> [[0..N -> Nat] -> Nat]]
  BY <1>2
<1>4. ASSUME NEW m \in 0..N, NEW g \in [0..N -> Nat], NEW h \in [0..N -> Nat],
             \A j \in 0..(m - 1) : g[j] = h[j]
      PROVE  step[m][g] = step[m][h]
  <2>1. m # 0 => m - 1 \in 0..(m - 1)
    BY <1>1
  <2> HIDE DEF step
  <2>2. QED
    BY <1>2, <1>4, <2>1
<1>5. \E f \in [0..N -> Nat] : Solves(f, step, N)
  <2> HIDE DEF step, N
  <2>1. LooksBack(step, N, Nat)
    BY <1>4 DEF LooksBack
  <2>2. 0 \in Nat
    OBVIOUS
  <2>3. QED
    BY <1>1, <1>3, <2>1, <2>2, RecursionExists, Zenon
<1>6. PICK f \in [0..N -> Nat] : \A m \in 0..N : f[m] = step[m][f]
  BY <1>5 DEF Solves
<1>7. \A m \in 0..N : f[m] = IF m = 0 THEN 1 ELSE 2 * f[m - 1]
  <2> HIDE DEF step
  <2>1. QED
    BY <1>2, <1>6
<1>8. F(f)
  BY <1>7
<1>9. F(PowerOfTwo)
  <2>1. PowerOfTwo = CHOOSE g : F(g)
    BY Zenon DEF PowerOfTwo
  <2> HIDE DEF F
  <2>2. QED
    BY <1>8, <2>1
<1>10. \A n \in 0..N : PowerOfTwo[n] = IF n = 0 THEN 1 ELSE 2 * PowerOfTwo[n - 1]
  BY <1>9, Zenon
<1>11. ASSUME NEW n \in 0..N, \A j \in 0..(n - 1) : PowerOfTwo[j] \in Nat
       PROVE  PowerOfTwo[n] \in Nat
  <2>1. CASE n = 0
    BY <1>10, <2>1
  <2>2. CASE n # 0
    <3>1. n - 1 \in 0..(n - 1)
      BY <1>1, <2>2
    <3>2. PowerOfTwo[n - 1] \in Nat
      BY <1>11, <3>1
    <3>3. PowerOfTwo[n] = 2 * PowerOfTwo[n - 1]
      BY <1>10, <2>2
    <3>4. QED
      BY <3>2, <3>3
  <2>3. QED
    BY <2>1, <2>2
<1>12. \A n \in 0..N : PowerOfTwo[n] \in Nat
  <2> DEFINE G == {n \in 0..N : PowerOfTwo[n] \in Nat}
  <2>1. ASSUME NEW k \in 0..N, \A j \in 0..(k - 1) : j \in G PROVE k \in G
    BY <1>11, <2>1
  <2>2. \A n \in 0..N : n \in G
    <3> HIDE DEF G
    <3>1. QED
      BY <1>1, <2>1, Induction
  <2>3. QED
    BY <2>2
<1>13. PowerOfTwo = [n \in 0..N |-> PowerOfTwo[n]]
  BY <1>9, Zenon
<1>14. QED
  BY <1>10, <1>12, <1>13

LEMMA PowerSum ==
  ASSUME NEW j \in Nat
  PROVE  \A i \in Nat : i + j <= 4 * HalfBits => PowerOfTwo[i + j] = PowerOfTwo[i] * PowerOfTwo[j]
<1> DEFINE N == 4 * HalfBits
           G == {i \in 0..N : i + j <= N => PowerOfTwo[i + j] = PowerOfTwo[i] * PowerOfTwo[j]}
<1>1. N \in Nat
  BY HalfBitsAssumption
<1>2. ASSUME NEW k \in 0..N, \A i \in 0..(k - 1) : i \in G PROVE k \in G
  <2>1. SUFFICES ASSUME k + j <= N PROVE PowerOfTwo[k + j] = PowerOfTwo[k] * PowerOfTwo[j]
    OBVIOUS
  <2>2. k + j \in 0..N /\ j \in 0..N
    BY <2>1, <1>1
  <2>3. CASE k = 0
    <3>1. PowerOfTwo[k] = 1 /\ PowerOfTwo[j] \in Nat /\ k + j = j
      BY <2>2, <2>3, PowerRecursion
    <3>2. QED
      BY <3>1
  <2>4. CASE k # 0
    <3>1. k - 1 \in 0..(k - 1) /\ (k - 1) + j <= N /\ (k + j) - 1 = (k - 1) + j /\ k + j # 0
      BY <1>1, <2>1, <2>4
    <3>2. PowerOfTwo[(k - 1) + j] = PowerOfTwo[k - 1] * PowerOfTwo[j]
      BY <1>2, <3>1
    <3>3. PowerOfTwo[k] = 2 * PowerOfTwo[k - 1] /\ PowerOfTwo[k + j] = 2 * PowerOfTwo[(k - 1) + j]
      BY <2>2, <2>4, <3>1, PowerRecursion
    <3>4. PowerOfTwo[k - 1] \in Nat /\ PowerOfTwo[j] \in Nat
      BY <1>1, <2>2, <2>4, PowerRecursion
    <3>5. \A u, v \in Nat : 2 * (u * v) = (2 * u) * v
      OBVIOUS
    <3>6. QED
      BY <3>2, <3>3, <3>4, <3>5
  <2>5. QED
    BY <2>3, <2>4
<1>3. \A i \in 0..N : i \in G
  <2> HIDE DEF G
  <2>1. QED
    BY <1>1, <1>2, Induction
<1>4. ASSUME NEW i \in Nat, i + j <= N PROVE PowerOfTwo[i + j] = PowerOfTwo[i] * PowerOfTwo[j]
  <2>1. i \in 0..N
    BY <1>1, <1>4
  <2>2. QED
    BY <1>3, <1>4, <2>1
<1>5. QED
  BY <1>4

LEMMA Widths ==
  /\ Half \in Nat /\ Half >= 2
  /\ Limb \in Nat /\ Limb = Half * Half
  /\ kMinMagnitude \in Nat /\ kMinMagnitude >= 2 /\ Limb = 2 * kMinMagnitude
  /\ Limb = PowerOfTwo[2 * HalfBits]
<1>1. HalfBits \in Nat /\ HalfBits > 0
  BY HalfBitsAssumption
<1>2. HalfBits \in 0..(4 * HalfBits) /\ HalfBits - 1 \in 0..(4 * HalfBits) /\ HalfBits # 0
  BY <1>1
<1> DEFINE p == PowerOfTwo[HalfBits - 1]
<1>3. p \in Nat /\ Half = 2 * p
  BY <1>2, PowerRecursion DEF Half
<1>4. Half \in Nat /\ Half # 0
  <2>1. ASSUME NEW k \in 0..(4 * HalfBits), \A j \in 0..(k - 1) : PowerOfTwo[j] # 0
        PROVE  PowerOfTwo[k] # 0
    <3>1. CASE k = 0
      BY <3>1, PowerRecursion
    <3>2. CASE k # 0
      <4>1. k - 1 \in 0..(k - 1) /\ k - 1 \in 0..(4 * HalfBits)
        BY <1>1, <3>2
      <4>2. PowerOfTwo[k] = 2 * PowerOfTwo[k - 1] /\ PowerOfTwo[k - 1] \in Nat /\ PowerOfTwo[k - 1] # 0
        BY <2>1, <3>2, <4>1, PowerRecursion
      <4>3. QED
        BY <4>2
    <3>3. QED
      BY <3>1, <3>2
  <2> DEFINE G == {k \in 0..(4 * HalfBits) : PowerOfTwo[k] # 0}
  <2>2. ASSUME NEW k \in 0..(4 * HalfBits), \A j \in 0..(k - 1) : j \in G PROVE k \in G
    BY <2>1, <2>2
  <2>3. HalfBits \in G
    <3> HIDE DEF G
    <3>1. 4 * HalfBits \in Nat
      BY <1>1
    <3>2. QED
      BY <1>2, <2>2, <3>1, Induction
  <2>4. QED
    BY <1>2, <2>3, PowerRecursion DEF Half
<1>5. p >= 1
  BY <1>3, <1>4
<1> HIDE DEF p
<1>6. Half >= 2 /\ Limb = 2 * (p * Half) /\ p * Half \in Nat /\ p * Half >= 2
  <2>1. Half >= 2
    BY <1>3, <1>5
  <2>2. p * Half \in Nat /\ p * Half >= Half
    BY <1>3, <1>4, <1>5
  <2>3. Half * Half = 2 * (p * Half)
    BY <1>3
  <2>4. QED
    BY <1>4, <2>1, <2>2, <2>3 DEF Limb
<1>7. kMinMagnitude = p * Half
  BY <1>6 DEF kMinMagnitude
<1>8. Limb = PowerOfTwo[2 * HalfBits]
  <2>1. HalfBits + HalfBits <= 4 * HalfBits /\ HalfBits + HalfBits = 2 * HalfBits
    BY <1>1
  <2>2. PowerOfTwo[HalfBits + HalfBits] = PowerOfTwo[HalfBits] * PowerOfTwo[HalfBits]
    BY <1>1, <2>1, PowerSum
  <2>3. QED
    BY <2>1, <2>2 DEF Limb, Half
<1>9. QED
  BY <1>4, <1>6, <1>7, <1>8 DEF Limb

\* The types of the limbs and of the numbers, in terms of one magnitude.
LEMMA Ranges ==
  /\ kMinMagnitude \in Nat /\ kMinMagnitude >= 2 /\ Limb = 2 * kMinMagnitude
  /\ UInt64 = 0..(Limb - 1) /\ MaxLimb = Limb - 1
  /\ kMax = kMinMagnitude - 1 /\ kMin = -kMinMagnitude
  /\ Int64 = (-kMinMagnitude)..(kMinMagnitude - 1)
  BY Widths DEF UInt64, MaxLimb, kMax, kMin, Int64

-----------------------------------------------------------------------------
(***************************************************************************)
(* The greatest common divisor: gcd_u64.                                   *)
(***************************************************************************)
LEMMA EuclidRecursion ==
  /\ Euclid \in [UInt64 -> [UInt64 -> UInt64]]
  /\ \A a, b \in UInt64 : Euclid[b][a] = IF b = 0 THEN a ELSE Euclid[a % b][b]
<1> DEFINE N == MaxLimb
           V == [UInt64 -> UInt64]
           row(g, b) == [a \in UInt64 |-> IF b = 0 THEN a ELSE g[a % b][b]]
           step == [b \in 0..N |-> [g \in [0..N -> V] |-> row(g, b)]]
           F(f) == f = [b \in UInt64 |-> row(f, b)]
<1>1. N \in Nat /\ UInt64 = 0..N
  BY Ranges
<1>2. \A a, b \in UInt64 : b # 0 => a % b \in 0..(b - 1) /\ a % b \in UInt64
  BY <1>1
<1>3. ASSUME NEW b \in 0..N, NEW g \in [0..N -> V] PROVE row(g, b) \in V
  <2>1. ASSUME NEW a \in UInt64 PROVE (IF b = 0 THEN a ELSE g[a % b][b]) \in UInt64
    <3>1. CASE b = 0
      BY <3>1
    <3>2. CASE b # 0
      <4>1. a % b \in 0..N /\ b \in UInt64
        BY <1>1, <1>2, <3>2
      <4>2. g[a % b] \in V
        BY <4>1
      <4>3. QED
        BY <3>2, <4>1, <4>2
    <3>3. QED
      BY <3>1, <3>2
  <2>2. QED
    BY <2>1
<1>4. ASSUME NEW b \in 0..N, NEW g \in [0..N -> V], NEW h \in [0..N -> V],
             \A j \in 0..(b - 1) : g[j] = h[j]
      PROVE  row(g, b) = row(h, b)
  <2>1. ASSUME NEW a \in UInt64, b # 0 PROVE g[a % b][b] = h[a % b][b]
    BY <1>1, <1>2, <1>4, <2>1
  <2>2. QED
    BY <2>1
<1>5. [a \in UInt64 |-> a] \in V
  OBVIOUS
<1> HIDE DEF row, V
<1>6. step \in [0..N -> [[0..N -> V] -> V]]
  BY <1>3
<1>7. \A b \in 0..N : \A g \in [0..N -> V] : step[b][g] = row(g, b)
  OBVIOUS
<1> HIDE DEF step
<1>8. LooksBack(step, N, V)
  <2> HIDE DEF N
  <2>1. ASSUME NEW m \in 0..N, NEW g \in [0..N -> V], NEW h \in [0..N -> V],
               \A j \in 0..(m - 1) : g[j] = h[j]
        PROVE  step[m][g] = step[m][h]
    <3>1. row(g, m) = row(h, m)
      BY <1>4, <2>1
    <3>2. step[m][g] = row(g, m) /\ step[m][h] = row(h, m)
      BY <1>7
    <3>3. QED
      BY <3>1, <3>2
  <2>2. QED
    BY <2>1 DEF LooksBack
<1>9. PICK f \in [0..N -> V] : Solves(f, step, N)
  <2> HIDE DEF N
  <2>1. QED
    BY <1>1, <1>5, <1>6, <1>8, RecursionExists, Zenon
<1>10. F(f)
  <2>1. \A b \in 0..N : f[b] = row(f, b)
    BY <1>7, <1>9 DEF Solves
  <2>2. QED
    BY <1>1, <2>1
<1>11. F(Euclid)
  <2>1. Euclid = CHOOSE g : F(g)
    BY Zenon DEF Euclid, row
  <2> HIDE DEF F
  <2>2. QED
    BY <1>10, <2>1
<1>12. \A b \in UInt64 : Euclid[b] = row(Euclid, b)
  BY <1>11, Zenon
<1>13. ASSUME NEW b \in 0..N, \A j \in 0..(b - 1) : Euclid[j] \in V PROVE Euclid[b] \in V
  <2>1. ASSUME NEW a \in UInt64 PROVE (IF b = 0 THEN a ELSE Euclid[a % b][b]) \in UInt64
    <3>1. CASE b = 0
      BY <3>1
    <3>2. CASE b # 0
      <4>1. Euclid[a % b] \in V
        BY <1>1, <1>2, <1>13, <3>2
      <4>2. QED
        BY <1>1, <3>2, <4>1 DEF V
    <3>3. QED
      BY <3>1, <3>2
  <2>2. row(Euclid, b) \in V
    BY <2>1 DEF row, V
  <2>3. QED
    BY <1>1, <1>12, <2>2
<1>14. \A b \in 0..N : Euclid[b] \in V
  <2> DEFINE G == {b \in 0..N : Euclid[b] \in V}
  <2>1. ASSUME NEW k \in 0..N, \A j \in 0..(k - 1) : j \in G PROVE k \in G
    BY <1>13, <2>1
  <2>2. \A b \in 0..N : b \in G
    <3> HIDE DEF G, N
    <3>1. QED
      BY <1>1, <2>1, Induction
  <2>3. QED
    BY <2>2
<1>15. Euclid \in [UInt64 -> V]
  <2>1. Euclid = [b \in UInt64 |-> Euclid[b]]
    BY <1>11, Zenon
  <2>2. QED
    BY <1>1, <1>14, <2>1
<1>16. \A a, b \in UInt64 : Euclid[b][a] = IF b = 0 THEN a ELSE Euclid[a % b][b]
  BY <1>12 DEF row
<1>17. QED
  BY <1>15, <1>16 DEF V

\* g divides a and b and is a combination of them, hence the greatest divisor.
IsGcd(g, a, b) ==
  /\ g \in Nat
  /\ Divides(g, a) /\ Divides(g, b)
  /\ \E x, y \in Int : a * x + b * y = g

LEMMA IsGcdStep ==
  ASSUME NEW a \in Nat, NEW b \in Nat, b > 0, NEW g \in Nat, IsGcd(g, b, a % b)
  PROVE  IsGcd(g, a, b)
<1> DEFINE q == a \div b
           r == a % b
<1>1. q \in Int /\ r \in Int /\ a = b * q + r
  BY DivisionLaw
<1> HIDE DEF q, r
<1>2. PICK u \in Int : b = g * u
  BY DEF IsGcd, Divides
<1>3. PICK v \in Int : r = g * v
  BY DEF IsGcd, Divides, r
<1>4. PICK x \in Int, y \in Int : b * x + r * y = g
  BY DEF IsGcd, r
<1>5. a = g * (u * q + v)
  BY <1>1, <1>2, <1>3
<1>6. a * y + b * (x - q * y) = g
  BY <1>1, <1>4
<1>7. u * q + v \in Int /\ x - q * y \in Int
  BY <1>1
<1>8. Divides(g, a)
  BY <1>5, <1>7 DEF Divides
<1>9. QED
  BY <1>6, <1>7, <1>8 DEF IsGcd

\* gcd_u64 returns the greatest common divisor.
LEMMA GcdIsGcd ==
  ASSUME NEW a \in UInt64, NEW b \in UInt64
  PROVE  gcd_u64(a, b) \in UInt64 /\ IsGcd(gcd_u64(a, b), a, b)
<1>1. MaxLimb \in Nat /\ UInt64 = 0..MaxLimb
  BY Ranges
<1> DEFINE Good(k) == \A m \in UInt64 : IsGcd(Euclid[k][m], m, k)
           G == {k \in 0..MaxLimb : Good(k)}
<1>2. ASSUME NEW k \in 0..MaxLimb, \A j \in 0..(k - 1) : Good(j), NEW m \in UInt64
      PROVE  IsGcd(Euclid[k][m], m, k)
  <2>1. CASE k = 0
    <3>1. Euclid[k][m] = m
      BY <1>1, <2>1, EuclidRecursion
    <3>2. m = m * 1 /\ k = m * 0 /\ m * 1 + k * 0 = m /\ m \in Nat
      BY <1>1, <2>1
    <3>3. QED
      BY <3>1, <3>2 DEF IsGcd, Divides
  <2>2. CASE k # 0
    <3>1. m % k \in 0..(k - 1) /\ m % k \in UInt64 /\ k \in UInt64 /\ m \in Nat /\ k \in Nat /\ k > 0
      BY <1>1, <2>2
    <3>2. Euclid[k][m] = Euclid[m % k][k]
      BY <2>2, <3>1, EuclidRecursion
    <3>3. Euclid[m % k][k] \in Nat
      <4>1. Euclid[m % k][k] \in UInt64
        BY <3>1, EuclidRecursion
      <4>2. QED
        BY <1>1, <4>1
    <3>4. IsGcd(Euclid[m % k][k], k, m % k)
      BY <1>2, <3>1
    <3>5. QED
      BY <3>1, <3>2, <3>3, <3>4, IsGcdStep
  <2>3. QED
    BY <2>1, <2>2
<1>3. \A k \in 0..MaxLimb : k \in G
  <2>1. ASSUME NEW k \in 0..MaxLimb, \A j \in 0..(k - 1) : j \in G PROVE k \in G
    BY <1>2, <2>1
  <2> HIDE DEF G
  <2>2. QED
    BY <1>1, <2>1, Induction
<1>4. IsGcd(Euclid[b][a], a, b)
  BY <1>1, <1>3
<1>5. QED
  BY <1>4, EuclidRecursion DEF gcd_u64

\* Divided by their greatest common divisor, two numbers have none in common.
LEMMA GcdReduces ==
  ASSUME NEW a \in Nat, NEW b \in Nat, b > 0, NEW g, IsGcd(g, a, b)
  PROVE  /\ g \in Nat /\ g > 0 /\ g <= b
         /\ a \div g \in Nat /\ a = g * (a \div g) /\ a \div g <= a
         /\ b \div g \in Nat /\ b = g * (b \div g) /\ b \div g > 0 /\ b \div g <= b
         /\ Coprime(a \div g, b \div g)
<1>1. g \in Nat
  BY DEF IsGcd
<1>2. PICK u \in Int : a = g * u
  BY DEF IsGcd, Divides
<1>3. PICK v \in Int : b = g * v
  BY DEF IsGcd, Divides
<1>4. g > 0
  BY <1>1, <1>3
<1>5. v > 0 /\ u >= 0
  BY <1>1, <1>2, <1>3, <1>4
<1>6. g <= b /\ v <= b /\ u <= a
  BY <1>1, <1>2, <1>3, <1>4, <1>5
<1>7. a \div g = u /\ b \div g = v
  <2>1. 0 \in 0..(g - 1) /\ a = g * u + 0 /\ b = g * v + 0
    BY <1>1, <1>2, <1>3, <1>4
  <2>2. QED
    BY <1>1, <1>4, <2>1, DivisionUnique
<1>8. PICK x \in Int, y \in Int : a * x + b * y = g
  BY DEF IsGcd
<1>9. g * (u * x + v * y) = g * 1
  BY <1>1, <1>2, <1>3, <1>8
<1>10. u * x + v * y = 1
  <2>1. \A s, t \in Int : g * s = g * t => s = t
    BY <1>1, <1>4
  <2>2. QED
    BY <1>9, <2>1
<1>11. Coprime(u, v)
  BY <1>10 DEF Coprime
<1>12. u \in Nat /\ v \in Nat
  BY <1>5
<1>13. QED
  BY <1>1, <1>2, <1>3, <1>4, <1>5, <1>6, <1>7, <1>11, <1>12

\* The same, with the common divisor of numbers that have none.
LEMMA GcdOfCoprime ==
  ASSUME NEW a \in Int, NEW b \in Int, NEW g, IsGcd(g, a, b), Coprime(a, b)
  PROVE  g = 1
  BY CommonFactor DEF IsGcd

-----------------------------------------------------------------------------
(***************************************************************************)
(* Two limbs.                                                              *)
(***************************************************************************)
Wide == [lo : UInt64, hi : UInt64]

Value(x) == x.hi * Limb + x.lo

LEMMA WideValue ==
  ASSUME NEW x \in Wide
  PROVE  /\ x.lo \in 0..(Limb - 1) /\ x.hi \in 0..(Limb - 1)
         /\ Value(x) \in Nat
         /\ x.hi = 0 <=> Value(x) < Limb
         /\ x.hi = 0 => Value(x) = x.lo
<1>1. x.lo \in 0..(Limb - 1) /\ x.hi \in 0..(Limb - 1) /\ Limb \in Nat
  BY Ranges DEF Wide
<1>2. x.hi * Limb \in Nat /\ x.hi * Limb + x.lo \in Nat
  BY <1>1
<1>3. x.hi # 0 => x.hi * Limb >= Limb
  BY <1>1
<1>4. x.hi = 0 => x.hi * Limb = 0
  BY <1>1
<1>5. QED
  BY <1>1, <1>2, <1>3, <1>4 DEF Value

\* The product of two limbs, from the four products of their halves.
LEMMA HalvesOfProduct ==
  ASSUME NEW h \in Nat, NEW x0 \in Nat, NEW x1 \in Nat, NEW y0 \in Nat, NEW y1 \in Nat,
         NEW ll0 \in Nat, NEW ll1 \in Nat, NEW lh0 \in Nat, NEW lh1 \in Nat,
         NEW hl0 \in Nat, NEW hl1 \in Nat, NEW m0 \in Nat, NEW m1 \in Nat,
         x0 * y0 = h * ll1 + ll0, x0 * y1 = h * lh1 + lh0, x1 * y0 = h * hl1 + hl0,
         lh0 + hl0 + ll1 = h * m1 + m0
  PROVE  (h * x1 + x0) * (h * y1 + y0)
           = (x1 * y1 + lh1 + hl1 + m1) * (h * h) + (m0 * h + ll0)
<1>1. (h * x1 + x0) * (h * y1 + y0)
        = (x1 * y1) * (h * h) + h * (x0 * y1) + h * (x1 * y0) + x0 * y0
  OBVIOUS
<1>2. h * (x0 * y1) = lh1 * (h * h) + h * lh0 /\ h * (x1 * y0) = hl1 * (h * h) + h * hl0
  OBVIOUS
<1>3. h * (lh0 + hl0 + ll1) = m1 * (h * h) + m0 * h
  OBVIOUS
<1>4. h * (lh0 + hl0 + ll1) = h * lh0 + h * hl0 + h * ll1
  OBVIOUS
<1>5. (x1 * y1 + lh1 + hl1 + m1) * (h * h)
        = (x1 * y1) * (h * h) + lh1 * (h * h) + hl1 * (h * h) + m1 * (h * h)
  OBVIOUS
<1> DEFINE a == (x1 * y1) * (h * h)
           b == lh1 * (h * h)
           c == hl1 * (h * h)
           d == m1 * (h * h)
           e == h * lh0
           f == h * hl0
           k == h * ll1
           m == m0 * h
<1>6. a \in Nat /\ b \in Nat /\ c \in Nat /\ d \in Nat /\ e \in Nat /\ f \in Nat /\ k \in Nat /\ m \in Nat
  OBVIOUS
<1>7. (h * x1 + x0) * (h * y1 + y0) = a + (b + e) + (c + f) + (k + ll0)
  BY <1>1, <1>2
<1>8. e + f + k = d + m
  BY <1>3, <1>4
<1>9. (x1 * y1 + lh1 + hl1 + m1) * (h * h) = a + b + c + d
  BY <1>5
<1> HIDE DEF a, b, c, d, e, f, k, m
<1>10. a + (b + e) + (c + f) + (k + ll0) = (a + b + c + d) + (m + ll0)
  BY <1>6, <1>8
<1>11. QED
  BY <1>7, <1>9, <1>10 DEF m

\* What a limb's high half and low half are.
LEMMA Halves ==
  ASSUME NEW x \in UInt64
  PROVE  /\ x % Half \in 0..(Half - 1) /\ x \div Half \in 0..(Half - 1)
         /\ x = Half * (x \div Half) + (x % Half)
<1>1. x \in Nat /\ x < Half * Half /\ Half \in Nat /\ Half > 0
  BY Widths, Ranges
<1>2. x = Half * (x \div Half) + (x % Half) /\ x \div Half \in Nat /\ x % Half \in 0..(Half - 1)
  BY <1>1, DivisionLaw
<1>3. \A q, r, h \in Nat : h * q + r < h * h => q < h
  <2>1. ASSUME NEW q \in Nat, NEW r \in Nat, NEW h \in Nat, h * q + r < h * h, ~(q < h)
        PROVE  FALSE
    <3>1. h * q >= h * h
      BY <2>1
    <3>2. h * q \in Nat /\ h * h \in Nat
      OBVIOUS
    <3>3. QED
      BY <2>1, <3>1, <3>2
  <2>2. QED
    BY <2>1
<1>4. x \div Half < Half
  BY <1>1, <1>2, <1>3
<1>5. QED
  BY <1>1, <1>2, <1>4

LEMMA WideOfProduct ==
  ASSUME NEW n \in Nat, NEW hi \in Nat, NEW lo \in 0..(Limb - 1), n = hi * Limb + lo,
         n < Limb * Limb
  PROVE  hi \in 0..(Limb - 1) /\ hi % Limb = hi
<1>1. Limb \in Nat /\ Limb >= 1
  BY Ranges
<1>2. ASSUME hi >= Limb PROVE FALSE
  <2>1. hi * Limb >= Limb * Limb
    BY <1>1, <1>2
  <2>2. hi * Limb \in Nat /\ Limb * Limb \in Nat
    BY <1>1
  <2>3. QED
    BY <2>1, <2>2
<1>3. hi < Limb
  BY <1>1, <1>2
<1>4. QED
  BY <1>1, <1>3

LEMMA MulExact ==
  ASSUME NEW x \in UInt64, NEW y \in UInt64
  PROVE  mul_u64(x, y) \in Wide /\ Value(mul_u64(x, y)) = x * y
<1> DEFINE x0 == x % Half
           x1 == x \div Half
           y0 == y % Half
           y1 == y \div Half
           ll == x0 * y0
           lh == x0 * y1
           hl == x1 * y0
           mid == (lh % Half) + (hl % Half) + (ll \div Half)
           hi == x1 * y1 + (lh \div Half) + (hl \div Half) + (mid \div Half)
           lo == ((mid * Half) % Limb) + (ll % Half)
<1>1. /\ Half \in Nat /\ Half >= 2 /\ Limb = Half * Half
      /\ x0 \in 0..(Half - 1) /\ x1 \in 0..(Half - 1) /\ x = Half * x1 + x0
      /\ y0 \in 0..(Half - 1) /\ y1 \in 0..(Half - 1) /\ y = Half * y1 + y0
  BY Widths, Halves
<1>2. mul_u64(x, y) = [lo |-> lo, hi |-> hi % Limb]
  BY DEF mul_u64, U128
<1> HIDE DEF x0, x1, y0, y1
<1>3. ll \in Nat /\ lh \in Nat /\ hl \in Nat /\ x1 * y1 \in Nat
  BY <1>1
<1> HIDE DEF ll, lh, hl
<1>4. /\ ll = Half * (ll \div Half) + (ll % Half) /\ ll \div Half \in Nat /\ ll % Half \in 0..(Half - 1)
      /\ lh = Half * (lh \div Half) + (lh % Half) /\ lh \div Half \in Nat /\ lh % Half \in 0..(Half - 1)
      /\ hl = Half * (hl \div Half) + (hl % Half) /\ hl \div Half \in Nat /\ hl % Half \in 0..(Half - 1)
  <2>1. Half > 0
    BY <1>1
  <2>2. QED
    BY <1>1, <1>3, <2>1, DivisionLaw
<1>5. mid \in Nat
  BY <1>4
<1>6. mid = Half * (mid \div Half) + (mid % Half) /\ mid \div Half \in Nat /\ mid % Half \in 0..(Half - 1)
  <2> HIDE DEF mid
  <2>1. Half > 0
    BY <1>1
  <2>2. QED
    BY <1>1, <1>5, <2>1, DivisionLaw
<1>7. x * y = hi * Limb + ((mid % Half) * Half + (ll % Half))
  <2> DEFINE ll0 == ll % Half
             ll1 == ll \div Half
             lh0 == lh % Half
             lh1 == lh \div Half
             hl0 == hl % Half
             hl1 == hl \div Half
             m0 == mid % Half
             m1 == mid \div Half
  <2>1. /\ ll0 \in Nat /\ ll1 \in Nat /\ lh0 \in Nat /\ lh1 \in Nat /\ hl0 \in Nat /\ hl1 \in Nat
        /\ m0 \in Nat /\ m1 \in Nat
    BY <1>4, <1>6
  <2>2. ll = Half * ll1 + ll0 /\ lh = Half * lh1 + lh0 /\ hl = Half * hl1 + hl0
    BY <1>4
  <2>3. lh0 + hl0 + ll1 = Half * m1 + m0
    BY <1>6
  <2>4. x0 \in Nat /\ x1 \in Nat /\ y0 \in Nat /\ y1 \in Nat
    BY <1>1
  <2> HIDE DEF ll0, ll1, lh0, lh1, hl0, hl1, m0, m1
  <2>5. (Half * x1 + x0) * (Half * y1 + y0)
          = (x1 * y1 + lh1 + hl1 + m1) * (Half * Half) + (m0 * Half + ll0)
    BY <1>1, <2>1, <2>2, <2>3, <2>4, HalvesOfProduct DEF ll, lh, hl
  <2>6. QED
    BY <1>1, <2>5 DEF ll0, lh1, hl1, m0, m1
<1>8. (mid * Half) % Limb = (mid % Half) * Half /\ (mid % Half) * Half + (ll % Half) \in 0..(Limb - 1)
  <2> DEFINE m0 == mid % Half
             m1 == mid \div Half
             ll0 == ll % Half
  <2>1. mid \in Nat /\ m0 \in 0..(Half - 1) /\ m1 \in Nat /\ mid = Half * m1 + m0 /\ ll0 \in 0..(Half - 1)
    BY <1>4, <1>5, <1>6
  <2> HIDE DEF m0, m1, mid, ll0
  <2>2. mid * Half = (Half * Half) * m1 + m0 * Half
    BY <1>1, <2>1
  <2>3. m0 * Half + ll0 \in Nat /\ m0 * Half \in Nat /\ m0 * Half <= (Half - 1) * Half
    BY <1>1, <2>1
  <2>4. (Half - 1) * Half = Half * Half - Half /\ Half * Half \in Nat
    BY <1>1
  <2>5. m0 * Half \in 0..(Limb - 1) /\ m0 * Half + ll0 \in 0..(Limb - 1)
    BY <1>1, <2>1, <2>3, <2>4
  <2>6. Limb \in Nat /\ Limb > 0 /\ mid * Half \in Int /\ m1 \in Int /\ mid * Half = Limb * m1 + m0 * Half
    BY <1>1, <2>1, <2>2, Ranges
  <2> DEFINE u == m0 * Half
             w == mid * Half
  <2>7. u \in 0..(Limb - 1) /\ w \in Int /\ w = Limb * m1 + u
    BY <2>5, <2>6
  <2>8. w % Limb = u
    <3> HIDE DEF u, w
    <3>1. QED
      BY <2>6, <2>7, DivisionUnique
  <2>9. QED
    BY <2>5, <2>8 DEF m0, ll0
<1>9. lo \in 0..(Limb - 1) /\ lo = (mid % Half) * Half + (ll % Half)
  BY <1>8
<1>10. hi \in Nat
  <2>1. mid \div Half \in Nat
    BY <1>6
  <2>2. QED
    BY <1>3, <1>4, <2>1
<1>11. x * y < Limb * Limb /\ x * y \in Nat
  <2>1. x \in Nat /\ y \in Nat /\ x <= Limb - 1 /\ y <= Limb - 1 /\ Limb \in Nat /\ Limb >= 1
    BY Ranges
  <2>2. x * y <= (Limb - 1) * (Limb - 1)
    BY <2>1
  <2>3. (Limb - 1) * (Limb - 1) < Limb * Limb
    BY <2>1
  <2>4. x * y \in Nat /\ (Limb - 1) * (Limb - 1) \in Nat /\ Limb * Limb \in Nat
    BY <2>1
  <2>5. QED
    BY <2>2, <2>3, <2>4
<1>12. x * y = hi * Limb + lo
  BY <1>7, <1>9
<1> HIDE DEF hi, lo
<1>13. hi \in 0..(Limb - 1) /\ hi % Limb = hi
  BY <1>9, <1>10, <1>11, <1>12, WideOfProduct
<1>14. mul_u64(x, y) = [lo |-> lo, hi |-> hi]
  BY <1>2, <1>13
<1>15. UInt64 = 0..(Limb - 1)
  BY Ranges
<1>16. QED
  BY <1>9, <1>12, <1>13, <1>14, <1>15 DEF Wide, Value

\* Addition, subtraction and comparison of two limbs.
LEMMA AddExact ==
  ASSUME NEW a \in Wide, NEW b \in Wide, Value(a) + Value(b) < Limb * Limb
  PROVE  add_u128(a, b) \in Wide /\ Value(add_u128(a, b)) = Value(a) + Value(b)
<1> DEFINE alo == a.lo
           ahi == a.hi
           blo == b.lo
           bhi == b.hi
           lo == (alo + blo) % Limb
           carry == IF lo < alo THEN 1 ELSE 0
           hi == ahi + bhi + carry
<1>1. /\ alo \in 0..(Limb - 1) /\ ahi \in 0..(Limb - 1)
      /\ blo \in 0..(Limb - 1) /\ bhi \in 0..(Limb - 1)
      /\ Limb \in Nat /\ Limb > 0 /\ UInt64 = 0..(Limb - 1)
  BY WideValue, Ranges
<1>2. add_u128(a, b) = [lo |-> lo, hi |-> hi % Limb]
  BY DEF add_u128, U128
<1>3. Value(a) = ahi * Limb + alo /\ Value(b) = bhi * Limb + blo
  BY DEF Value
<1> HIDE DEF alo, ahi, blo, bhi
<1>4. lo \in 0..(Limb - 1) /\ alo + blo = carry * Limb + lo /\ carry \in Nat
  <2>1. CASE alo + blo < Limb
    <3>1. lo = alo + blo
      <4>1. alo + blo \in 0..(Limb - 1) /\ alo + blo = Limb * 0 + (alo + blo)
        BY <1>1, <2>1
      <4>2. QED
        BY <1>1, <4>1, DivisionUnique
    <3>2. QED
      BY <1>1, <2>1, <3>1
  <2>2. CASE ~(alo + blo < Limb)
    <3>1. lo = alo + blo - Limb
      <4>1. alo + blo - Limb \in 0..(Limb - 1) /\ alo + blo = Limb * 1 + (alo + blo - Limb)
        BY <1>1, <2>2
      <4>2. QED
        BY <1>1, <4>1, DivisionUnique
    <3>2. QED
      BY <1>1, <2>2, <3>1
  <2>3. QED
    BY <2>1, <2>2
<1> HIDE DEF lo, carry
<1>5. hi \in Nat /\ Value(a) + Value(b) = hi * Limb + lo
  <2>1. (ahi + bhi + carry) * Limb = ahi * Limb + bhi * Limb + carry * Limb
    BY <1>1, <1>4
  <2>2. ahi * Limb \in Nat /\ bhi * Limb \in Nat /\ carry * Limb \in Nat
    BY <1>1, <1>4
  <2>3. QED
    BY <1>1, <1>3, <1>4, <2>1, <2>2
<1> HIDE DEF hi
<1>6. Value(a) + Value(b) \in Nat
  BY WideValue
<1>7. hi \in 0..(Limb - 1) /\ hi % Limb = hi
  BY <1>4, <1>5, <1>6, WideOfProduct
<1>8. add_u128(a, b) = [lo |-> lo, hi |-> hi]
  BY <1>2, <1>7
<1>9. add_u128(a, b) \in Wide /\ Value(add_u128(a, b)) = hi * Limb + lo
  BY <1>1, <1>4, <1>7, <1>8 DEF Wide, Value
<1>10. QED
  BY <1>5, <1>9

LEMMA GeExact ==
  ASSUME NEW a \in Wide, NEW b \in Wide
  PROVE  ge_u128(a, b) <=> Value(a) >= Value(b)
<1>1. /\ a.lo \in 0..(Limb - 1) /\ a.hi \in 0..(Limb - 1)
      /\ b.lo \in 0..(Limb - 1) /\ b.hi \in 0..(Limb - 1)
      /\ Limb \in Nat /\ Limb > 0
  BY WideValue, Ranges
<1>2. \A p, q \in Nat : p > q => p * Limb >= q * Limb + Limb
  BY <1>1
<1>3. a.hi * Limb \in Nat /\ b.hi * Limb \in Nat
  BY <1>1
<1>4. CASE a.hi > b.hi
  <2>1. a.hi * Limb >= b.hi * Limb + Limb
    BY <1>1, <1>2, <1>4
  <2>2. QED
    BY <1>1, <1>3, <1>4, <2>1 DEF ge_u128, Value
<1>5. CASE b.hi > a.hi
  <2>1. b.hi * Limb >= a.hi * Limb + Limb
    BY <1>1, <1>2, <1>5
  <2>2. QED
    BY <1>1, <1>3, <1>5, <2>1 DEF ge_u128, Value
<1>6. CASE a.hi = b.hi
  BY <1>1, <1>3, <1>6 DEF ge_u128, Value
<1>7. QED
  BY <1>1, <1>4, <1>5, <1>6

LEMMA SubExact ==
  ASSUME NEW a \in Wide, NEW b \in Wide, Value(a) >= Value(b)
  PROVE  sub_u128(a, b) \in Wide /\ Value(sub_u128(a, b)) = Value(a) - Value(b)
<1> DEFINE alo == a.lo
           ahi == a.hi
           blo == b.lo
           bhi == b.hi
           lo == (alo - blo) % Limb
           borrow == IF alo < blo THEN 1 ELSE 0
           hi == ahi - bhi - borrow
<1>1. /\ alo \in 0..(Limb - 1) /\ ahi \in 0..(Limb - 1)
      /\ blo \in 0..(Limb - 1) /\ bhi \in 0..(Limb - 1)
      /\ Limb \in Nat /\ Limb > 0 /\ UInt64 = 0..(Limb - 1)
  BY WideValue, Ranges
<1>2. sub_u128(a, b) = [lo |-> lo, hi |-> hi % Limb]
  BY DEF sub_u128, U128
<1>3. Value(a) = ahi * Limb + alo /\ Value(b) = bhi * Limb + blo
  BY DEF Value
<1>4. ahi > bhi \/ (ahi = bhi /\ alo >= blo)
  BY GeExact DEF ge_u128
<1> HIDE DEF alo, ahi, blo, bhi
<1>5. lo \in 0..(Limb - 1) /\ alo - blo = lo - borrow * Limb /\ borrow \in {0, 1}
  <2>1. CASE alo >= blo
    <3>1. lo = alo - blo
      <4>1. alo - blo \in 0..(Limb - 1) /\ alo - blo = Limb * 0 + (alo - blo)
        BY <1>1, <2>1
      <4>2. QED
        BY <1>1, <4>1, DivisionUnique
    <3>2. QED
      BY <1>1, <2>1, <3>1
  <2>2. CASE ~(alo >= blo)
    <3>1. lo = alo - blo + Limb
      <4>1. alo - blo + Limb \in 0..(Limb - 1) /\ alo - blo = Limb * (-1) + (alo - blo + Limb)
        BY <1>1, <2>2
      <4>2. QED
        BY <1>1, <4>1, DivisionUnique
    <3>2. QED
      BY <1>1, <2>2, <3>1
  <2>3. QED
    BY <2>1, <2>2
<1>6. hi \in 0..(Limb - 1)
  BY <1>1, <1>4
<1> HIDE DEF lo, borrow
<1>7. Value(a) - Value(b) = hi * Limb + lo
  <2>1. (ahi - bhi - borrow) * Limb = ahi * Limb - bhi * Limb - borrow * Limb
    BY <1>1, <1>5
  <2>2. ahi * Limb \in Nat /\ bhi * Limb \in Nat /\ borrow * Limb \in Nat
    BY <1>1, <1>5
  <2>3. QED
    BY <1>1, <1>3, <1>5, <2>1, <2>2
<1> HIDE DEF hi
<1>8. hi % Limb = hi
  <2>1. hi = Limb * 0 + hi
    BY <1>1, <1>6
  <2>2. QED
    BY <1>1, <1>6, <2>1, DivisionUnique
<1>9. QED
  BY <1>1, <1>2, <1>5, <1>6, <1>7, <1>8 DEF Wide, Value

-----------------------------------------------------------------------------
(***************************************************************************)
(* Remainders of two limbs. A divisor is a denominator or a factor of one, *)
(* which leaves the top bit free: the sum of two remainders does not wrap. *)
(***************************************************************************)
Divisor == 1..kMinMagnitude

\* Equal up to multiples of m.
Congruent(a, b, m) == \E k \in Int : a = b + k * m

LEMMA AddmodExact ==
  ASSUME NEW m \in Divisor, NEW a \in 0..(m - 1), NEW b \in 0..(m - 1)
  PROVE  addmod64(a, b, m) \in 0..(m - 1) /\ Congruent(a + b, addmod64(a, b, m), m)
<1> DEFINE s == (a + b) % Limb
<1>1. m \in Nat /\ m > 0 /\ a + b \in 0..(Limb - 1) /\ Limb \in Nat /\ Limb > 0
  BY Ranges DEF Divisor
<1>2. s = a + b
  <2>1. a + b = Limb * 0 + (a + b)
    BY <1>1
  <2>2. QED
    BY <1>1, <2>1, DivisionUnique
<1>3. addmod64(a, b, m) = IF s >= m THEN s - m ELSE s
  BY DEF addmod64
<1> HIDE DEF s
<1>4. CASE s >= m
  <2>1. addmod64(a, b, m) = s - m /\ a + b = (s - m) + 1 * m /\ s - m \in 0..(m - 1)
    BY <1>1, <1>2, <1>3, <1>4
  <2>2. QED
    BY <2>1 DEF Congruent
<1>5. CASE ~(s >= m)
  <2>1. addmod64(a, b, m) = s /\ a + b = s + 0 * m /\ s \in 0..(m - 1)
    BY <1>1, <1>2, <1>3, <1>5
  <2>2. QED
    BY <2>1 DEF Congruent
<1>6. QED
  BY <1>4, <1>5

LEMMA AddmodType ==
  ASSUME NEW m \in UInt64, NEW a \in UInt64, NEW b \in UInt64
  PROVE  addmod64(a, b, m) \in UInt64
<1> DEFINE s == (a + b) % Limb
<1>1. s \in UInt64 /\ UInt64 = 0..(Limb - 1) /\ Limb \in Nat
  BY Ranges
<1>2. addmod64(a, b, m) = IF s >= m THEN s - m ELSE s
  BY DEF addmod64
<1> HIDE DEF s
<1>3. QED
  BY <1>1, <1>2

LEMMA RemainderCongruent ==
  ASSUME NEW a \in Nat, NEW m \in Nat, m > 0
  PROVE  a % m \in 0..(m - 1) /\ Congruent(a, a % m, m)
<1>1. a = m * (a \div m) + (a % m) /\ a % m \in 0..(m - 1) /\ a \div m \in Nat
  BY DivisionLaw
<1> DEFINE q == a \div m
           r == a % m
<1>2. q \in Int /\ r \in 0..(m - 1) /\ a = r + q * m
  BY <1>1
<1> HIDE DEF q, r
<1>3. Congruent(a, r, m) /\ r \in 0..(m - 1)
  BY <1>2 DEF Congruent
<1>4. QED
  BY <1>3 DEF r

\* mulmod64 is the product, up to a multiple of the divisor.
LEMMA MulmodExact ==
  ASSUME NEW m \in Divisor, NEW a \in UInt64, NEW b \in UInt64
  PROVE  mulmod64(a, b, m) \in 0..(m - 1) /\ Congruent(a * b, mulmod64(a, b, m), m)
<1> DEFINE N == MaxLimb
           V == [UInt64 -> [UInt64 -> UInt64]]
           add(y, r, x) == IF y % 2 = 1 THEN addmod64(r, x, m) ELSE r
           cell(g, y, r, x) == IF y = 0 THEN r ELSE g[y \div 2][add(y, r, x)][addmod64(x, x, m)]
           row(g, y) == [r \in UInt64 |-> [x \in UInt64 |-> cell(g, y, r, x)]]
           step == [y \in 0..N |-> [g \in [0..N -> V] |-> row(g, y)]]
           F(f) == f = [y \in UInt64 |-> row(f, y)]
           doubling[y \in UInt64] ==
             [r \in UInt64 |-> [x \in UInt64 |->
                IF y = 0 THEN r
                ELSE doubling[y \div 2][IF y % 2 = 1 THEN addmod64(r, x, m) ELSE r][addmod64(x, x, m)]]]
<1>1. /\ N \in Nat /\ UInt64 = 0..N /\ m \in Nat /\ m > 0 /\ m \in UInt64
      /\ \A r \in 0..(m - 1) : r \in UInt64
  BY Ranges DEF Divisor
<1>2. \A r, x \in UInt64 : addmod64(r, x, m) \in UInt64
  BY <1>1, AddmodType
<1>3. \A y \in 0..N : \A r, x \in UInt64 : add(y, r, x) \in UInt64
  BY <1>2
<1>4. \A y \in 0..N : y # 0 => y \div 2 \in 0..(y - 1) /\ y \div 2 \in 0..N
  BY <1>1
<1>5. mulmod64(a, b, m) = doubling[b % m][0][a % m]
  BY DEF mulmod64
<1>6. doubling = CHOOSE g : F(g)
  BY Zenon
<1> HIDE DEF add, doubling
<1>7. ASSUME NEW y \in 0..N, NEW g \in [0..N -> V] PROVE row(g, y) \in V
  <2>1. ASSUME NEW r \in UInt64, NEW x \in UInt64 PROVE cell(g, y, r, x) \in UInt64
    <3>1. CASE y = 0
      BY <3>1
    <3>2. CASE y # 0
      <4>1. g[y \div 2] \in V
        BY <1>4, <3>2
      <4>2. g[y \div 2][add(y, r, x)][addmod64(x, x, m)] \in UInt64
        BY <1>2, <1>3, <4>1
      <4>3. QED
        BY <3>2, <4>2
    <3>3. QED
      BY <3>1, <3>2
  <2> HIDE DEF cell
  <2>2. QED
    BY <2>1
<1>8. ASSUME NEW y \in 0..N, NEW g \in [0..N -> V], NEW h \in [0..N -> V],
             \A j \in 0..(y - 1) : g[j] = h[j]
      PROVE  row(g, y) = row(h, y)
  <2>1. y # 0 => g[y \div 2] = h[y \div 2]
    BY <1>4, <1>8
  <2>2. ASSUME NEW r \in UInt64, NEW x \in UInt64 PROVE cell(g, y, r, x) = cell(h, y, r, x)
    BY <2>1
  <2> HIDE DEF cell
  <2>3. QED
    BY <2>2
<1>9. [r \in UInt64 |-> [x \in UInt64 |-> r]] \in V
  OBVIOUS
<1> HIDE DEF row, V
<1>10. step \in [0..N -> [[0..N -> V] -> V]]
  BY <1>7
<1>11. \A y \in 0..N : \A g \in [0..N -> V] : step[y][g] = row(g, y)
  OBVIOUS
<1> HIDE DEF step
<1>12. LooksBack(step, N, V)
  <2> HIDE DEF N
  <2>1. ASSUME NEW y \in 0..N, NEW g \in [0..N -> V], NEW h \in [0..N -> V],
               \A j \in 0..(y - 1) : g[j] = h[j]
        PROVE  step[y][g] = step[y][h]
    <3>1. row(g, y) = row(h, y)
      BY <1>8, <2>1
    <3>2. step[y][g] = row(g, y) /\ step[y][h] = row(h, y)
      BY <1>11
    <3>3. QED
      BY <3>1, <3>2
  <2>2. QED
    BY <2>1 DEF LooksBack
<1>13. PICK f \in [0..N -> V] : Solves(f, step, N)
  <2> HIDE DEF N
  <2>1. QED
    BY <1>1, <1>9, <1>10, <1>12, RecursionExists, Zenon
<1>14. F(f)
  <2>1. \A y \in 0..N : f[y] = row(f, y)
    BY <1>11, <1>13 DEF Solves
  <2>2. QED
    BY <1>1, <2>1
<1>15. F(doubling)
  <2> HIDE DEF F
  <2>1. QED
    BY <1>6, <1>14
<1>16. \A y, r, x \in UInt64 : doubling[y][r][x] = cell(doubling, y, r, x)
  <2>1. \A y \in UInt64 : doubling[y] = row(doubling, y)
    BY <1>15, Zenon
  <2> HIDE DEF cell, F
  <2>2. ASSUME NEW y \in UInt64, NEW r \in UInt64, NEW x \in UInt64
        PROVE  doubling[y][r][x] = cell(doubling, y, r, x)
    <3>1. row(doubling, y)[r][x] = cell(doubling, y, r, x)
      BY DEF row
    <3>2. doubling[y] = row(doubling, y)
      BY <2>1
    <3>3. QED
      BY <3>1, <3>2
  <2>3. QED
    BY <2>2
<1> HIDE DEF F
<1> DEFINE Good(y) == \A r, x \in 0..(m - 1) :
             /\ doubling[y][r][x] \in 0..(m - 1)
             /\ Congruent(r + y * x, doubling[y][r][x], m)
           G == {y \in 0..N : Good(y)}
<1>17. ASSUME NEW y \in 0..N, \A j \in 0..(y - 1) : Good(j), NEW r \in 0..(m - 1), NEW x \in 0..(m - 1)
       PROVE  doubling[y][r][x] \in 0..(m - 1) /\ Congruent(r + y * x, doubling[y][r][x], m)
  <2>1. r \in UInt64 /\ x \in UInt64 /\ y \in UInt64
    BY <1>1
  <2>2. CASE y = 0
    <3>1. doubling[y][r][x] = r
      BY <1>16, <2>1, <2>2
    <3>2. r + y * x = r + 0 * m
      BY <1>1, <2>2
    <3>3. QED
      BY <3>1, <3>2 DEF Congruent
  <2>3. CASE y # 0
    <3> DEFINE h == y \div 2
               t == y % 2
               s == add(y, r, x)
               z == addmod64(x, x, m)
               v == doubling[h][s][z]
    <3>1. h \in 0..(y - 1) /\ h \in Int /\ t \in {0, 1} /\ y = 2 * h + t
      BY <1>1, <1>4, <2>3
    <3>2. s \in 0..(m - 1) /\ Congruent(r + t * x, s, m)
      <4>1. CASE t = 1
        <5>1. s = addmod64(r, x, m) /\ r + t * x = r + x
          BY <1>1, <4>1 DEF add
        <5>2. QED
          BY <5>1, AddmodExact
      <4>2. CASE t = 0
        <5>1. s = r /\ r + t * x = r + 0 * m
          BY <1>1, <4>2 DEF add
        <5>2. QED
          BY <5>1 DEF Congruent
      <4>3. QED
        BY <3>1, <4>1, <4>2
    <3>3. z \in 0..(m - 1) /\ Congruent(x + x, z, m)
      BY AddmodExact
    <3>4. doubling[y][r][x] = v
      BY <1>16, <2>1, <2>3
    <3> HIDE DEF h, t, s, z
    <3>5. v \in 0..(m - 1) /\ Congruent(s + h * z, v, m)
      BY <1>17, <3>1, <3>2, <3>3
    <3> HIDE DEF v
    <3>6. PICK k1 \in Int : r + t * x = s + k1 * m
      BY <3>2 DEF Congruent
    <3>7. PICK k2 \in Int : x + x = z + k2 * m
      BY <3>3 DEF Congruent
    <3>8. PICK k3 \in Int : s + h * z = v + k3 * m
      BY <3>5 DEF Congruent
    <3> DEFINE k == k1 + h * k2 + k3
    <3>9. r + y * x = (r + t * x) + h * (x + x)
      BY <3>1
    <3>10. (r + t * x) + h * (x + x) = (s + k1 * m) + h * (z + k2 * m)
      BY <3>6, <3>7
    <3>11. (s + k1 * m) + h * (z + k2 * m) = (s + h * z) + (k1 + h * k2) * m
      BY <1>1, <3>1, <3>2, <3>3
    <3>12. (s + h * z) + (k1 + h * k2) * m = v + (k1 + h * k2 + k3) * m
      BY <1>1, <3>1, <3>2, <3>3, <3>5, <3>8
    <3>13. k \in Int /\ r + y * x = v + k * m
      BY <3>1, <3>9, <3>10, <3>11, <3>12
    <3> HIDE DEF k
    <3>14. QED
      BY <3>4, <3>5, <3>13 DEF Congruent
  <2>4. QED
    BY <2>2, <2>3
<1>18. \A y \in 0..N : y \in G
  <2>1. ASSUME NEW y \in 0..N, \A j \in 0..(y - 1) : j \in G PROVE y \in G
    BY <1>17, <2>1
  <2> HIDE DEF G, N
  <2>2. QED
    BY <1>1, <2>1, Induction
<1> DEFINE u == a % m
           w == b % m
           p == doubling[w][0][u]
<1>19. /\ u \in 0..(m - 1) /\ Congruent(a, u, m)
       /\ w \in 0..(m - 1) /\ Congruent(b, w, m)
  <2>1. a \in Nat /\ b \in Nat
    BY <1>1
  <2>2. QED
    BY <1>1, <2>1, RemainderCongruent
<1>20. 0 \in 0..(m - 1) /\ w \in 0..N
  BY <1>1, <1>19
<1> HIDE DEF u, w
<1>21. p \in 0..(m - 1) /\ Congruent(0 + w * u, p, m)
  BY <1>18, <1>19, <1>20
<1> HIDE DEF p
<1>22. Congruent(a * b, p, m)
  <2>1. PICK k1 \in Int : a = u + k1 * m
    BY <1>19 DEF Congruent
  <2>2. PICK k2 \in Int : b = w + k2 * m
    BY <1>19 DEF Congruent
  <2>3. PICK k3 \in Int : 0 + w * u = p + k3 * m
    BY <1>21 DEF Congruent
  <2> DEFINE k == k3 + u * k2 + k1 * w + k1 * k2 * m
  <2>4. a * b = w * u + (u * k2 + k1 * w + k1 * k2 * m) * m
    BY <1>1, <1>19, <2>1, <2>2
  <2>5. w * u + (u * k2 + k1 * w + k1 * k2 * m) * m = p + (k3 + u * k2 + k1 * w + k1 * k2 * m) * m
    BY <1>1, <1>19, <1>21, <2>3
  <2>6. k \in Int /\ a * b = p + k * m
    BY <1>1, <1>19, <2>4, <2>5
  <2> HIDE DEF k
  <2>7. QED
    BY <2>6 DEF Congruent
<1>23. QED
  BY <1>5, <1>21, <1>22 DEF p, u, w

LEMMA ModExact ==
  ASSUME NEW x \in Wide, NEW m \in Divisor
  PROVE  mod_u128_u64(x, m) = Value(x) % m
<1> DEFINE u == MaxLimb % m
           t == (u + 1) % m
           h == x.hi % m
           l == x.lo % m
           p == mulmod64(h, t, m)
           s == addmod64(p, l, m)
<1>1. /\ m \in Nat /\ m > 0 /\ m \in UInt64 /\ Limb \in Nat /\ Limb >= 1
      /\ MaxLimb \in Nat /\ MaxLimb + 1 = Limb /\ UInt64 = 0..(Limb - 1)
      /\ \A r \in 0..(m - 1) : r \in UInt64
  BY Ranges DEF Divisor
<1>2. x.hi \in Nat /\ x.lo \in Nat
  BY WideValue
<1>3. mod_u128_u64(x, m) = IF m = 1 THEN 0 ELSE s
  BY DEF mod_u128_u64
<1>4. u \in 0..(m - 1) /\ Congruent(MaxLimb, u, m)
  BY <1>1, RemainderCongruent
<1> HIDE DEF u
<1>5. t \in 0..(m - 1) /\ Congruent(u + 1, t, m)
  <2>1. u + 1 \in Nat
    BY <1>1, <1>4
  <2>2. QED
    BY <1>1, <2>1, RemainderCongruent
<1> HIDE DEF t
<1>6. h \in 0..(m - 1) /\ Congruent(x.hi, h, m) /\ l \in 0..(m - 1) /\ Congruent(x.lo, l, m)
  BY <1>1, <1>2, RemainderCongruent
<1> HIDE DEF h, l
<1>7. p \in 0..(m - 1) /\ Congruent(h * t, p, m)
  BY <1>1, <1>5, <1>6, MulmodExact
<1> HIDE DEF p
<1>8. s \in 0..(m - 1) /\ Congruent(p + l, s, m)
  BY <1>6, <1>7, AddmodExact
<1> HIDE DEF s
<1>9. \E k \in Int : Value(x) = s + k * m
  <2>1. PICK k1 \in Int : MaxLimb = u + k1 * m
    BY <1>4 DEF Congruent
  <2>2. PICK k2 \in Int : u + 1 = t + k2 * m
    BY <1>5 DEF Congruent
  <2>3. PICK k3 \in Int : x.hi = h + k3 * m
    BY <1>6 DEF Congruent
  <2>4. PICK k4 \in Int : x.lo = l + k4 * m
    BY <1>6 DEF Congruent
  <2>5. PICK k5 \in Int : h * t = p + k5 * m
    BY <1>7 DEF Congruent
  <2>6. PICK k6 \in Int : p + l = s + k6 * m
    BY <1>8 DEF Congruent
  <2> DEFINE n == k1 + k2
             k == k4 + k5 + k6 + h * n + k3 * t + k3 * n * m
  <2>7. Limb = t + n * m /\ n \in Int
    BY <1>1, <1>4, <1>5, <2>1, <2>2
  <2> HIDE DEF n
  <2>8. x.hi * Limb = (h + k3 * m) * (t + n * m)
    BY <2>3, <2>7
  <2>9. (h + k3 * m) * (t + n * m) = h * t + (h * n + k3 * t + k3 * n * m) * m
    BY <1>1, <1>5, <1>6, <2>7
  <2>10. k \in Int /\ h * t + (h * n + k3 * t + k3 * n * m) * m + (l + k4 * m) = s + k * m
    BY <1>1, <1>5, <1>6, <1>7, <1>8, <2>5, <2>6, <2>7
  <2>11. Value(x) = s + k * m
    BY <2>4, <2>8, <2>9, <2>10 DEF Value
  <2> HIDE DEF k
  <2>12. QED
    BY <2>10, <2>11
<1>10. PICK k \in Int : Value(x) = s + k * m
  BY <1>9
<1>11. Value(x) \in Int /\ Value(x) = m * k + s
  BY <1>1, <1>8, <1>10, WideValue
<1>12. Value(x) % m = s
  BY <1>1, <1>8, <1>11, DivisionUnique
<1>13. m = 1 => s = 0
  BY <1>8
<1>14. QED
  BY <1>3, <1>12, <1>13

\* The greatest common divisor of two limbs and a divisor.
LEMMA WideGcd ==
  ASSUME NEW x \in Wide, NEW m \in Divisor
  PROVE  IsGcd(gcd_u128_u64(x, m), Value(x), m)
<1> DEFINE r == Value(x) % m
<1>1. m \in Nat /\ m > 0 /\ m \in UInt64 /\ \A n \in 0..(m - 1) : n \in UInt64
  BY Ranges DEF Divisor
<1>2. Value(x) \in Nat /\ r \in 0..(m - 1)
  BY <1>1, WideValue
<1>3. gcd_u128_u64(x, m) = gcd_u64(m, r)
  BY <1>1, ModExact DEF gcd_u128_u64
<1>4. IsGcd(gcd_u64(m, r), m, r) /\ gcd_u64(m, r) \in Nat
  <2> HIDE DEF r
  <2>1. IsGcd(gcd_u64(m, r), m, r)
    BY <1>1, <1>2, GcdIsGcd
  <2>2. QED
    BY <2>1 DEF IsGcd
<1>5. QED
  BY <1>1, <1>2, <1>3, <1>4, IsGcdStep

-----------------------------------------------------------------------------
(***************************************************************************)
(* Long division. After n rounds the quotient and the remainder are those  *)
(* of the number that the n highest bits form.                             *)
(***************************************************************************)
\* Powers of two that differ by one factor.
LEMMA PowerStep ==
  ASSUME NEW i \in 0..(4 * HalfBits), i # 4 * HalfBits
  PROVE  /\ PowerOfTwo[i] \in Nat /\ PowerOfTwo[i] > 0
         /\ PowerOfTwo[i + 1] = 2 * PowerOfTwo[i]
<1> DEFINE N == 4 * HalfBits
<1>1. N \in Nat
  BY HalfBitsAssumption
<1>2. ASSUME NEW k \in 0..N, \A j \in 0..(k - 1) : PowerOfTwo[j] > 0 PROVE PowerOfTwo[k] > 0
  <2>1. CASE k = 0
    BY <2>1, PowerRecursion
  <2>2. CASE k # 0
    <3>1. k - 1 \in 0..(k - 1) /\ k - 1 \in 0..N
      BY <1>1, <2>2
    <3>2. PowerOfTwo[k] = 2 * PowerOfTwo[k - 1] /\ PowerOfTwo[k - 1] \in Nat /\ PowerOfTwo[k - 1] > 0
      BY <1>2, <2>2, <3>1, PowerRecursion
    <3>3. QED
      BY <3>2
  <2>3. QED
    BY <2>1, <2>2
<1>3. \A k \in 0..N : PowerOfTwo[k] > 0
  <2> DEFINE G == {k \in 0..N : PowerOfTwo[k] > 0}
  <2>1. ASSUME NEW k \in 0..N, \A j \in 0..(k - 1) : j \in G PROVE k \in G
    BY <1>2, <2>1
  <2>2. \A k \in 0..N : k \in G
    <3> HIDE DEF G, N
    <3>1. QED
      BY <1>1, <2>1, Induction
  <2>3. QED
    BY <2>2
<1>4. i + 1 \in 0..N /\ i + 1 # 0 /\ (i + 1) - 1 = i
  BY <1>1
<1>5. PowerOfTwo[i + 1] = 2 * PowerOfTwo[i]
  BY <1>4, PowerRecursion
<1>6. QED
  BY <1>3, <1>5, PowerRecursion

\* A higher bit of two limbs,
LEMMA HighBit ==
  ASSUME NEW hi \in Nat, NEW l \in Nat, NEW lo \in 0..(l - 1), NEW p \in Nat, p > 0
  PROVE  (hi * l + lo) \div (p * l) = hi \div p
<1> DEFINE q == hi \div p
           r == hi % p
<1>1. q \in Nat /\ r \in 0..(p - 1) /\ hi = p * q + r
  BY DivisionLaw
<1> HIDE DEF q, r
<1>2. hi * l + lo = (p * l) * q + (r * l + lo)
  BY <1>1
<1>3. l > 0 /\ p * l \in Nat /\ p * l > 0
  OBVIOUS
<1>4. r * l + lo \in 0..(p * l - 1)
  <2>1. r * l <= (p - 1) * l
    BY <1>1
  <2>2. (p - 1) * l = p * l - l /\ r * l \in Nat
    BY <1>1
  <2>3. QED
    BY <1>3, <2>1, <2>2
<1> DEFINE n == hi * l + lo
           d == p * l
           s == r * l + lo
<1>5. n \in Int /\ d \in Nat /\ d > 0 /\ s \in 0..(d - 1) /\ n = d * q + s
  BY <1>1, <1>2, <1>3, <1>4
<1>6. n \div d = q
  <2> HIDE DEF n, d, s
  <2>1. QED
    BY <1>1, <1>5, DivisionUnique
<1>7. QED
  BY <1>6 DEF q

\* and a lower one.
LEMMA LowBit ==
  ASSUME NEW hi \in Nat, NEW lo \in Nat, NEW w \in Nat, NEW p \in Nat, p > 0,
         NEW n \in Nat, n = hi * ((2 * w) * p) + lo
  PROVE  n \div p = 2 * (hi * w) + (lo \div p)
<1> DEFINE q == lo \div p
           r == lo % p
           t == 2 * (hi * w) + q
<1>1. q \in Nat /\ r \in 0..(p - 1) /\ lo = p * q + r
  BY DivisionLaw
<1> HIDE DEF q, r
<1>2. n \in Int /\ t \in Int /\ n = p * t + r
  BY <1>1
<1>3. n \div p = t
  <2> HIDE DEF t
  <2>1. QED
    BY <1>1, <1>2, DivisionUnique
<1>4. QED
  BY <1>3 DEF q

\* The bit that bit_of reads.
LEMMA BitExact ==
  ASSUME NEW x \in Wide, NEW i \in 0..(4 * HalfBits), i # 4 * HalfBits
  PROVE  bit_of(x, i) = (Value(x) \div PowerOfTwo[i]) % 2
<1> DEFINE hi == x.hi
           lo == x.lo
<1>1. /\ hi \in Nat /\ lo \in 0..(Limb - 1) /\ lo \in Nat /\ Value(x) = hi * Limb + lo
      /\ Limb \in Nat /\ Limb = PowerOfTwo[2 * HalfBits] /\ HalfBits \in Nat
  BY WideValue, Widths, HalfBitsAssumption DEF Value
<1>2. bit_of(x, i) = IF i >= 2 * HalfBits THEN (hi \div PowerOfTwo[i - 2 * HalfBits]) % 2
                     ELSE (lo \div PowerOfTwo[i]) % 2
  BY DEF bit_of
<1> HIDE DEF hi, lo
<1>3. CASE i >= 2 * HalfBits
  <2> DEFINE j == i - 2 * HalfBits
             p == PowerOfTwo[j]
  <2>1. j \in 0..(4 * HalfBits) /\ j # 4 * HalfBits /\ j + 2 * HalfBits = i /\ 2 * HalfBits \in Nat
        /\ j \in Nat /\ j + 2 * HalfBits <= 4 * HalfBits
    BY <1>1, <1>3, HalfBitsAssumption
  <2> HIDE DEF j
  <2>2. p \in Nat /\ p > 0
    BY <2>1, PowerStep
  <2>3. PowerOfTwo[i] = p * Limb
    BY <1>1, <2>1, PowerSum
  <2> HIDE DEF p
  <2>4. Value(x) \div PowerOfTwo[i] = hi \div p
    <3>1. (hi * Limb + lo) \div (p * Limb) = hi \div p
      <4>1. hi \in Nat /\ Limb \in Nat /\ lo \in 0..(Limb - 1) /\ p \in Nat /\ p > 0
        BY <1>1, <2>2
      <4>2. QED
        BY <4>1, HighBit
    <3>2. QED
      BY <1>1, <2>3, <3>1, Zenon
  <2>5. QED
    BY <1>2, <1>3, <2>4 DEF p, j
<1>4. CASE ~(i >= 2 * HalfBits)
  <2> DEFINE j == 2 * HalfBits - i
             p == PowerOfTwo[i]
             w == PowerOfTwo[j - 1]
  <2>1. /\ j \in 0..(4 * HalfBits) /\ j # 0 /\ j + i = 2 * HalfBits /\ j \in Nat /\ i \in Nat
        /\ j + i <= 4 * HalfBits /\ j - 1 \in 0..(4 * HalfBits) /\ j - 1 # 4 * HalfBits
    BY <1>1, <1>4, HalfBitsAssumption
  <2> HIDE DEF j
  <2>2. p \in Nat /\ p > 0 /\ w \in Nat /\ PowerOfTwo[j] = 2 * w
    BY <2>1, PowerStep, PowerRecursion
  <2>3. Limb = (2 * w) * p
    BY <1>1, <2>1, <2>2, PowerSum
  <2> HIDE DEF p, w
  <2>4. (Value(x) \div p) % 2 = (lo \div p) % 2
    <3>1. hi \in Nat /\ lo \in Nat /\ w \in Nat /\ p \in Nat /\ p > 0 /\ Value(x) \in Nat
      BY <1>1, <2>2, WideValue
    <3>2. Value(x) = hi * ((2 * w) * p) + lo
      BY <1>1, <2>3, Zenon
    <3>3. Value(x) \div p = 2 * (hi * w) + (lo \div p)
      BY <3>1, <3>2, LowBit
    <3>4. hi * w \in Nat /\ lo \div p \in Nat
      BY <3>1, DivisionLaw
    <3>5. \A c, q \in Nat : (2 * c + q) % 2 = q % 2
      OBVIOUS
    <3>6. QED
      BY <3>3, <3>4, <3>5
  <2>5. QED
    BY <1>2, <1>4, <2>4 DEF p
<1>5. QED
  BY <1>3, <1>4

\* The quotient of the highest bits and one more.
LEMMA TopStep ==
  ASSUME NEW n \in Nat, NEW p \in Nat, p > 0
  PROVE  n \div p = 2 * (n \div (2 * p)) + ((n \div p) % 2) /\ (n \div p) % 2 \in {0, 1}
<1> DEFINE q == n \div (2 * p)
           r == n % (2 * p)
           b == IF r >= p THEN 1 ELSE 0
           s == r - b * p
<1>1. q \in Nat /\ r \in 0..(2 * p - 1) /\ n = (2 * p) * q + r
  <2>1. 2 * p \in Nat /\ 2 * p > 0
    OBVIOUS
  <2> DEFINE d == 2 * p
  <2>2. n \div d \in Nat /\ n % d \in 0..(d - 1) /\ n = d * (n \div d) + (n % d)
    <3> HIDE DEF d
    <3>1. d \in Nat /\ d > 0
      BY <2>1 DEF d
    <3>2. QED
      BY <3>1, DivisionLaw
  <2>3. QED
    BY <2>2
<1> HIDE DEF q, r
<1>2. b \in {0, 1} /\ s \in 0..(p - 1) /\ r = b * p + s
  BY <1>1
<1> HIDE DEF b, s
<1>3. n = p * (2 * q + b) + s
  BY <1>1, <1>2
<1> DEFINE t == 2 * q + b
<1>4. t \in Int /\ n = p * t + s
  BY <1>1, <1>2, <1>3
<1>5. n \div p = t
  <2> HIDE DEF t
  <2>1. QED
    BY <1>2, <1>4, DivisionUnique
<1>6. t % 2 = b
  BY <1>1, <1>2
<1>7. QED
  BY <1>2, <1>5, <1>6 DEF q

\* A quotient of two limbs that is doubled, with a bit that comes in.
LEMMA ShiftExact ==
  ASSUME NEW lo \in 0..(Limb - 1), NEW hi \in 0..(Limb - 1), NEW bit \in {0, 1},
         2 * (hi * Limb + lo) + bit < Limb * Limb
  PROVE  LET q == U128((lo * 2 + bit) % Limb, ((hi * 2) + (lo \div kMinMagnitude)) % Limb)
         IN  q \in Wide /\ Value(q) = 2 * (hi * Limb + lo) + bit
<1> DEFINE c == lo \div kMinMagnitude
           l == (lo * 2 + bit) % Limb
           h == hi * 2 + c
<1>1. /\ kMinMagnitude \in Nat /\ kMinMagnitude >= 2 /\ Limb = 2 * kMinMagnitude /\ Limb \in Nat
      /\ Limb > 0 /\ UInt64 = 0..(Limb - 1)
  BY Ranges
<1>2. c \in {0, 1} /\ l \in 0..(Limb - 1) /\ lo * 2 + bit = c * Limb + l
  <2>1. CASE lo >= kMinMagnitude
    <3>1. c = 1
      <4>1. lo - kMinMagnitude \in 0..(kMinMagnitude - 1) /\ lo = kMinMagnitude * 1 + (lo - kMinMagnitude)
        BY <1>1, <2>1
      <4>2. lo \in Int /\ kMinMagnitude > 0
        BY <1>1
      <4>3. QED
        BY <1>1, <4>1, <4>2, DivisionUnique
    <3>2. l = lo * 2 + bit - Limb
      <4>1. lo * 2 + bit - Limb \in 0..(Limb - 1) /\ lo * 2 + bit = Limb * 1 + (lo * 2 + bit - Limb)
        BY <1>1, <2>1
      <4>2. lo * 2 + bit \in Int
        OBVIOUS
      <4>3. QED
        BY <1>1, <4>1, <4>2, DivisionUnique
    <3>3. QED
      BY <1>1, <2>1, <3>1, <3>2
  <2>2. CASE ~(lo >= kMinMagnitude)
    <3>1. c = 0
      <4>1. lo \in 0..(kMinMagnitude - 1) /\ lo = kMinMagnitude * 0 + lo
        BY <1>1, <2>2
      <4>2. lo \in Int /\ kMinMagnitude > 0
        BY <1>1
      <4>3. QED
        BY <1>1, <4>1, <4>2, DivisionUnique
    <3>2. l = lo * 2 + bit
      <4>1. lo * 2 + bit \in 0..(Limb - 1) /\ lo * 2 + bit = Limb * 0 + (lo * 2 + bit)
        BY <1>1, <2>2
      <4>2. lo * 2 + bit \in Int
        OBVIOUS
      <4>3. QED
        BY <1>1, <4>1, <4>2, DivisionUnique
    <3>3. QED
      BY <1>1, <2>2, <3>1, <3>2
  <2>3. QED
    BY <2>1, <2>2
<1> HIDE DEF c, l
<1>3. 2 * (hi * Limb + lo) + bit = h * Limb + l /\ h \in Nat
  <2>1. (hi * 2 + c) * Limb = 2 * (hi * Limb) + c * Limb
    BY <1>1, <1>2
  <2>2. hi * Limb \in Nat /\ c * Limb \in Nat
    BY <1>1, <1>2
  <2>3. QED
    BY <1>1, <1>2, <2>1, <2>2
<1>4. 2 * (hi * Limb + lo) + bit \in Nat
  BY <1>1
<1> HIDE DEF h
<1>5. h \in 0..(Limb - 1) /\ h % Limb = h
  BY <1>2, <1>3, <1>4, WideOfProduct
<1> DEFINE q == [lo |-> l, hi |-> h]
<1>6. q \in Wide /\ Value(q) = 2 * (hi * Limb + lo) + bit
  BY <1>1, <1>2, <1>3, <1>5 DEF Wide, Value
<1>7. U128(l, h % Limb) = q
  BY <1>5 DEF U128
<1>8. QED
  BY <1>6, <1>7 DEF l, h, c

\* div_u128_u64 is the quotient.
LEMMA DivExact ==
  ASSUME NEW x \in Wide, NEW d \in Divisor
  PROVE  div_u128_u64(x, d) \in Wide /\ Value(div_u128_u64(x, d)) = Value(x) \div d
<1> DEFINE N == 4 * HalfBits
           V == [q : [lo : Int, hi : Int], r : Int]
           rem(s, n) == ((s.r * 2) % Limb) + bit_of(x, N - n)
           lowest(s, n) == IF rem(s, n) >= d THEN 1 ELSE 0
           next(s, n) == [q |-> U128((s.q.lo * 2 + lowest(s, n)) % Limb,
                                     ((s.q.hi * 2) + (s.q.lo \div kMinMagnitude)) % Limb),
                          r |-> rem(s, n) - lowest(s, n) * d]
           start == [q |-> U128(0, 0), r |-> 0]
           cell(g, n) == IF n = 0 THEN start ELSE next(g[n - 1], n)
           step == [n \in 0..N |-> [g \in [0..N -> V] |-> cell(g, n)]]
           F(f) == f = [n \in 0..N |-> cell(f, n)]
           round[n \in 0..(4 * HalfBits)] ==
             IF n = 0 THEN [q |-> U128(0, 0), r |-> 0]
             ELSE LET s   == round[n - 1]
                      r   == ((s.r * 2) % Limb) + bit_of(x, 4 * HalfBits - n)
                      bit == IF r >= d THEN 1 ELSE 0
                  IN  [q |-> U128((s.q.lo * 2 + bit) % Limb,
                                  ((s.q.hi * 2) + (s.q.lo \div kMinMagnitude)) % Limb),
                       r |-> r - bit * d]
<1>1. /\ N \in Nat /\ d \in Nat /\ d > 0 /\ d <= kMinMagnitude /\ Limb = 2 * kMinMagnitude
      /\ Limb \in Nat /\ Limb > 0 /\ kMinMagnitude \in Nat /\ kMinMagnitude > 0
      /\ UInt64 = 0..(Limb - 1)
  BY Ranges, HalfBitsAssumption DEF Divisor
<1>2. div_u128_u64(x, d) = round[N].q
  BY DEF div_u128_u64
<1>3. round = CHOOSE g : F(g)
  BY Zenon
<1> HIDE DEF round
<1>4. \A n \in 0..N : n # 0 =>
        /\ N - n \in 0..N /\ N - n # N
        /\ bit_of(x, N - n) = (Value(x) \div PowerOfTwo[N - n]) % 2
        /\ bit_of(x, N - n) \in {0, 1}
  <2>1. ASSUME NEW n \in 0..N, n # 0
        PROVE  /\ N - n \in 0..N /\ N - n # N
               /\ bit_of(x, N - n) = (Value(x) \div PowerOfTwo[N - n]) % 2
               /\ bit_of(x, N - n) \in {0, 1}
    <3>1. N - n \in 0..N /\ N - n # N
      BY <1>1, <2>1
    <3>2. bit_of(x, N - n) = (Value(x) \div PowerOfTwo[N - n]) % 2
      BY <3>1, BitExact
    <3>3. Value(x) \in Nat /\ PowerOfTwo[N - n] \in Nat /\ PowerOfTwo[N - n] > 0
      BY <3>1, WideValue, PowerStep
    <3>4. (Value(x) \div PowerOfTwo[N - n]) % 2 \in {0, 1}
      BY <3>3, TopStep
    <3>5. QED
      BY <3>1, <3>2, <3>4
  <2>2. QED
    BY <2>1
<1>5. ASSUME NEW s \in V, NEW n \in 0..N, n # 0 PROVE next(s, n) \in V
  <2> DEFINE r == rem(s, n)
             b == lowest(s, n)
             l == (s.q.lo * 2 + b) % Limb
             h == ((s.q.hi * 2) + (s.q.lo \div kMinMagnitude)) % Limb
             e == r - b * d
  <2>1. s.q.lo \in Int /\ s.q.hi \in Int /\ s.r \in Int
    OBVIOUS
  <2>2. r \in Int /\ b \in Int
    <3>1. bit_of(x, N - n) \in Int
      BY <1>4, <1>5
    <3>2. QED
      BY <1>1, <2>1, <3>1
  <2>3. next(s, n) = [q |-> [lo |-> l, hi |-> h], r |-> e]
    BY DEF U128
  <2> HIDE DEF r, b
  <2>4. l \in Int /\ h \in Int /\ e \in Int
    BY <1>1, <2>1, <2>2
  <2> HIDE DEF l, h, e, next
  <2>5. QED
    BY <2>3, <2>4
<1>6. start \in V
  BY DEF U128
<1> HIDE DEF next, start
<1>7. ASSUME NEW n \in 0..N, NEW g \in [0..N -> V] PROVE cell(g, n) \in V
  <2>1. n # 0 => n - 1 \in 0..N
    BY <1>1
  <2>2. n # 0 => g[n - 1] \in V
    BY <2>1
  <2> HIDE DEF V, N
  <2>3. QED
    BY <1>5, <1>6, <2>2
<1>8. ASSUME NEW n \in 0..N, NEW g \in [0..N -> V], NEW h \in [0..N -> V],
             \A j \in 0..(n - 1) : g[j] = h[j]
      PROVE  cell(g, n) = cell(h, n)
  <2>1. n # 0 => n - 1 \in 0..(n - 1)
    BY <1>1
  <2>2. n # 0 => g[n - 1] = h[n - 1]
    BY <1>8, <2>1
  <2>3. QED
    BY <2>2
<1> HIDE DEF V, cell
<1>9. step \in [0..N -> [[0..N -> V] -> V]]
  BY <1>7
<1>10. \A n \in 0..N : \A g \in [0..N -> V] : step[n][g] = cell(g, n)
  OBVIOUS
<1> HIDE DEF step
<1>11. LooksBack(step, N, V)
  <2> HIDE DEF N
  <2>1. ASSUME NEW n \in 0..N, NEW g \in [0..N -> V], NEW h \in [0..N -> V],
               \A j \in 0..(n - 1) : g[j] = h[j]
        PROVE  step[n][g] = step[n][h]
    <3>1. cell(g, n) = cell(h, n)
      BY <1>8, <2>1
    <3>2. step[n][g] = cell(g, n) /\ step[n][h] = cell(h, n)
      BY <1>10
    <3>3. QED
      BY <3>1, <3>2
  <2>2. QED
    BY <2>1 DEF LooksBack
<1>12. PICK f \in [0..N -> V] : Solves(f, step, N)
  <2> HIDE DEF N
  <2>1. QED
    BY <1>1, <1>6, <1>9, <1>11, RecursionExists, Zenon
<1>13. F(f)
  <2>1. \A n \in 0..N : f[n] = cell(f, n)
    BY <1>10, <1>12 DEF Solves
  <2>2. QED
    BY <2>1
<1>14. F(round)
  <2> HIDE DEF F
  <2>1. QED
    BY <1>3, <1>13
<1>15. \A n \in 0..N : round[n] = IF n = 0 THEN start ELSE next(round[n - 1], n)
  <2>1. \A n \in 0..N : round[n] = cell(round, n)
    BY <1>14, Zenon
  <2>2. QED
    BY <2>1 DEF cell
<1> HIDE DEF F
<1> DEFINE X == Value(x)
           top(n) == X \div PowerOfTwo[N - n]
           Sound(s, n) == /\ s.q \in Wide /\ s.r \in 0..(d - 1)
                          /\ top(n) = d * Value(s.q) + s.r
           G == {n \in 0..N : Sound(round[n], n)}
<1>16. X \in Nat /\ X < Limb * Limb
  <2>1. x.hi <= Limb - 1 /\ x.lo <= Limb - 1 /\ x.hi \in Nat /\ x.lo \in Nat /\ X = x.hi * Limb + x.lo
    BY <1>1, WideValue DEF Value
  <2>2. x.hi * Limb <= (Limb - 1) * Limb
    BY <1>1, <2>1
  <2>3. (Limb - 1) * Limb = Limb * Limb - Limb /\ x.hi * Limb \in Nat /\ Limb * Limb \in Nat
    BY <1>1, <2>1
  <2> HIDE DEF X
  <2>4. QED
    BY <1>1, <2>1, <2>2, <2>3
<1> HIDE DEF X
<1>17. PowerOfTwo[0] = 1 /\ PowerOfTwo[N] = Limb * Limb /\ 0 \in 0..N
  <2>1. 0 \in 0..N /\ HalfBits \in Nat /\ 2 * HalfBits \in Nat /\ 2 * HalfBits + 2 * HalfBits = N
    BY <1>1, HalfBitsAssumption
  <2>2. PowerOfTwo[0] = 1
    BY <2>1, PowerRecursion
  <2>3. PowerOfTwo[2 * HalfBits + 2 * HalfBits] = PowerOfTwo[2 * HalfBits] * PowerOfTwo[2 * HalfBits]
    <3>1. 2 * HalfBits + 2 * HalfBits <= 4 * HalfBits
      BY <2>1
    <3>2. QED
      BY <2>1, <3>1, PowerSum
  <2>4. PowerOfTwo[N] = Limb * Limb
    BY <2>1, <2>3, Widths
  <2>5. QED
    BY <2>1, <2>2, <2>4
<1>18. ASSUME NEW n \in 0..N, \A j \in 0..(n - 1) : Sound(round[j], j) PROVE Sound(round[n], n)
  <2>1. CASE n = 0
    <3>1. top(n) = 0
      <4>1. top(n) = X \div (Limb * Limb)
        BY <1>1, <1>17, <2>1
      <4>2. Limb * Limb \in Nat /\ Limb * Limb > 0
        BY <1>1
      <4>3. X = (Limb * Limb) * 0 + X /\ X \in 0..(Limb * Limb - 1)
        BY <1>16, <4>2
      <4> DEFINE m == Limb * Limb
      <4>4. m \in Nat /\ m > 0 /\ X \in 0..(m - 1) /\ X = m * 0 + X
        BY <4>2, <4>3
      <4>5. X \div m = 0
        <5> HIDE DEF m
        <5>1. QED
          BY <1>16, <4>4, DivisionUnique
      <4>6. QED
        BY <4>1, <4>5
    <3>2. round[n] = start
      BY <1>15, <2>1
    <3>3. start.q \in Wide /\ start.r = 0 /\ Value(start.q) = 0
      BY <1>1 DEF start, U128, Wide, Value
    <3> HIDE DEF top
    <3>4. QED
      BY <1>1, <3>1, <3>2, <3>3
  <2>2. CASE n # 0
    <3> DEFINE p == PowerOfTwo[N - n]
               t == top(n - 1)
               s == round[n - 1]
               Q == Value(s.q)
               a == bit_of(x, N - n)
               r == rem(s, n)
               b == lowest(s, n)
               lo == s.q.lo
               hi == s.q.hi
               q2 == U128((lo * 2 + b) % Limb, ((hi * 2) + (lo \div kMinMagnitude)) % Limb)
    <3>1. n - 1 \in 0..(n - 1) /\ n - 1 \in 0..N /\ N - n \in 0..N /\ N - n # N /\ N - (n - 1) = (N - n) + 1
      BY <1>1, <2>2
    <3>2. p \in Nat /\ p > 0 /\ PowerOfTwo[N - (n - 1)] = 2 * p
      BY <3>1, PowerStep
    <3>3. a = (X \div p) % 2 /\ a \in {0, 1}
      BY <1>4, <2>2 DEF X
    <3>4. top(n) = 2 * t + a /\ top(n) <= X /\ t \in Nat
      <4>1. top(n) = X \div p /\ t = X \div (2 * p)
        BY <3>2
      <4> HIDE DEF p, t, top
      <4>2. X \div p = 2 * (X \div (2 * p)) + ((X \div p) % 2)
        BY <1>16, <3>2, TopStep
      <4>3. X \div p <= X
        BY <1>16, <3>2, DivisionLaw
      <4>4. 2 * p \in Nat /\ 2 * p > 0
        BY <3>2
      <4>5. X \div (2 * p) \in Nat
        BY <1>16, <4>4, DivisionLaw
      <4>6. QED
        BY <3>3, <4>1, <4>2, <4>3, <4>5
    <3>5. round[n] = [q |-> q2, r |-> r - b * d]
      <4>1. round[n] = next(s, n)
        BY <1>15, <2>2
      <4>2. QED
        BY <4>1 DEF next
    <3>6. s.q \in Wide /\ s.r \in 0..(d - 1) /\ t = d * Q + s.r
      BY <1>18, <3>1
    <3>7. lo \in 0..(Limb - 1) /\ hi \in 0..(Limb - 1) /\ Q = hi * Limb + lo /\ Q \in Nat
      BY <3>6, WideValue DEF Value
    <3>8. r = s.r * 2 + a
      <4>1. s.r * 2 \in 0..(Limb - 1) /\ s.r * 2 = Limb * 0 + s.r * 2
        BY <1>1, <3>6
      <4> DEFINE w == s.r * 2
      <4>2. w \in 0..(Limb - 1) /\ w = Limb * 0 + w
        BY <4>1
      <4>3. w % Limb = w
        <5> HIDE DEF w
        <5>1. QED
          BY <1>1, <4>2, DivisionUnique
      <4>4. QED
        BY <4>3
    <3>9. b = IF r >= d THEN 1 ELSE 0
      OBVIOUS
    <3> HIDE DEF a, r, b, Q, lo, hi, t, top
    <3>10. b \in {0, 1} /\ r - b * d \in 0..(d - 1)
      <4>1. CASE r >= d
        BY <1>1, <3>3, <3>6, <3>8, <3>9, <4>1
      <4>2. CASE ~(r >= d)
        BY <1>1, <3>3, <3>6, <3>8, <3>9, <4>2
      <4>3. QED
        BY <4>1, <4>2
    <3>11. top(n) = d * (2 * Q + b) + (r - b * d)
      <4>1. d * (2 * Q + b) = 2 * (d * Q) + b * d
        BY <1>1, <3>7, <3>10
      <4> DEFINE c == d * Q
                 m == b * d
                 k == s.r
      <4>2. c \in Int /\ m \in Int /\ k \in Int
        BY <1>1, <3>6, <3>7, <3>10
      <4>3. top(n) = 2 * t + a /\ t = c + k /\ r = k * 2 + a /\ a \in Int
        BY <3>3, <3>4, <3>6, <3>8
      <4> HIDE DEF c, m, k
      <4>4. top(n) = (2 * c + m) + (r - m)
        BY <4>2, <4>3
      <4>5. QED
        BY <4>1, <4>4 DEF c, m
    <3>12. 2 * Q + b < Limb * Limb
      <4>1. d * (2 * Q + b) >= 2 * Q + b
        BY <1>1, <3>7, <3>10
      <4>2. d * (2 * Q + b) \in Nat /\ 2 * Q + b \in Nat
        BY <1>1, <3>7, <3>10
      <4> DEFINE e == r - b * d
      <4>3. e \in Nat
        BY <1>1, <3>10
      <4> DEFINE c == d * (2 * Q + b)
      <4>4. top(n) = c + e /\ c \in Nat /\ c >= 2 * Q + b
        BY <3>11, <4>1, <4>2
      <4> HIDE DEF e, c
      <4>5. Limb * Limb \in Nat
        BY <1>1
      <4>6. QED
        BY <1>16, <3>4, <4>2, <4>3, <4>4, <4>5
    <3>13. q2 \in Wide /\ Value(q2) = 2 * Q + b
      <4>1. 2 * (hi * Limb + lo) + b < Limb * Limb
        BY <3>7, <3>12
      <4>2. q2 \in Wide /\ Value(q2) = 2 * (hi * Limb + lo) + b
        BY <3>7, <3>10, <4>1, ShiftExact
      <4>3. QED
        BY <3>7, <4>2
    <3> HIDE DEF q2, s
    <3> DEFINE e == r - b * d
    <3>14. round[n].q = q2 /\ round[n].r = e
      BY <3>5
    <3>15. e \in 0..(d - 1) /\ top(n) = d * (2 * Q + b) + e
      BY <3>10, <3>11
    <3> HIDE DEF e
    <3>16. QED
      BY <3>13, <3>14, <3>15
  <2>3. QED
    BY <2>1, <2>2
<1>19. N \in G
  <2>1. ASSUME NEW n \in 0..N, \A j \in 0..(n - 1) : j \in G PROVE n \in G
    BY <1>18, <2>1
  <2>2. N \in 0..N
    BY <1>1
  <2> HIDE DEF G, N
  <2>3. QED
    BY <1>1, <2>1, <2>2, Induction
<1>20. Sound(round[N], N)
  BY <1>19
<1>21. top(N) = X
  <2>1. top(N) = X \div 1
    BY <1>1, <1>17
  <2>2. QED
    BY <1>16, <2>1
<1> DEFINE Q == Value(round[N].q)
           r == round[N].r
<1>22. Q \in Int /\ r \in 0..(d - 1) /\ X = d * Q + r /\ round[N].q \in Wide
  BY <1>20, <1>21, WideValue
<1> HIDE DEF Q, r
<1>23. X \div d = Q
  BY <1>1, <1>16, <1>22, DivisionUnique
<1>24. QED
  BY <1>2, <1>22, <1>23 DEF Q, X

-----------------------------------------------------------------------------
(***************************************************************************)
(* From a reduced numerator and denominator to the result.                 *)
(***************************************************************************)
Signed(neg, n) == IF neg THEN -n ELSE n

Fits(neg, n, d) == d <= kMax /\ n <= (IF neg THEN kMinMagnitude ELSE kMax)

\* n / d in lowest terms, with a sign, is the fraction f1 / f2.
Reduced(neg, n, d, f1, f2) ==
  /\ n \in Nat /\ d \in Nat /\ d > 0 /\ Coprime(n, d)
  /\ f1 \in Int /\ f2 \in Nat /\ f2 > 0
  /\ f1 * d = Signed(neg, n) * f2

\* A fraction is representable if its lowest terms fit.
LEMMA RepresentableWhen ==
  ASSUME NEW neg \in BOOLEAN, NEW n, NEW d, NEW f1, NEW f2, Reduced(neg, n, d, f1, f2)
  PROVE  Representable(<<f1, f2>>) <=> Fits(neg, n, d)
<1> DEFINE v == Signed(neg, n)
<1>1. /\ n \in Nat /\ d \in Nat /\ d > 0 /\ f1 \in Int /\ f2 \in Nat /\ f2 > 0
      /\ v \in Int /\ f1 * d = v * f2 /\ Coprime(v, d)
  BY CoprimeNegated DEF Reduced, Signed
<1>2. /\ kMinMagnitude \in Nat /\ kMinMagnitude >= 2 /\ kMax = kMinMagnitude - 1
      /\ Int64 = (-kMinMagnitude)..(kMinMagnitude - 1)
  BY Ranges
<1>3. Fits(neg, n, d) <=> d <= kMax /\ v \in Int64
  BY <1>1, <1>2 DEF Fits, Signed
<1>4. Representable(<<f1, f2>>)
        <=> \E e \in 1..kMax : (f1 * e) % f2 = 0 /\ (f1 * e) \div f2 \in Int64
  BY DEF Representable
<1> HIDE DEF v
<1>5. ASSUME d <= kMax, v \in Int64
      PROVE  \E e \in 1..kMax : (f1 * e) % f2 = 0 /\ (f1 * e) \div f2 \in Int64
  <2> DEFINE m == f1 * d
  <2>1. m \in Int /\ 0 \in 0..(f2 - 1) /\ m = f2 * v + 0
    BY <1>1
  <2>2. m \div f2 = v /\ m % f2 = 0
    <3> HIDE DEF m
    <3>1. QED
      BY <1>1, <2>1, DivisionUnique
  <2>3. d \in 1..kMax
    BY <1>1, <1>2, <1>5
  <2>4. (f1 * d) % f2 = 0 /\ (f1 * d) \div f2 \in Int64
    BY <1>5, <2>2
  <2>5. QED
    BY <2>3, <2>4
<1>6. ASSUME NEW e \in 1..kMax, (f1 * e) % f2 = 0, (f1 * e) \div f2 \in Int64
      PROVE  d <= kMax /\ v \in Int64
  <2> DEFINE w == (f1 * e) \div f2
  <2>1. w \in Int64 /\ w \in Int
    BY <1>2, <1>6
  <2>2. f1 * e = f2 * w
    <3> DEFINE m == f1 * e
    <3>1. m \in Int /\ m % f2 = 0
      BY <1>1, <1>6
    <3>2. m = f2 * (m \div f2)
      <4> HIDE DEF m
      <4>1. m = f2 * (m \div f2) + (m % f2)
        BY <1>1, <3>1
      <4>2. m \div f2 \in Int
        BY <1>1, <3>1
      <4>3. QED
        BY <1>1, <3>1, <4>1, <4>2
    <3>3. QED
      BY <3>2
  <2> HIDE DEF w
  <2>3. f2 * (v * e) = f2 * (w * d)
    <3>1. f2 * (v * e) = (v * f2) * e /\ (f1 * d) * e = (f1 * e) * d /\ (f2 * w) * d = f2 * (w * d)
      BY <1>1, <2>1
    <3>2. QED
      BY <1>1, <2>2, <3>1
  <2>4. v * e = w * d
    <3>1. \A s, t \in Int : f2 * s = f2 * t => s = t
      BY <1>1
    <3>2. v * e \in Int /\ w * d \in Int
      BY <1>1, <2>1
    <3>3. QED
      BY <2>3, <3>1, <3>2
  <2>5. Divides(d, e)
    <3>1. v * e = d * w
      BY <1>1, <2>1, <2>4
    <3>2. Divides(d, v * e)
      BY <2>1, <3>1 DEF Divides
    <3>3. QED
      BY <1>1, <3>2, FactorOfProduct
  <2>6. PICK k \in Int : e = d * k
    BY <2>5 DEF Divides
  <2>7. k >= 1 /\ d <= e
    BY <1>1, <2>6
  <2>8. w = v * k
    <3>1. d * (v * k) = d * w
      BY <1>1, <2>1, <2>4, <2>6
    <3>2. \A s, t \in Int : d * s = d * t => s = t
      BY <1>1
    <3>3. v * k \in Int
      BY <1>1
    <3>4. QED
      BY <2>1, <3>1, <3>2, <3>3
  <2>9. (v >= 0 => v <= w) /\ (v < 0 => w <= v)
    BY <1>1, <2>7, <2>8
  <2>10. QED
    BY <1>1, <1>2, <2>1, <2>7, <2>9
<1>7. QED
  BY <1>3, <1>4, <1>5, <1>6

\* Lowest terms that fit are a canonical value.
LEMMA LowestTermsWhen ==
  ASSUME NEW neg \in BOOLEAN, NEW n, NEW d, NEW f1, NEW f2, Reduced(neg, n, d, f1, f2),
         Fits(neg, n, d)
  PROVE  InLowestTerms(<<Signed(neg, n), d>>, <<f1, f2>>)
<1> DEFINE v == Signed(neg, n)
<1>1. /\ n \in Nat /\ d \in Nat /\ d > 0 /\ f1 \in Int /\ f2 \in Nat /\ f2 > 0
      /\ v \in Int /\ f1 * d = v * f2 /\ Coprime(v, d)
  BY CoprimeNegated DEF Reduced, Signed
<1>2. v \in Int64 /\ d \in 1..kMax
  BY <1>1, Ranges DEF Fits, Signed
<1> HIDE DEF v
<1>3. ASSUME NEW k \in 2..d, v % k = 0, d % k = 0 PROVE FALSE
  <2>1. k \in Nat /\ k > 0 /\ k # 1
    OBVIOUS
  <2>2. Divides(k, v) /\ Divides(k, d)
    BY <1>1, <1>3, <2>1, DividesIsRemainder
  <2>3. QED
    BY <1>1, <2>1, <2>2, CommonFactor
<1>4. \A k \in 2..d : ~(v % k = 0 /\ d % k = 0)
  BY <1>3
<1>5. QED
  BY <1>1, <1>2, <1>4 DEF InLowestTerms, v

LEMMA AssembleWhen ==
  ASSUME NEW neg \in BOOLEAN, NEW n \in Nat, NEW d \in Nat
  PROVE  Assemble(neg, n, d) = IF Fits(neg, n, d) THEN Ok(<<Signed(neg, n), d>>) ELSE OverflowError
<1>1. kMax \in Nat /\ kMinMagnitude \in Nat
  BY Ranges
<1>2. CASE d > kMax
  <2>1. ~(d <= kMax)
    BY <1>1, <1>2
  <2>2. QED
    BY <1>2, <2>1 DEF Assemble, Fits
<1>3. CASE ~(d > kMax)
  <2>1. d <= kMax
    BY <1>1, <1>3
  <2> DEFINE b == IF neg THEN kMinMagnitude ELSE kMax
  <2>2. (n > b) <=> ~(n <= b)
    BY <1>1
  <2>3. CASE n > b
    <3>1. make_int(neg, n) = OverflowError
      BY <2>3 DEF make_int
    <3>2. OverflowError.result # "ok"
      BY DEF OverflowError
    <3>3. ~Fits(neg, n, d)
      BY <2>2, <2>3 DEF Fits
    <3>4. QED
      BY <1>3, <3>1, <3>2, <3>3 DEF Assemble
  <2>4. CASE ~(n > b)
    <3>1. make_int(neg, n) = Ok(Signed(neg, n))
      BY <2>4 DEF make_int, Signed
    <3>2. Ok(Signed(neg, n)).result = "ok" /\ Ok(Signed(neg, n)).value = Signed(neg, n)
      BY DEF Ok
    <3>3. Fits(neg, n, d)
      BY <2>1, <2>2, <2>4 DEF Fits
    <3>4. QED
      BY <1>3, <3>1, <3>2, <3>3 DEF Assemble
  <2>5. QED
    BY <2>3, <2>4
<1>4. QED
  BY <1>2, <1>3

LEMMA AssembleExact ==
  ASSUME NEW neg \in BOOLEAN, NEW n, NEW d, NEW f1, NEW f2, Reduced(neg, n, d, f1, f2)
  PROVE  Exact(Assemble(neg, n, d), <<f1, f2>>)
<1> DEFINE v == <<Signed(neg, n), d>>
           f == <<f1, f2>>
<1>1. n \in Nat /\ d \in Nat
  BY DEF Reduced
<1>2. CASE Fits(neg, n, d)
  <2>1. Assemble(neg, n, d) = Ok(v)
    BY <1>1, <1>2, AssembleWhen
  <2>2. Representable(f) /\ InLowestTerms(v, f)
    BY <1>2, RepresentableWhen, LowestTermsWhen
  <2>3. Ok(v).result = "ok" /\ Ok(v).value = v
    BY DEF Ok
  <2> HIDE DEF v, f
  <2>4. Exact(Assemble(neg, n, d), f)
    BY <2>1, <2>2, <2>3 DEF Exact
  <2>5. QED
    BY <2>4 DEF f
<1>3. CASE ~Fits(neg, n, d)
  <2>1. Assemble(neg, n, d) = OverflowError
    BY <1>1, <1>3, AssembleWhen
  <2>2. ~Representable(f)
    BY <1>3, RepresentableWhen
  <2> HIDE DEF f
  <2>3. Exact(Assemble(neg, n, d), f)
    BY <2>1, <2>2 DEF Exact
  <2>4. QED
    BY <2>3 DEF f
<1>4. QED
  BY <1>2, <1>3

\* Two limbs each, of which only the low ones may be used.
LEMMA FinishExact ==
  ASSUME NEW neg \in BOOLEAN, NEW p \in Wide, NEW q \in Wide, NEW f1, NEW f2,
         Reduced(neg, Value(p), Value(q), f1, f2)
  PROVE  Exact(FinishProduct(neg, p, q), <<f1, f2>>)
<1>1. (p.hi = 0 <=> Value(p) < Limb) /\ (p.hi = 0 => Value(p) = p.lo) /\ Value(p) \in Nat
  BY WideValue
<1>2. (q.hi = 0 <=> Value(q) < Limb) /\ (q.hi = 0 => Value(q) = q.lo) /\ Value(q) \in Nat
  BY WideValue
<1>3. CASE p.hi = 0 /\ q.hi = 0
  <2>1. FinishProduct(neg, p, q) = Assemble(neg, p.lo, q.lo)
    BY <1>3 DEF FinishProduct
  <2>2. p.lo = Value(p) /\ q.lo = Value(q)
    BY <1>1, <1>2, <1>3
  <2>3. QED
    BY <2>1, <2>2, AssembleExact
<1>4. CASE ~(p.hi = 0 /\ q.hi = 0)
  <2>1. FinishProduct(neg, p, q) = OverflowError
    BY <1>4 DEF FinishProduct
  <2>2. ~Fits(neg, Value(p), Value(q))
    <3>1. kMinMagnitude \in Nat /\ kMax = kMinMagnitude - 1 /\ Limb = 2 * kMinMagnitude /\ kMinMagnitude >= 2
      BY Ranges
    <3>2. QED
      BY <1>1, <1>2, <1>4, <3>1 DEF Fits
  <2>3. ~Representable(<<f1, f2>>)
    BY <2>2, RepresentableWhen
  <2>4. QED
    BY <2>1, <2>3 DEF Exact
<1>5. QED
  BY <1>3, <1>4

-----------------------------------------------------------------------------
(***************************************************************************)
(* Times: the values of the class.                                         *)
(***************************************************************************)
IsTime(t) == t \in Int64 \X (1..kMax) /\ Coprime(t[1], t[2])

LEMMA TimeParts ==
  ASSUME NEW t, IsTime(t)
  PROVE  /\ t[1] \in Int64 /\ t[1] \in Int
         /\ t[2] \in Nat /\ t[2] > 0 /\ t[2] <= kMax /\ t[2] \in UInt64 /\ t[2] \in Divisor
         /\ t[2] \in Int64 /\ magnitude(t[2]) = t[2] /\ Coprime(magnitude(t[1]), t[2])
<1>1. /\ kMinMagnitude \in Nat /\ kMinMagnitude >= 2 /\ kMax = kMinMagnitude - 1
      /\ Int64 = (-kMinMagnitude)..(kMinMagnitude - 1) /\ Limb = 2 * kMinMagnitude
      /\ UInt64 = 0..(Limb - 1)
  BY Ranges
<1>2. t[1] \in Int64 /\ t[2] \in 1..kMax /\ Coprime(t[1], t[2])
  BY DEF IsTime
<1>3. t[1] \in Int /\ t[2] \in Nat /\ t[2] > 0 /\ t[2] <= kMax /\ t[2] \in UInt64 /\ t[2] \in Int64
  BY <1>1, <1>2
<1>4. t[2] \in Divisor
  BY <1>1, <1>2 DEF Divisor
<1>5. magnitude(t[2]) = t[2]
  BY <1>3 DEF magnitude
<1>6. Coprime(magnitude(t[1]), t[2])
  BY <1>2, <1>3, CoprimeNegated DEF magnitude
<1>7. QED
  BY <1>2, <1>3, <1>4, <1>5, <1>6

\* The magnitude of a signed integer fits in a limb, also that of kMin.
LEMMA MagnitudeParts ==
  ASSUME NEW n \in Int64
  PROVE  /\ n \in Int /\ magnitude(n) \in UInt64 /\ magnitude(n) \in Nat
         /\ magnitude(n) <= kMinMagnitude /\ (n # 0 => magnitude(n) > 0)
         /\ n = Signed(n < 0, magnitude(n))
         /\ (n # 0 => Sign(n) \in {-1, 1} /\ n = Sign(n) * magnitude(n))
  BY Ranges DEF magnitude, Signed, Sign

\* In lowest terms, as the class invariant says it.
LEMMA LowestTermsIsTime ==
  ASSUME NEW t, t \in Int64 \X Int64, InLowestTerms(t, t)
  PROVE  IsTime(t)
<1> DEFINE a == magnitude(t[1])
           d == t[2]
           g == gcd_u64(a, d)
<1>1. t \in Int64 \X (1..kMax) /\ \A k \in 2..d : ~(t[1] % k = 0 /\ d % k = 0)
  BY DEF InLowestTerms
<1>2. d \in Nat /\ d > 0 /\ d \in UInt64 /\ t[1] \in Int64
  BY <1>1, Ranges
<1>3. a \in UInt64 /\ a \in Nat /\ t[1] \in Int /\ (t[1] = a \/ t[1] = -a)
  BY <1>2, MagnitudeParts DEF magnitude
<1> HIDE DEF a, d
<1>4. IsGcd(g, a, d)
  BY <1>2, <1>3, GcdIsGcd
<1> HIDE DEF g
<1>5. g \in Nat /\ g > 0 /\ g <= d
  BY <1>2, <1>3, <1>4, GcdReduces
<1>6. PICK p \in Int : a = g * p
  BY <1>4 DEF IsGcd, Divides
<1>7. PICK q \in Int : d = g * q
  BY <1>4 DEF IsGcd, Divides
<1>8. t[1] % g = 0 /\ d % g = 0
  <2>1. \E m \in Int : t[1] = g * m
    <3>1. g * (-p) = -(g * p) /\ -p \in Int
      BY <1>5, <1>6
    <3>2. QED
      BY <1>3, <1>6, <3>1
  <2>2. PICK m \in Int : t[1] = g * m
    BY <2>1
  <2>3. 0 \in 0..(g - 1) /\ t[1] = g * m + 0 /\ d = g * q + 0 /\ d \in Int
    BY <1>2, <1>5, <1>7, <2>2
  <2>4. t[1] % g = 0
    BY <1>3, <1>5, <2>2, <2>3, DivisionUnique
  <2>5. d % g = 0
    BY <1>5, <1>7, <2>3, DivisionUnique
  <2>6. QED
    BY <2>4, <2>5
<1>9. g = 1
  BY <1>1, <1>2, <1>5, <1>8
<1>10. Coprime(a, d)
  BY <1>4, <1>9 DEF IsGcd, Coprime
<1>11. Coprime(t[1], d)
  <2>1. Coprime(-a, d)
    BY <1>2, <1>3, <1>10, CoprimeNegated
  <2>2. QED
    BY <1>3, <1>10, <2>1
<1>12. QED
  BY <1>1, <1>11 DEF IsTime, d

\* In lowest terms, as is_canonical_form says it.
LEMMA CanonicalIsTime ==
  ASSUME NEW t \in Canonical
  PROVE  IsTime(t)
<1> DEFINE a == magnitude(t[1])
           d == t[2]
<1>1. t \in Int64 \X Int64 /\ d > 0 /\ gcd_u64(a, magnitude(d)) = 1
  BY DEF Canonical, is_canonical_form
<1>2. d \in Nat /\ d \in UInt64 /\ t[1] \in Int64 /\ d \in 1..kMax /\ magnitude(d) = d
  BY <1>1, Ranges DEF magnitude
<1>3. a \in UInt64 /\ a \in Nat /\ t[1] \in Int /\ (t[1] = a \/ t[1] = -a)
  BY <1>2, MagnitudeParts DEF magnitude
<1>4. gcd_u64(a, d) = 1
  BY <1>1, <1>2
<1> HIDE DEF a, d
<1>5. IsGcd(1, a, d)
  BY <1>2, <1>3, <1>4, GcdIsGcd
<1>6. Coprime(a, d)
  BY <1>5 DEF IsGcd, Coprime
<1>7. Coprime(t[1], d)
  <2>1. Coprime(-a, d)
    BY <1>2, <1>3, <1>6, CoprimeNegated
  <2>2. QED
    BY <1>3, <1>6, <2>1
<1>8. t \in Int64 \X (1..kMax)
  BY <1>1, <1>2 DEF d
<1>9. QED
  BY <1>7, <1>8 DEF IsTime, d

-----------------------------------------------------------------------------
(***************************************************************************)
(* Construction.                                                           *)
(***************************************************************************)
LEMMA ConstructExact ==
  ASSUME NEW n \in Int64, NEW d \in Int64, d # 0
  PROVE  Exact(RationalTimeOf(n, d), <<n * Sign(d), magnitude(d)>>)
<1> DEFINE a == magnitude(n)
           b == magnitude(d)
           g == gcd_u64(a, b)
           neg == (n < 0) # (d < 0)
           f1 == n * Sign(d)
<1>1. RationalTimeOf(n, d) = Assemble(neg, a \div g, b \div g)
  BY DEF RationalTimeOf
<1>2. a \in UInt64 /\ a \in Nat /\ b \in UInt64 /\ b \in Nat /\ b > 0 /\ f1 \in Int /\ neg \in BOOLEAN
  BY MagnitudeParts DEF Sign
<1>3. f1 = Signed(neg, a)
  <2>1. n \in Int /\ d \in Int
    BY MagnitudeParts
  <2>2. QED
    BY <2>1 DEF Signed, Sign, magnitude
<1> HIDE DEF a, b, neg, f1
<1>4. IsGcd(g, a, b)
  BY <1>2, GcdIsGcd
<1> HIDE DEF g
<1> DEFINE p == a \div g
           q == b \div g
<1>5. /\ g \in Nat /\ p \in Nat /\ a = g * p /\ q \in Nat /\ b = g * q /\ q > 0
      /\ Coprime(p, q)
  BY <1>2, <1>4, GcdReduces
<1> HIDE DEF p, q
<1>6. f1 * q = Signed(neg, p) * b
  BY <1>2, <1>3, <1>5 DEF Signed
<1>7. Reduced(neg, p, q, f1, b)
  BY <1>2, <1>5, <1>6 DEF Reduced
<1>8. Exact(Assemble(neg, p, q), <<f1, b>>)
  BY <1>2, <1>7, AssembleExact
<1>9. QED
  BY <1>1, <1>8 DEF p, q, f1, b

-----------------------------------------------------------------------------
(***************************************************************************)
(* Opposites and reciprocals. The most negative numerator has no opposite. *)
(***************************************************************************)
LEMMA NegateExact ==
  ASSUME NEW t, IsTime(t)
  PROVE  Exact(negate(t), Opposite(t))
<1> DEFINE n == t[1]
           d == t[2]
<1>1. /\ n \in Int64 /\ n \in Int /\ d \in Nat /\ d > 0 /\ d <= kMax /\ d \in Int64
      /\ magnitude(d) = d /\ Coprime(n, d) /\ Coprime(magnitude(n), d)
  BY TimeParts DEF IsTime
<1>2. negate(t) = IF n = kMin THEN OverflowError ELSE RationalTimeOf(-n, d)
  BY DEF negate
<1>3. Opposite(t) = <<-n, d>>
  BY DEF Opposite
<1> HIDE DEF n, d
<1>4. /\ kMinMagnitude \in Nat /\ kMinMagnitude >= 2 /\ kMax = kMinMagnitude - 1
      /\ kMin = -kMinMagnitude /\ Int64 = (-kMinMagnitude)..(kMinMagnitude - 1)
  BY Ranges
<1>5. CASE n = kMin
  <2>1. magnitude(n) = kMinMagnitude
    BY <1>4, <1>5 DEF magnitude
  <2>2. -n = kMinMagnitude
    BY <1>4, <1>5
  <2>3. Reduced(FALSE, kMinMagnitude, d, -n, d)
    BY <1>1, <1>4, <2>1, <2>2 DEF Reduced, Signed
  <2>4. ~Fits(FALSE, kMinMagnitude, d)
    BY <1>4 DEF Fits
  <2>5. ~Representable(<<-n, d>>)
    BY <2>3, <2>4, RepresentableWhen
  <2>6. QED
    BY <1>2, <1>3, <1>5, <2>5 DEF Exact
<1>6. CASE n # kMin
  <2> DEFINE m == -n
  <2>1. m \in Int64 /\ m \in Int /\ d # 0 /\ Sign(d) = 1
    BY <1>1, <1>4, <1>6 DEF Sign
  <2>2. m * Sign(d) = m
    BY <2>1
  <2>3. Exact(RationalTimeOf(m, d), <<m * Sign(d), magnitude(d)>>)
    <3> HIDE DEF m
    <3>1. QED
      BY <1>1, <2>1, ConstructExact
  <2>4. Exact(RationalTimeOf(m, d), <<m, d>>)
    BY <1>1, <2>2, <2>3
  <2>5. QED
    BY <1>2, <1>3, <1>6, <2>4
<1>7. QED
  BY <1>5, <1>6

LEMMA ReciprocalExact ==
  ASSUME NEW t, IsTime(t), t[1] # 0
  PROVE  Exact(reciprocal(t), Reciprocal(t))
<1> DEFINE n == t[1]
           d == t[2]
           m == -n
           e == -d
<1>1. /\ n \in Int64 /\ n \in Int /\ d \in Nat /\ d > 0 /\ d <= kMax /\ d \in Int64 /\ n # 0
      /\ magnitude(d) = d /\ Coprime(magnitude(n), d) /\ magnitude(n) \in Nat
  BY TimeParts, MagnitudeParts
<1>2. /\ (n = kMin => reciprocal(t) = OverflowError)
      /\ (n # kMin /\ n < 0 => reciprocal(t) = RationalTimeOf(e, m))
      /\ (n # kMin /\ n > 0 => reciprocal(t) = RationalTimeOf(d, n))
  <2>1. n = kMin => ~(n > 0) /\ n # 0
    BY Ranges
  <2>2. n < 0 => ~(n > 0) /\ n # 0
    BY <1>1
  <2>3. n > 0 => ~(n < 0) /\ n # 0
    BY <1>1
  <2>4. CASE n = kMin
    BY <2>1, <2>4, Zenon DEF reciprocal
  <2>5. CASE n # kMin /\ n < 0
    BY <2>2, <2>5, Zenon DEF reciprocal
  <2>6. CASE n # kMin /\ n > 0
    BY <2>3, <2>6, Zenon DEF reciprocal
  <2>7. QED
    BY <2>4, <2>5, <2>6
<1>3. Reciprocal(t) = <<d * Sign(n), magnitude(n)>>
  BY DEF Reciprocal
<1> HIDE DEF n, d
<1>4. /\ kMinMagnitude \in Nat /\ kMinMagnitude >= 2 /\ kMax = kMinMagnitude - 1
      /\ kMin = -kMinMagnitude /\ Int64 = (-kMinMagnitude)..(kMinMagnitude - 1)
  BY Ranges
<1>5. CASE n = kMin
  <2>1. magnitude(n) = kMinMagnitude /\ Sign(n) = -1
    BY <1>4, <1>5 DEF magnitude, Sign
  <2>2. d * Sign(n) = e
    BY <1>1, <2>1
  <2>3. e \in Int /\ e * kMinMagnitude = (-d) * kMinMagnitude /\ Coprime(d, kMinMagnitude)
    BY <1>1, <1>4, <2>1, CoprimeSymmetric
  <2>4. Reduced(TRUE, d, kMinMagnitude, e, kMinMagnitude)
    BY <1>1, <1>4, <2>3 DEF Reduced, Signed
  <2>5. ~Fits(TRUE, d, kMinMagnitude)
    BY <1>4 DEF Fits
  <2>6. ~Representable(<<e, kMinMagnitude>>)
    BY <2>4, <2>5, RepresentableWhen
  <2>7. reciprocal(t) = OverflowError /\ Reciprocal(t) = <<e, kMinMagnitude>>
    BY <1>2, <1>3, <1>5, <2>1, <2>2
  <2>8. QED
    BY <2>6, <2>7 DEF Exact
<1>6. CASE n # kMin /\ n < 0
  <2>1. m \in Int64 /\ m # 0 /\ e \in Int64 /\ Sign(m) = 1 /\ magnitude(m) = m /\ e \in Int
    BY <1>1, <1>4, <1>6 DEF Sign, magnitude
  <2>2. Sign(n) = -1 /\ magnitude(n) = m
    BY <1>1, <1>6 DEF Sign, magnitude
  <2>3. d * Sign(n) = e /\ e * Sign(m) = e
    BY <1>1, <2>1, <2>2
  <2>4. Exact(RationalTimeOf(e, m), <<e * Sign(m), magnitude(m)>>)
    <3> HIDE DEF e, m
    <3>1. QED
      BY <2>1, ConstructExact
  <2>5. reciprocal(t) = RationalTimeOf(e, m)
    BY <1>2, <1>6
  <2> HIDE DEF e, m
  <2>6. Reciprocal(t) = <<e, m>> /\ <<e * Sign(m), magnitude(m)>> = <<e, m>>
    BY <1>3, <2>1, <2>2, <2>3
  <2>7. QED
    BY <2>4, <2>5, <2>6
<1>7. CASE n # kMin /\ n > 0
  <2>1. Exact(RationalTimeOf(d, n), <<d * Sign(n), magnitude(n)>>)
    BY <1>1, ConstructExact
  <2>2. QED
    BY <1>2, <1>3, <1>7, <2>1
<1>8. QED
  <2>1. n = kMin \/ (n # kMin /\ n < 0) \/ (n # kMin /\ n > 0)
    BY <1>1
  <2>2. QED
    BY <1>5, <1>6, <1>7, <2>1

-----------------------------------------------------------------------------
(***************************************************************************)
(* Products and quotients, by cross-cancellation.                          *)
(***************************************************************************)
LEMMA CrossReduced ==
  ASSUME NEW a \in Nat, NEW b \in Nat, NEW c \in Nat, NEW d \in Nat, b > 0, d > 0,
         Coprime(a, b), Coprime(c, d),
         NEW g, IsGcd(g, a, d), NEW h, IsGcd(h, c, b)
  PROVE  /\ g \in Nat /\ g > 0 /\ h \in Nat /\ h > 0
         /\ a \div g \in Nat /\ c \div h \in Nat /\ b \div h \in Nat /\ d \div g \in Nat
         /\ a \div g <= a /\ c \div h <= c /\ b \div h <= b /\ d \div g <= d
         /\ b \div h > 0 /\ d \div g > 0
         /\ Coprime((a \div g) * (c \div h), (b \div h) * (d \div g))
         /\ (a * c) * ((b \div h) * (d \div g)) = ((a \div g) * (c \div h)) * (b * d)
<1> DEFINE p == a \div g
           q == c \div h
           r == b \div h
           s == d \div g
<1>1. /\ g \in Nat /\ g > 0 /\ p \in Nat /\ a = g * p /\ p <= a
      /\ s \in Nat /\ d = g * s /\ s > 0 /\ s <= d /\ Coprime(p, s)
  BY GcdReduces
<1>2. /\ h \in Nat /\ h > 0 /\ q \in Nat /\ c = h * q /\ q <= c
      /\ r \in Nat /\ b = h * r /\ r > 0 /\ r <= b /\ Coprime(q, r)
  BY GcdReduces
<1> HIDE DEF p, q, r, s
<1>3. p \in Int /\ q \in Int /\ r \in Int /\ s \in Int
      /\ Divides(p, a) /\ Divides(q, c) /\ Divides(r, b) /\ Divides(s, d)
  <2>1. a = p * g /\ c = q * h /\ b = r * h /\ d = s * g
    BY <1>1, <1>2
  <2>2. QED
    BY <1>1, <1>2, <2>1 DEF Divides
<1>4. Coprime(p, r) /\ Coprime(q, s)
  <2>1. Coprime(p, b) /\ Coprime(q, d)
    BY <1>3, CoprimeFactor
  <2>2. Coprime(b, p) /\ Coprime(d, q)
    BY <1>3, <2>1, CoprimeSymmetric
  <2>3. Coprime(r, p) /\ Coprime(s, q)
    BY <1>3, <2>2, CoprimeFactor
  <2>4. QED
    BY <1>3, <2>3, CoprimeSymmetric
<1>5. Coprime(p * q, r * s)
  <2>1. Coprime(r, p) /\ Coprime(s, p) /\ Coprime(r, q) /\ Coprime(s, q)
    BY <1>1, <1>2, <1>4, CoprimeSymmetric
  <2>2. Coprime(r * s, p) /\ Coprime(r * s, q)
    BY <1>1, <1>2, <2>1, CoprimeProduct
  <2> DEFINE m == r * s
  <2>3. m \in Int /\ Coprime(p, m) /\ Coprime(q, m)
    BY <1>1, <1>2, <2>2, CoprimeSymmetric
  <2> HIDE DEF m
  <2>4. Coprime(p * q, m)
    BY <1>1, <1>2, <2>3, CoprimeProduct
  <2>5. QED
    BY <2>4 DEF m
<1>6. (a * c) * (r * s) = (p * q) * (b * d)
  <2>1. (a * c) * (r * s) = (g * h) * ((p * q) * (r * s))
    BY <1>1, <1>2
  <2>2. (p * q) * (b * d) = (g * h) * ((p * q) * (r * s))
    BY <1>1, <1>2
  <2>3. QED
    BY <2>1, <2>2
<1>7. QED
  BY <1>1, <1>2, <1>5, <1>6 DEF p, q, r, s

LEMMA IsGcdSymmetric ==
  ASSUME NEW a \in Int, NEW b \in Int, NEW g, IsGcd(g, a, b)
  PROVE  IsGcd(g, b, a)
<1>1. PICK x \in Int, y \in Int : a * x + b * y = g
  BY DEF IsGcd
<1>2. b * y + a * x = g
  BY <1>1
<1>3. QED
  BY <1>2 DEF IsGcd

LEMMA CrossExact ==
  ASSUME NEW neg \in BOOLEAN,
         NEW a \in UInt64, NEW b \in UInt64, NEW c \in UInt64, NEW d \in UInt64, b > 0, d > 0,
         Coprime(a, b), Coprime(c, d),
         NEW g, IsGcd(g, a, d), NEW h, IsGcd(h, c, b),
         NEW f1, f1 = Signed(neg, a * c), NEW f2, f2 = b * d
  PROVE  Exact(FinishProduct(neg, mul_u64(a \div g, c \div h), mul_u64(b \div h, d \div g)),
               <<f1, f2>>)
<1> DEFINE p == a \div g
           q == c \div h
           r == b \div h
           s == d \div g
<1>1. UInt64 = 0..(Limb - 1) /\ Limb \in Nat
  BY Ranges
<1>2. a \in Nat /\ b \in Nat /\ c \in Nat /\ d \in Nat
  BY <1>1
<1>3. /\ p \in Nat /\ q \in Nat /\ r \in Nat /\ s \in Nat
      /\ p <= a /\ q <= c /\ r <= b /\ s <= d
      /\ r > 0 /\ s > 0
      /\ Coprime(p * q, r * s)
      /\ (a * c) * (r * s) = (p * q) * (b * d)
  BY <1>2, CrossReduced
<1> HIDE DEF p, q, r, s
<1>4. p \in UInt64 /\ q \in UInt64 /\ r \in UInt64 /\ s \in UInt64
  BY <1>1, <1>2, <1>3
<1> DEFINE N == mul_u64(p, q)
           D == mul_u64(r, s)
           n == p * q
           m == r * s
           e == a * c
<1>5. N \in Wide /\ D \in Wide /\ Value(N) = n /\ Value(D) = m
  BY <1>4, MulExact
<1>6. n \in Nat /\ m \in Nat /\ m > 0 /\ e \in Nat /\ f2 \in Nat /\ f2 > 0 /\ f1 \in Int
  BY <1>2, <1>3 DEF Signed
<1>7. Coprime(n, m) /\ e * m = n * f2 /\ f1 = Signed(neg, e)
  BY <1>3
<1> HIDE DEF N, D, n, m, e
<1>8. f1 * m = Signed(neg, n) * f2
  BY <1>6, <1>7 DEF Signed
<1>9. Reduced(neg, Value(N), Value(D), f1, f2)
  BY <1>5, <1>6, <1>7, <1>8 DEF Reduced
<1>10. Exact(FinishProduct(neg, N, D), <<f1, f2>>)
  BY <1>5, <1>9, FinishExact
<1>11. QED
  BY <1>10 DEF N, D, p, q, r, s

LEMMA MulPairExact ==
  ASSUME NEW t, IsTime(t), NEW u, IsTime(u)
  PROVE  Exact(mul_pair(t, u), Product(t, u))
<1> DEFINE a == magnitude(t[1])
           b == t[2]
           c == magnitude(u[1])
           d == u[2]
           x == t[1]
           y == u[1]
           g == gcd_u64(a, d)
           h == gcd_u64(c, b)
           neg == (x < 0) # (y < 0)
           f1 == x * y
           f2 == b * d
<1>1. /\ x \in Int /\ a \in UInt64 /\ a \in Nat /\ x = Signed(x < 0, a)
      /\ b \in UInt64 /\ b \in Nat /\ b > 0 /\ magnitude(b) = b /\ Coprime(a, b)
  BY TimeParts, MagnitudeParts
<1>2. /\ y \in Int /\ c \in UInt64 /\ c \in Nat /\ y = Signed(y < 0, c)
      /\ d \in UInt64 /\ d \in Nat /\ d > 0 /\ magnitude(d) = d /\ Coprime(c, d)
  BY TimeParts, MagnitudeParts
<1>3. mul_pair(t, u) = FinishProduct(neg, mul_u64(a \div g, c \div h), mul_u64(b \div h, d \div g))
  BY <1>1, <1>2 DEF mul_pair
<1>4. Product(t, u) = <<f1, f2>>
  BY DEF Product
<1> HIDE DEF a, b, c, d, x, y
<1>5. IsGcd(g, a, d) /\ IsGcd(h, c, b)
  BY <1>1, <1>2, GcdIsGcd
<1>6. neg \in BOOLEAN /\ f1 = Signed(neg, a * c)
  BY <1>1, <1>2 DEF Signed
<1> HIDE DEF g, h, neg, f1, f2
<1>7. Exact(FinishProduct(neg, mul_u64(a \div g, c \div h), mul_u64(b \div h, d \div g)), <<f1, f2>>)
  <2>1. f2 = b * d
    BY DEF f2
  <2>2. QED
    BY <1>1, <1>2, <1>5, <1>6, <2>1, CrossExact
<1>8. QED
  BY <1>3, <1>4, <1>7

LEMMA DivPairExact ==
  ASSUME NEW t, IsTime(t), NEW u, IsTime(u), u[1] # 0
  PROVE  Exact(div_pair(t, u), Product(t, Reciprocal(u)))
<1> DEFINE a == magnitude(t[1])
           b == t[2]
           c == u[2]
           d == magnitude(u[1])
           x == t[1]
           y == u[1]
           g == gcd_u64(a, d)
           h == gcd_u64(b, c)
           neg == (x < 0) # (y < 0)
           f1 == x * (c * Sign(y))
           f2 == b * d
<1>1. /\ x \in Int /\ a \in UInt64 /\ a \in Nat /\ x = Signed(x < 0, a)
      /\ b \in UInt64 /\ b \in Nat /\ b > 0 /\ magnitude(b) = b /\ Coprime(a, b)
  BY TimeParts, MagnitudeParts
<1>2. /\ y \in Int /\ y # 0 /\ d \in UInt64 /\ d \in Nat /\ d > 0 /\ y = Signed(y < 0, d)
      /\ c \in UInt64 /\ c \in Nat /\ c > 0 /\ magnitude(c) = c /\ Coprime(d, c)
  BY TimeParts, MagnitudeParts
<1>3. div_pair(t, u) = FinishProduct(neg, mul_u64(a \div g, c \div h), mul_u64(b \div h, d \div g))
  BY <1>1, <1>2 DEF div_pair
<1>4. Product(t, Reciprocal(u)) = <<f1, f2>>
  BY DEF Product, Reciprocal
<1> HIDE DEF a, b, c, d, x, y
<1>5. IsGcd(g, a, d) /\ IsGcd(h, c, b)
  <2>1. IsGcd(g, a, d) /\ IsGcd(h, b, c)
    BY <1>1, <1>2, GcdIsGcd
  <2> HIDE DEF g, h
  <2>2. QED
    BY <1>1, <1>2, <2>1, IsGcdSymmetric
<1>6. Sign(y) = IF y < 0 THEN -1 ELSE 1
  BY <1>2 DEF Sign
<1>7. neg \in BOOLEAN /\ f1 = Signed(neg, a * c)
  <2>1. CASE y < 0
    <3>1. f1 = x * (-c)
      BY <1>2, <1>6, <2>1
    <3>2. QED
      BY <1>1, <1>2, <2>1, <3>1 DEF Signed
  <2>2. CASE ~(y < 0)
    <3>1. f1 = x * c
      BY <1>2, <1>6, <2>2
    <3>2. QED
      BY <1>1, <1>2, <2>2, <3>1 DEF Signed
  <2>3. QED
    BY <2>1, <2>2
<1>8. Coprime(c, d)
  BY <1>2, CoprimeSymmetric
<1> HIDE DEF g, h, neg, f1, f2
<1>9. Exact(FinishProduct(neg, mul_u64(a \div g, c \div h), mul_u64(b \div h, d \div g)), <<f1, f2>>)
  <2>1. f2 = b * d
    BY DEF f2
  <2>2. QED
    BY <1>1, <1>2, <1>5, <1>7, <1>8, <2>1, CrossExact
<1>10. QED
  BY <1>3, <1>4, <1>9

-----------------------------------------------------------------------------
(***************************************************************************)
(* Sums and differences. The cross products over the denominators without  *)
(* their common factor g have only g in common with the product of the     *)
(* denominators, so that the second and the third cancellation find 1.     *)
(***************************************************************************)
LEMMA ZeroWide ==
  ASSUME NEW s \in Wide
  PROVE  (s.hi = 0 /\ s.lo = 0) <=> Value(s) = 0
<1>1. s.lo \in Nat /\ s.hi \in Nat /\ Limb \in Nat /\ Limb > 0
  BY WideValue, Ranges
<1>2. s.hi # 0 => s.hi * Limb > 0
  BY <1>1
<1>3. s.hi * Limb \in Nat /\ (s.hi = 0 => s.hi * Limb = 0)
  BY <1>1
<1>4. QED
  BY <1>1, <1>2, <1>3 DEF Value

LEMMA ZeroExact ==
  ASSUME NEW f1, f1 = 0, NEW f2 \in Nat, f2 > 0
  PROVE  Exact(Ok(<<0, 1>>), <<f1, f2>>)
<1>1. Coprime(0, 1)
  <2>1. 0 * 0 + 1 * 1 = 1
    OBVIOUS
  <2>2. QED
    BY <2>1 DEF Coprime
<1>2. Reduced(FALSE, 0, 1, f1, f2)
  BY <1>1 DEF Reduced, Signed
<1>3. Fits(FALSE, 0, 1) /\ Signed(FALSE, 0) = 0
  BY Ranges DEF Fits, Signed
<1>4. Assemble(FALSE, 0, 1) = Ok(<<0, 1>>)
  BY <1>3, AssembleWhen
<1>5. QED
  BY <1>2, <1>4, AssembleExact

LEMMA WideQuotient ==
  ASSUME NEW s \in Wide, NEW m \in Divisor, NEW h, IsGcd(h, Value(s), m)
  PROVE  /\ h \in Divisor /\ h \in Nat /\ h > 0
         /\ div_u128_u64(s, h) \in Wide
         /\ Value(s) = h * Value(div_u128_u64(s, h)) /\ m = h * (m \div h)
         /\ m \div h \in Nat /\ m \div h > 0 /\ m \div h <= m
         /\ Coprime(Value(div_u128_u64(s, h)), m \div h)
<1> DEFINE v == Value(s)
           w == v \div h
<1>1. v \in Nat /\ m \in Nat /\ m > 0 /\ m <= kMinMagnitude /\ kMinMagnitude \in Nat
  BY WideValue, Ranges DEF Divisor
<1> HIDE DEF v
<1>2. IsGcd(h, v, m)
  BY DEF v
<1>3. /\ h \in Nat /\ h > 0 /\ h <= m
      /\ v = h * w
      /\ m = h * (m \div h) /\ m \div h \in Nat /\ m \div h > 0 /\ m \div h <= m
      /\ Coprime(w, m \div h)
  BY <1>1, <1>2, GcdReduces
<1>4. h \in Divisor
  BY <1>1, <1>3 DEF Divisor
<1>5. div_u128_u64(s, h) \in Wide /\ Value(div_u128_u64(s, h)) = w
  BY <1>4, DivExact DEF v
<1> HIDE DEF w
<1>6. QED
  BY <1>3, <1>4, <1>5 DEF v

\* When there is nothing to cancel, nothing changes.
LEMMA NothingCancelled ==
  ASSUME NEW s \in Wide, NEW m \in Divisor, Coprime(Value(s), m)
  PROVE  /\ gcd_u128_u64(s, m) = 1
         /\ div_u128_u64(s, 1) \in Wide /\ Value(div_u128_u64(s, 1)) = Value(s)
         /\ m \div 1 = m
<1>1. m \in Nat /\ Value(s) \in Nat /\ 1 \in Divisor
  BY WideValue, Ranges DEF Divisor
<1>2. gcd_u128_u64(s, m) = 1
  BY <1>1, WideGcd, GcdOfCoprime
<1>3. div_u128_u64(s, 1) \in Wide /\ Value(div_u128_u64(s, 1)) = Value(s) \div 1
  BY <1>1, DivExact
<1>4. Value(s) \div 1 = Value(s) /\ m \div 1 = m
  BY <1>1
<1>5. QED
  BY <1>2, <1>3, <1>4

LEMMA FinishAddSubExact ==
  ASSUME NEW neg \in BOOLEAN, NEW s \in Wide,
         NEW g \in Divisor, NEW b \in Divisor, NEW d \in Divisor, g * b <= kMax,
         Coprime(Value(s), b), Coprime(Value(s), d),
         NEW f1 \in Int, f1 = g * Signed(neg, Value(s)),
         NEW f2 \in Nat, f2 = (g * b) * (g * d)
  PROVE  Exact(finish_add_sub(neg, s, g, b, d), <<f1, f2>>)
<1> DEFINE h == gcd_u128_u64(s, g)
           r == div_u128_u64(s, h)
           k == g \div h
           r2 == div_u128_u64(r, 1)
           r3 == div_u128_u64(r2, 1)
           d12 == mul_u64(k, b)
           d123 == mul_u64(d12.lo, d)
           S == Value(s)
           R == Value(r)
<1>1. /\ g \in Nat /\ g > 0 /\ b \in Nat /\ b > 0 /\ d \in Nat /\ d > 0
      /\ b \in UInt64 /\ d \in UInt64 /\ Limb \in Nat /\ kMinMagnitude \in Nat
      /\ Limb = 2 * kMinMagnitude /\ kMax = kMinMagnitude - 1 /\ UInt64 = 0..(Limb - 1)
      /\ \A n \in Divisor : n \in UInt64
  BY Ranges DEF Divisor
<1>2. S \in Nat /\ f2 > 0
  <2>1. g * b > 0 /\ g * d > 0 /\ g * b \in Nat /\ g * d \in Nat
    BY <1>1
  <2>2. (g * b) * (g * d) > 0
    BY <2>1
  <2>3. QED
    BY <2>2, WideValue
<1>3. IsGcd(h, S, g)
  BY WideGcd
<1>4. /\ h \in Nat /\ h > 0 /\ r \in Wide
      /\ S = h * R /\ g = h * k
      /\ k \in Nat /\ k > 0 /\ k <= g
      /\ Coprime(R, k)
  <2> HIDE DEF h
  <2>1. QED
    BY <1>3, WideQuotient
<1>5. R \in Nat
  BY <1>4, WideValue
<1> HIDE DEF S, h, r, k
<1>6. Coprime(R, b) /\ Coprime(R, d)
  <2>1. Divides(R, S)
    <3>1. S = R * h
      BY <1>4, <1>5
    <3>2. QED
      BY <1>4, <3>1 DEF Divides
  <2>2. Coprime(S, b) /\ Coprime(S, d)
    BY DEF S
  <2> HIDE DEF R
  <2>3. QED
    BY <1>1, <1>2, <1>5, <2>1, <2>2, CoprimeFactor
<1>7. gcd_u128_u64(r, b) = 1 /\ r2 \in Wide /\ Value(r2) = R /\ b \div 1 = b
  BY <1>4, <1>6, NothingCancelled
<1> HIDE DEF r2
<1>8. gcd_u128_u64(r2, d) = 1 /\ r3 \in Wide /\ Value(r3) = R /\ d \div 1 = d
  <2>1. Coprime(Value(r2), d)
    BY <1>6, <1>7
  <2>2. QED
    BY <1>7, <2>1, NothingCancelled
<1> HIDE DEF r3, R
<1>9. d12 \in Wide /\ Value(d12) = k * b /\ d12.lo = k * b /\ d12.lo \in UInt64
  <2>1. k \in UInt64
    <3>1. g \in UInt64
      BY <1>1
    <3>2. QED
      BY <1>1, <1>4, <3>1
  <2>2. d12 \in Wide /\ Value(d12) = k * b
    BY <1>1, <2>1, MulExact
  <2>3. k * b <= g * b /\ k * b \in Nat /\ g * b \in Nat
    BY <1>1, <1>4
  <2>4. k * b < Limb
    BY <1>1, <2>3
  <2> HIDE DEF d12
  <2>5. Value(d12) < Limb
    BY <2>2, <2>4
  <2>6. d12.hi = 0 /\ Value(d12) = d12.lo
    BY <2>2, <2>5, WideValue
  <2>7. d12.lo \in UInt64
    BY <2>2 DEF Wide
  <2>8. QED
    BY <2>2, <2>6, <2>7
<1> HIDE DEF d12
<1>10. d123 \in Wide /\ Value(d123) = (k * b) * d
  BY <1>1, <1>9, MulExact
<1> HIDE DEF d123
<1>11. finish_add_sub(neg, s, g, b, d)
         = IF s.hi = 0 /\ s.lo = 0 THEN Ok(<<0, 1>>) ELSE FinishProduct(neg, r3, d123)
  <2>1. finish_add_sub(neg, s, g, b, d)
          = IF s.hi = 0 /\ s.lo = 0 THEN Ok(<<0, 1>>)
            ELSE IF r3.hi # 0 \/ d123.hi # 0 THEN OverflowError
            ELSE Assemble(neg, r3.lo, d123.lo)
    BY <1>7, <1>8, Zenon DEF finish_add_sub, h, r, k, r2, r3, d12, d123
  <2>2. QED
    BY <2>1 DEF FinishProduct
<1>12. CASE s.hi = 0 /\ s.lo = 0
  <2>1. S = 0
    BY <1>12, ZeroWide DEF S
  <2>2. f1 = 0
    BY <1>1, <2>1 DEF S, Signed
  <2>3. QED
    BY <1>2, <1>11, <1>12, <2>2, ZeroExact
<1>13. CASE ~(s.hi = 0 /\ s.lo = 0)
  <2> DEFINE m == (k * b) * d
  <2>1. m \in Nat /\ m > 0
    <3>1. k * b \in Nat /\ k * b > 0
      BY <1>1, <1>4
    <3> DEFINE j == k * b
    <3>2. j \in Nat /\ j > 0
      BY <3>1
    <3> HIDE DEF j
    <3>3. j * d \in Nat /\ j * d > 0
      BY <1>1, <3>2
    <3>4. QED
      BY <3>3 DEF j
  <2>2. Coprime(R, m)
    <3> DEFINE j == k * b
    <3>1. Coprime(k, R) /\ Coprime(b, R) /\ Coprime(d, R)
      BY <1>1, <1>4, <1>5, <1>6, CoprimeSymmetric
    <3>2. j \in Int /\ Coprime(j, R)
      BY <1>1, <1>4, <1>5, <3>1, CoprimeProduct
    <3> HIDE DEF j
    <3>3. Coprime(j * d, R)
      BY <1>1, <1>5, <3>1, <3>2, CoprimeProduct
    <3>4. Coprime(m, R)
      BY <3>3 DEF j
    <3>5. m \in Int
      BY <2>1
    <3> HIDE DEF m
    <3>6. QED
      BY <1>5, <3>4, <3>5, CoprimeSymmetric
  <2>3. f1 * m = Signed(neg, R) * f2
    <3>1. \A x \in Int : (g * (h * x)) * ((k * b) * d) = x * (((h * k) * b) * (g * d))
      BY <1>1, <1>4
    <3>2. (g * (h * R)) * m = R * (((h * k) * b) * (g * d))
      BY <1>5, <3>1
    <3>3. (g * (h * (-R))) * m = (-R) * (((h * k) * b) * (g * d))
      BY <1>5, <3>1
    <3>4. f2 = ((h * k) * b) * (g * d)
      BY <1>4
    <3>5. f1 = g * (h * Signed(neg, R))
      <4>1. h * (-R) = -(h * R)
        BY <1>4, <1>5
      <4>2. QED
        BY <1>4, <4>1 DEF Signed, S
    <3> HIDE DEF m
    <3>6. QED
      BY <3>2, <3>3, <3>4, <3>5 DEF Signed
  <2> HIDE DEF m
  <2>4. Value(r3) = R /\ Value(d123) = m
    BY <1>8, <1>10 DEF m
  <2>5. Reduced(neg, Value(r3), Value(d123), f1, f2)
    BY <1>2, <1>5, <2>1, <2>2, <2>3, <2>4 DEF Reduced
  <2>6. Exact(FinishProduct(neg, r3, d123), <<f1, f2>>)
    BY <1>8, <1>10, <2>5, FinishExact
  <2>7. QED
    BY <1>11, <1>13, <2>6
<1>14. QED
  BY <1>12, <1>13

LEMMA SignedSumExact ==
  ASSUME NEW np \in BOOLEAN, NEW nq \in BOOLEAN, NEW p \in Wide, NEW q \in Wide,
         Value(p) + Value(q) < Limb * Limb
  PROVE  /\ SignedSum(np, p, nq, q).neg \in BOOLEAN /\ SignedSum(np, p, nq, q).mag \in Wide
         /\ Signed(SignedSum(np, p, nq, q).neg, Value(SignedSum(np, p, nq, q).mag))
              = Signed(np, Value(p)) + Signed(nq, Value(q))
<1>1. Value(p) \in Nat /\ Value(q) \in Nat
  BY WideValue
<1>2. CASE np = nq
  <2> DEFINE s == add_u128(p, q)
  <2>1. SignedSum(np, p, nq, q) = [neg |-> np, mag |-> s]
    BY <1>2, Zenon DEF SignedSum
  <2>2. s \in Wide /\ Value(s) = Value(p) + Value(q)
    BY AddExact
  <2> HIDE DEF s
  <2>3. QED
    BY <1>1, <1>2, <2>1, <2>2 DEF Signed
<1>3. CASE np # nq /\ ge_u128(p, q)
  <2> DEFINE s == sub_u128(p, q)
  <2>1. SignedSum(np, p, nq, q) = [neg |-> np, mag |-> s]
    BY <1>3, Zenon DEF SignedSum
  <2>2. s \in Wide /\ Value(s) = Value(p) - Value(q)
    BY <1>3, GeExact, SubExact
  <2> HIDE DEF s
  <2>3. QED
    BY <1>1, <1>3, <2>1, <2>2 DEF Signed
<1>4. CASE np # nq /\ ~ge_u128(p, q)
  <2> DEFINE s == sub_u128(q, p)
  <2>1. SignedSum(np, p, nq, q) = [neg |-> nq, mag |-> s]
    BY <1>4, Zenon DEF SignedSum
  <2>2. Value(q) >= Value(p)
    BY <1>1, <1>4, GeExact
  <2>3. s \in Wide /\ Value(s) = Value(q) - Value(p)
    BY <2>2, SubExact
  <2> HIDE DEF s
  <2>4. QED
    BY <1>1, <1>4, <2>1, <2>3 DEF Signed
<1>5. QED
  BY <1>2, <1>3, <1>4

\* The numerator over the reduced denominators has no factor in common with
\* either of them.
LEMMA NumeratorCoprime ==
  ASSUME NEW x \in Int, NEW y \in Int, NEW b \in Int, NEW d \in Int,
         Coprime(x, b), Coprime(y, d), Coprime(b, d)
  PROVE  Coprime(x * d + y * b, b) /\ Coprime(x * d + y * b, d)
<1> DEFINE m == x * d
           n == y * b
<1>1. m \in Int /\ n \in Int
  OBVIOUS
<1>2. Coprime(m, b) /\ Coprime(n, d)
  <2>1. Coprime(d, b)
    BY CoprimeSymmetric
  <2>2. QED
    BY <2>1, CoprimeProduct
<1> HIDE DEF m, n
<1>3. Coprime(m + y * b, b)
  BY <1>1, <1>2, CoprimeShifted
<1>4. Coprime(n + x * d, d)
  BY <1>1, <1>2, CoprimeShifted
<1>5. m + y * b = x * d + y * b /\ n + x * d = x * d + y * b
  BY DEF m, n
<1>6. QED
  BY <1>3, <1>4, <1>5, Zenon

\* A product of two magnitudes, one of which is a denominator.
LEMMA SumFits ==
  ASSUME NEW a \in Nat, a <= kMinMagnitude, NEW b \in Nat, b <= kMax,
         NEW c \in Nat, c <= kMinMagnitude, NEW d \in Nat, d <= kMax
  PROVE  a * d + c * b < Limb * Limb
<1> DEFINE K == kMinMagnitude
<1>1. K \in Nat /\ K >= 2 /\ kMax = K - 1 /\ Limb = 2 * K
  BY Ranges
<1> HIDE DEF K
<1>2. a <= K /\ c <= K /\ b <= K /\ d <= K
  BY <1>1 DEF K
<1>3. a * d <= K * K /\ c * b <= K * K
  BY <1>1, <1>2
<1>4. Limb * Limb = 4 * (K * K) /\ K * K \in Nat /\ K * K >= 1 /\ a * d \in Nat /\ c * b \in Nat
  BY <1>1
<1>5. QED
  BY <1>3, <1>4

LEMMA AddSubExact ==
  ASSUME NEW t, IsTime(t), NEW u, IsTime(u), NEW flip \in BOOLEAN
  PROVE  Exact(AddSubPair(t, u, flip),
               <<t[1] * u[2] + (IF flip THEN -u[1] ELSE u[1]) * t[2], t[2] * u[2]>>)
<1> DEFINE x == t[1]
           b == t[2]
           z == u[1]
           d == u[2]
           a == magnitude(x)
           c == magnitude(z)
           y == IF flip THEN -z ELSE z
           g == gcd_u64(b, d)
           k == b \div g
           l == d \div g
           np == x < 0
           nq == (z < 0) # flip
           p == mul_u64(a, l)
           q == mul_u64(c, k)
           s == SignedSum(np, p, nq, q)
           f1 == x * d + y * b
           f2 == b * d
<1>1. /\ x \in Int /\ a \in UInt64 /\ a \in Nat /\ a <= kMinMagnitude /\ x = Signed(np, a)
      /\ b \in UInt64 /\ b \in Nat /\ b > 0 /\ b <= kMax /\ magnitude(b) = b /\ Coprime(x, b)
  BY TimeParts, MagnitudeParts DEF IsTime
<1>2. /\ z \in Int /\ c \in UInt64 /\ c \in Nat /\ c <= kMinMagnitude /\ z = Signed(z < 0, c)
      /\ d \in UInt64 /\ d \in Nat /\ d > 0 /\ d <= kMax /\ magnitude(d) = d /\ Coprime(z, d)
  BY TimeParts, MagnitudeParts DEF IsTime
<1>3. AddSubPair(t, u, flip) = finish_add_sub(s.neg, s.mag, g, k, l)
  BY <1>1, <1>2, Zenon DEF AddSubPair
<1> HIDE DEF x, b, z, d, a, c
<1>4. np \in BOOLEAN /\ nq \in BOOLEAN /\ y \in Int /\ y = Signed(nq, c) /\ Coprime(y, d)
  <2>1. y \in Int /\ y = Signed(nq, c)
    BY <1>2 DEF Signed
  <2>2. Coprime(y, d)
    BY <1>2, CoprimeNegated
  <2>3. np \in BOOLEAN /\ nq \in BOOLEAN
    OBVIOUS
  <2>4. QED
    BY <2>1, <2>2, <2>3
<1> HIDE DEF y, np, nq
<1>5. /\ g \in Nat /\ g > 0 /\ g <= d
      /\ k \in Nat /\ b = g * k /\ k <= b /\ l \in Nat /\ d = g * l /\ l > 0 /\ l <= d
      /\ Coprime(k, l)
  <2>1. IsGcd(g, b, d)
    BY <1>1, <1>2, GcdIsGcd
  <2> HIDE DEF g
  <2>2. QED
    BY <1>1, <1>2, <2>1, GcdReduces
<1> HIDE DEF g, k, l
<1>6. k > 0 /\ k \in UInt64 /\ l \in UInt64 /\ g \in Divisor /\ k \in Divisor /\ l \in Divisor
  <2>1. k > 0
    BY <1>1, <1>5
  <2>2. QED
    BY <1>1, <1>2, <1>5, <2>1, Ranges DEF Divisor
<1>7. p \in Wide /\ Value(p) = a * l /\ q \in Wide /\ Value(q) = c * k
  BY <1>1, <1>2, <1>6, MulExact
<1>8. Value(p) + Value(q) < Limb * Limb
  <2>1. k <= kMax /\ l <= kMax /\ kMax \in Nat
    BY <1>1, <1>2, <1>5, Ranges
  <2>2. a * l + c * k < Limb * Limb
    BY <1>1, <1>2, <1>5, <2>1, SumFits
  <2>3. QED
    BY <1>7, <2>2
<1> HIDE DEF p, q
<1> DEFINE m == s.mag
           n == s.neg
           v == x * l + y * k
<1>9. n \in BOOLEAN /\ m \in Wide /\ Signed(n, Value(m)) = Signed(np, Value(p)) + Signed(nq, Value(q))
  BY <1>4, <1>7, <1>8, SignedSumExact
<1> HIDE DEF m, n
<1>10. Signed(n, Value(m)) = v /\ v \in Int
  <2>1. Signed(np, a * l) = x * l
    BY <1>1, <1>5 DEF Signed
  <2>2. Signed(nq, c * k) = y * k
    BY <1>2, <1>4, <1>5 DEF Signed
  <2>3. QED
    BY <1>1, <1>4, <1>5, <1>7, <1>9, <2>1, <2>2
<1>11. Coprime(v, k) /\ Coprime(v, l)
  <2>1. Divides(k, b) /\ Divides(l, d)
    <3>1. b = k * g /\ d = l * g
      BY <1>5
    <3>2. QED
      BY <1>5, <3>1 DEF Divides
  <2>2. Coprime(b, x) /\ Coprime(d, y)
    BY <1>1, <1>2, <1>4, CoprimeSymmetric
  <2>3. Coprime(k, x) /\ Coprime(l, y)
    BY <1>1, <1>2, <1>4, <1>5, <2>1, <2>2, CoprimeFactor
  <2>4. Coprime(x, k) /\ Coprime(y, l)
    BY <1>1, <1>4, <1>5, <2>3, CoprimeSymmetric
  <2>5. x \in Int /\ y \in Int /\ k \in Int /\ l \in Int
    BY <1>1, <1>4, <1>5
  <2>6. Coprime(x * l + y * k, k) /\ Coprime(x * l + y * k, l)
    BY <1>5, <2>4, <2>5, NumeratorCoprime, Zenon
  <2>7. QED
    BY <2>6
<1> HIDE DEF v
<1>12. Coprime(Value(m), k) /\ Coprime(Value(m), l)
  <2>1. Value(m) \in Nat
    BY <1>9, WideValue
  <2>2. Value(m) = v \/ Value(m) = -v
    BY <1>9, <1>10, <2>1 DEF Signed
  <2>3. Coprime(-v, k) /\ Coprime(-v, l)
    BY <1>5, <1>10, <1>11, CoprimeNegated
  <2>4. QED
    BY <1>11, <2>2, <2>3
<1>13. f1 = g * v /\ f1 \in Int
  <2>1. x * (g * l) + y * (g * k) = g * (x * l + y * k)
    BY <1>1, <1>4, <1>5
  <2>2. f1 = x * (g * l) + y * (g * k)
    BY <1>5
  <2>3. QED
    BY <1>1, <1>2, <1>4, <2>1, <2>2 DEF v
<1>14. f2 = (g * k) * (g * l) /\ f2 \in Nat /\ g * k <= kMax
  BY <1>1, <1>2, <1>5
<1> HIDE DEF f1, f2
<1>15. Exact(finish_add_sub(n, m, g, k, l), <<f1, f2>>)
  <2>1. f1 = g * Signed(n, Value(m))
    BY <1>10, <1>13
  <2>2. QED
    BY <1>6, <1>9, <1>12, <1>13, <1>14, <2>1, FinishAddSubExact
<1>16. QED
  BY <1>3, <1>15 DEF n, m, f1, f2, x, b, z, d, y

-----------------------------------------------------------------------------
(***************************************************************************)
(* Comparison.                                                             *)
(***************************************************************************)
LEMMA ComparisonRecursion ==
  \A B, D \in 1..MaxLimb : \A A, C \in UInt64 :
    Comparison[B][A][C][D] =
      IF A = C /\ B = D THEN 0
      ELSE IF A \div B # C \div D THEN Sign((A \div B) - (C \div D))
      ELSE IF A % B = 0 \/ C % D = 0 THEN Sign((A % B) - (C % D))
      ELSE -Comparison[A % B][B][D][C % D]
<1> DEFINE N == MaxLimb
           R == 1..N
           V == [UInt64 -> [UInt64 -> [R -> Int]]]
           cell(g, B, A, C, D) ==
             LET q1 == A \div B  r1 == A % B
                 q2 == C \div D  r2 == C % D
             IN  IF A = C /\ B = D THEN 0
                 ELSE IF q1 # q2 THEN Sign(q1 - q2)
                 ELSE IF r1 = 0 \/ r2 = 0 THEN Sign(r1 - r2)
                 ELSE -g[r1][B][D][r2]
           row(g, B) == [A \in UInt64 |-> [C \in UInt64 |-> [D \in R |-> cell(g, B, A, C, D)]]]
           zero == [A \in UInt64 |-> [C \in UInt64 |-> [D \in R |-> 0]]]
           step == [B \in 0..N |-> [g \in [0..N -> V] |-> IF B = 0 THEN zero ELSE row(g, B)]]
           F(f) == f = [B \in R |-> row(f, B)]
           Same(g, h, B, A, C, D) ==
             A % B # 0 /\ C % D # 0 => g[A % B][B][D][C % D] = h[A % B][B][D][C % D]
<1>1. N \in Nat /\ UInt64 = 0..N
  BY Ranges
<1>2. \A n : Sign(n) \in Int
  BY DEF Sign
<1>3. ASSUME NEW B \in R, NEW A \in UInt64, NEW C \in UInt64, NEW D \in R, A % B # 0, C % D # 0
      PROVE  /\ A % B \in 0..(B - 1) /\ A % B \in 0..N /\ A % B \in R
             /\ C % D \in R /\ B \in UInt64 /\ D \in UInt64
  BY <1>1, <1>3
<1>4. ASSUME NEW g, NEW h, NEW B \in R, NEW A \in UInt64, NEW C \in UInt64, NEW D \in R,
             Same(g, h, B, A, C, D)
      PROVE  cell(g, B, A, C, D) = cell(h, B, A, C, D)
  BY <1>4
<1>5. ASSUME NEW g, NEW B \in R, NEW A \in UInt64, NEW C \in UInt64, NEW D \in R,
             A % B # 0 /\ C % D # 0 => g[A % B][B][D][C % D] \in Int
      PROVE  cell(g, B, A, C, D) \in Int
  BY <1>2, <1>5
<1>6. Comparison = CHOOSE g : F(g)
  BY Zenon DEF Comparison
<1>7. \A g, B, A, C, D : cell(g, B, A, C, D) =
        IF A = C /\ B = D THEN 0
        ELSE IF A \div B # C \div D THEN Sign((A \div B) - (C \div D))
        ELSE IF A % B = 0 \/ C % D = 0 THEN Sign((A % B) - (C % D))
        ELSE -g[A % B][B][D][C % D]
  OBVIOUS
<1> HIDE DEF cell
<1>8. ASSUME NEW B \in R, NEW g \in [0..N -> V] PROVE row(g, B) \in V
  <2>1. ASSUME NEW A \in UInt64, NEW C \in UInt64, NEW D \in R PROVE cell(g, B, A, C, D) \in Int
    <3>1. ASSUME A % B # 0, C % D # 0 PROVE g[A % B][B][D][C % D] \in Int
      <4>1. A % B \in 0..N /\ C % D \in R /\ B \in UInt64 /\ D \in UInt64
        BY <1>3, <3>1
      <4>2. g[A % B] \in V
        BY <4>1
      <4> DEFINE v == g[A % B]
                 m == C % D
      <4>3. v \in V /\ m \in R /\ B \in UInt64 /\ D \in UInt64
        BY <4>1, <4>2
      <4>4. v[B][D][m] \in Int
        <5> HIDE DEF v, m, R
        <5>1. QED
          BY <4>3
      <4>5. QED
        BY <4>4
    <3>2. QED
      BY <1>5, <3>1
  <2>2. QED
    BY <2>1
<1>9. zero \in V
  OBVIOUS
<1>10. ASSUME NEW B \in R, NEW g, NEW h, \A j \in R : j \in 0..(B - 1) => g[j] = h[j]
       PROVE  row(g, B) = row(h, B)
  <2>1. ASSUME NEW A \in UInt64, NEW C \in UInt64, NEW D \in R
        PROVE  cell(g, B, A, C, D) = cell(h, B, A, C, D)
    <3>1. ASSUME A % B # 0, C % D # 0 PROVE g[A % B][B][D][C % D] = h[A % B][B][D][C % D]
      <4>1. A % B \in R /\ A % B \in 0..(B - 1)
        BY <1>3, <3>1
      <4>2. g[A % B] = h[A % B]
        BY <1>10, <4>1
      <4>3. QED
        BY <4>2
    <3>2. Same(g, h, B, A, C, D)
      BY <3>1
    <3> HIDE DEF R, Same
    <3>3. QED
      BY <1>4, <3>2
  <2>2. QED
    BY <2>1
<1> HIDE DEF row, V, zero
<1>11. step \in [0..N -> [[0..N -> V] -> V]]
  <2>1. \A B \in 0..N : B # 0 => B \in R
    BY <1>1
  <2>2. \A B \in 0..N : \A g \in [0..N -> V] : (IF B = 0 THEN zero ELSE row(g, B)) \in V
    BY <1>8, <1>9, <2>1
  <2>3. QED
    BY <2>2
<1>12. \A B \in 0..N : \A g \in [0..N -> V] : step[B][g] = IF B = 0 THEN zero ELSE row(g, B)
  OBVIOUS
<1> HIDE DEF step
<1>13. LooksBack(step, N, V)
  <2>1. \A B \in 0..N : (B # 0 => B \in R) /\ R \subseteq 0..N
    BY <1>1
  <2> HIDE DEF N, R
  <2>2. ASSUME NEW B \in 0..N, NEW g \in [0..N -> V], NEW h \in [0..N -> V],
               \A j \in 0..(B - 1) : g[j] = h[j]
        PROVE  step[B][g] = step[B][h]
    <3>1. B # 0 => row(g, B) = row(h, B)
      BY <1>10, <2>1, <2>2
    <3>2. /\ step[B][g] = IF B = 0 THEN zero ELSE row(g, B)
          /\ step[B][h] = IF B = 0 THEN zero ELSE row(h, B)
      BY <1>12
    <3>3. QED
      BY <3>1, <3>2
  <2>3. QED
    BY <2>2 DEF LooksBack
<1>14. PICK f \in [0..N -> V] : Solves(f, step, N)
  <2> HIDE DEF N
  <2>1. QED
    BY <1>1, <1>9, <1>11, <1>13, RecursionExists, Zenon
<1> DEFINE k == [B \in R |-> f[B]]
<1>15. F(k)
  <2>1. ASSUME NEW B \in R PROVE k[B] = row(k, B)
    <3>1. B \in 0..N /\ B # 0
      BY <1>1
    <3>2. f[B] = row(f, B)
      BY <1>12, <1>14, <3>1 DEF Solves
    <3>3. row(k, B) = row(f, B)
      <4>1. \A j \in R : j \in 0..(B - 1) => k[j] = f[j]
        OBVIOUS
      <4> HIDE DEF k
      <4>2. QED
        BY <1>10, <4>1
    <3>4. k[B] = f[B]
      OBVIOUS
    <3>5. QED
      BY <3>2, <3>3, <3>4
  <2>2. k = [B \in R |-> k[B]]
    OBVIOUS
  <2> HIDE DEF k
  <2>3. QED
    BY <2>1, <2>2
<1>16. F(Comparison)
  <2> HIDE DEF F, k
  <2>1. QED
    BY <1>6, <1>15
<1>17. ASSUME NEW B \in R, NEW D \in R, NEW A \in UInt64, NEW C \in UInt64
       PROVE  Comparison[B][A][C][D] = cell(Comparison, B, A, C, D)
  <2>1. Comparison[B] = row(Comparison, B)
    BY <1>16, Zenon
  <2>2. row(Comparison, B)[A][C][D] = cell(Comparison, B, A, C, D)
    BY DEF row
  <2>3. QED
    BY <2>1, <2>2
<1>18. QED
  BY <1>7, <1>17

LEMMA SignOf ==
  ASSUME NEW n \in Int
  PROVE  /\ n > 0 => Sign(n) = 1
         /\ n < 0 => Sign(n) = -1
         /\ n = 0 => Sign(n) = 0
         /\ Sign(-n) = -Sign(n)
         /\ Sign(n) = 0 => n = 0
  BY DEF Sign

\* The sign of a difference of fractions is that of the difference of their
\* whole parts, if there is one.
LEMMA WholePartDecides ==
  ASSUME NEW B \in Nat, B > 0, NEW D \in Nat, D > 0, NEW p \in Nat, NEW q \in Nat, p > q,
         NEW r \in 0..(B - 1), NEW s \in 0..(D - 1)
  PROVE  (B * p + r) * D - (D * q + s) * B > 0
<1> DEFINE e == p - q
<1>1. (B * p + r) * D - (D * q + s) * B = (B * D) * e + r * D - s * B
  OBVIOUS
<1>2. (B * D) * e >= B * D
  <2>1. B * D \in Nat /\ e \in Nat /\ e >= 1
    OBVIOUS
  <2> DEFINE m == B * D
  <2> HIDE DEF e
  <2>2. m \in Nat
    BY <2>1
  <2> HIDE DEF m
  <2>3. m * e >= m
    BY <2>1, <2>2
  <2>4. QED
    BY <2>3 DEF m
<1>3. s * B <= (D - 1) * B /\ (D - 1) * B = B * D - B
  OBVIOUS
<1>4. r * D >= 0 /\ r * D \in Nat /\ s * B \in Nat /\ B * D \in Nat
  OBVIOUS
<1> DEFINE x == (B * D) * e
<1>5. x \in Int /\ x >= B * D
  BY <1>2
<1> HIDE DEF x
<1>6. x + r * D - s * B > 0
  BY <1>3, <1>4, <1>5
<1>7. QED
  BY <1>1, <1>6 DEF x

\* cmp_nonneg is the order of the fractions A / B and C / D.
LEMMA ComparisonExact ==
  \A B, D \in 1..MaxLimb : \A A, C \in UInt64 : cmp_nonneg(A, B, C, D) = Sign(A * D - C * B)
<1> DEFINE R == 1..MaxLimb
           Good(B) == \A A, C \in UInt64 : \A D \in R : Comparison[B][A][C][D] = Sign(A * D - C * B)
           G == {B \in 0..MaxLimb : B # 0 => Good(B)}
<1>1. MaxLimb \in Nat /\ UInt64 = 0..MaxLimb
  BY Ranges
<1>2. ASSUME NEW B \in 0..MaxLimb, B # 0, \A j \in 0..(B - 1) : j # 0 => Good(j),
             NEW A \in UInt64, NEW C \in UInt64, NEW D \in R
      PROVE  Comparison[B][A][C][D] = Sign(A * D - C * B)
  <2> DEFINE p == A \div B
             r == A % B
             q == C \div D
             s == C % D
             n == A * D - C * B
             c == Comparison[B][A][C][D]
  <2>1. B \in R /\ B \in Nat /\ B > 0 /\ D \in Nat /\ D > 0 /\ A \in Nat /\ C \in Nat /\ n \in Int
    BY <1>1, <1>2
  <2>2. /\ p \in Nat /\ r \in 0..(B - 1) /\ A = B * p + r
        /\ q \in Nat /\ s \in 0..(D - 1) /\ C = D * q + s
    BY <2>1, DivisionLaw
  <2>3. c = IF A = C /\ B = D THEN 0
            ELSE IF p # q THEN Sign(p - q)
            ELSE IF r = 0 \/ s = 0 THEN Sign(r - s)
            ELSE -Comparison[r][B][D][s]
    BY <2>1, ComparisonRecursion
  <2> HIDE DEF p, r, q, s, c
  <2>4. n = (B * p + r) * D - (D * q + s) * B
    BY <2>2
  <2>5. CASE A = C /\ B = D
    <3>1. n = 0
      BY <2>1, <2>5
    <3>2. c = 0
      BY <2>3, <2>5
    <3> HIDE DEF n
    <3>3. QED
      BY <2>1, <3>1, <3>2, SignOf DEF c, n
  <2>6. CASE ~(A = C /\ B = D) /\ p # q
    <3>1. c = Sign(p - q)
      BY <2>3, <2>6
    <3>2. p > q => n > 0
      BY <2>1, <2>2, <2>4, WholePartDecides
    <3>3. q > p => (D * q + s) * B - (B * p + r) * D > 0
      BY <2>1, <2>2, WholePartDecides
    <3>4. n = -((D * q + s) * B - (B * p + r) * D)
      <4> DEFINE x == (B * p + r) * D
                 y == (D * q + s) * B
      <4>1. x \in Int /\ y \in Int /\ n = x - y
        BY <2>1, <2>2, <2>4
      <4> HIDE DEF x, y, n
      <4>2. n = -(y - x)
        BY <4>1
      <4>3. QED
        BY <4>2 DEF x, y
    <3>5. q > p => n < 0
      <4> DEFINE x == (D * q + s) * B - (B * p + r) * D
      <4>1. x \in Int
        BY <2>1, <2>2
      <4>2. n = -x /\ (q > p => x > 0)
        BY <3>3, <3>4
      <4> HIDE DEF x, n
      <4>3. QED
        BY <4>1, <4>2
    <3> HIDE DEF n
    <3>6. Sign(p - q) = Sign(n)
      <4>1. CASE p > q
        BY <2>1, <2>2, <3>2, <4>1 DEF Sign
      <4>2. CASE q > p
        BY <2>1, <2>2, <3>5, <4>2 DEF Sign
      <4>3. QED
        BY <2>2, <2>6, <4>1, <4>2
    <3>7. QED
      BY <3>1, <3>6 DEF c, n
  <2>7. CASE ~(A = C /\ B = D) /\ p = q
    <3>1. n = r * D - s * B
      <4>1. (B * p + r) * D - (D * p + s) * B = r * D - s * B
        BY <2>1, <2>2
      <4>2. QED
        BY <2>4, <2>7, <4>1
    <3> HIDE DEF n
    <3>2. CASE r = 0
      <4>1. c = Sign(r - s)
        BY <2>3, <2>7, <3>2
      <4>2. n = -(s * B) /\ s * B \in Nat /\ (s = 0 => s * B = 0) /\ (s > 0 => s * B > 0)
        BY <2>1, <2>2, <3>1, <3>2
      <4>3. Sign(r - s) = Sign(n)
        <5>1. CASE s = 0
          BY <3>2, <4>2, <5>1 DEF Sign
        <5>2. CASE s > 0
          <6>1. n < 0 /\ r - s < 0
            BY <2>1, <2>2, <3>2, <4>2, <5>2
          <6>2. QED
            BY <6>1 DEF Sign
        <5>3. QED
          BY <2>2, <5>1, <5>2
      <4>4. QED
        BY <4>1, <4>3 DEF c, n
    <3>3. CASE r # 0 /\ s = 0
      <4>1. c = Sign(r - s)
        BY <2>3, <2>7, <3>3
      <4>2. n = r * D /\ r * D > 0 /\ r - s > 0
        BY <2>1, <2>2, <3>1, <3>3
      <4>3. Sign(r - s) = Sign(n)
        BY <2>1, <2>2, <4>2, SignOf
      <4>4. QED
        BY <4>1, <4>3 DEF c, n
    <3>4. CASE r # 0 /\ s # 0
      <4>1. c = -Comparison[r][B][D][s]
        BY <2>3, <2>7, <3>4
      <4>2. r \in 0..(B - 1) /\ s \in R /\ B \in UInt64 /\ D \in UInt64
        BY <1>1, <2>1, <2>2, <3>4
      <4>3. Good(r)
        BY <1>2, <3>4, <4>2
      <4> DEFINE m == B * s - D * r
      <4>4. Comparison[r][B][D][s] = Sign(m)
        BY <4>2, <4>3
      <4>5. m \in Int /\ n = -m
        BY <2>1, <2>2, <3>1
      <4> HIDE DEF m
      <4>6. -Sign(m) = Sign(n)
        BY <4>5, SignOf
      <4>7. QED
        BY <4>1, <4>4, <4>6 DEF c, n
    <3>5. QED
      BY <3>2, <3>3, <3>4
  <2>8. QED
    BY <2>5, <2>6, <2>7
<1>3. \A B \in 0..MaxLimb : B \in G
  <2>1. ASSUME NEW B \in 0..MaxLimb, \A j \in 0..(B - 1) : j \in G PROVE B \in G
    BY <1>2, <2>1
  <2> HIDE DEF G
  <2>2. QED
    BY <1>1, <2>1, Induction
<1>4. ASSUME NEW B \in R, NEW D \in R, NEW A \in UInt64, NEW C \in UInt64
      PROVE  cmp_nonneg(A, B, C, D) = Sign(A * D - C * B)
  <2>1. B \in 0..MaxLimb /\ B # 0
    BY <1>1
  <2>2. Good(B)
    BY <1>3, <2>1
  <2>3. Comparison[B][A][C][D] = Sign(A * D - C * B)
    BY <2>2
  <2>4. QED
    BY <2>3 DEF cmp_nonneg
<1>5. QED
  BY <1>4

-----------------------------------------------------------------------------
(***************************************************************************)
(* The accumulator.                                                        *)
(***************************************************************************)
\* What an operation returns: a time or an exception.
Sound(r) ==
  /\ r.result \in {"ok", "domain_error", "overflow_error"}
  /\ r.result = "ok" => r.value \in Int64 \X Int64 /\ InLowestTerms(r.value, r.value)

LEMMA ExactIsSound ==
  ASSUME NEW r, NEW f, Exact(r, f)
  PROVE  Sound(r)
<1>1. CASE Representable(f)
  <2>1. r.result = "ok" /\ InLowestTerms(r.value, f)
    BY <1>1 DEF Exact
  <2>2. r.value \in Int64 \X (1..kMax) /\ \A k \in 2..r.value[2] : ~(r.value[1] % k = 0 /\ r.value[2] % k = 0)
    BY <2>1 DEF InLowestTerms
  <2>3. 1..kMax \subseteq Int64 /\ Int64 \subseteq Int
    BY Ranges
  <2>4. r.value \in Int64 \X Int64
    BY <2>2, <2>3
  <2>5. InLowestTerms(r.value, r.value)
    BY <2>2, <2>3 DEF InLowestTerms
  <2>6. QED
    BY <2>1, <2>4, <2>5 DEF Sound
<1>2. CASE ~Representable(f)
  BY <1>2 DEF Exact, OverflowError, Sound
<1>3. QED
  BY <1>1, <1>2

LEMMA DomainErrorIsSound == Sound(DomainError)
  BY DEF DomainError, Sound

\* Division by zero.
LEMMA DivisionByZero ==
  /\ \A n : RationalTimeOf(n, 0) = DomainError
  /\ \A t : t[1] = 0 => reciprocal(t) = DomainError
  /\ \A t, u : u[1] = 0 => div_pair(t, u) = DomainError
<1>1. \A n : RationalTimeOf(n, 0) = DomainError
  BY DEF RationalTimeOf
<1>2. ASSUME NEW t, t[1] = 0 PROVE reciprocal(t) = DomainError
  <2>1. kMin # 0 /\ ~(0 < 0) /\ ~(0 > 0)
    BY Ranges
  <2>2. t[1] # kMin /\ ~(t[1] < 0) /\ ~(t[1] > 0)
    BY <1>2, <2>1
  <2>3. QED
    BY <1>2, <2>2, Zenon DEF reciprocal
<1>3. \A t, u : u[1] = 0 => div_pair(t, u) = DomainError
  BY DEF div_pair
<1>4. QED
  BY <1>1, <1>2, <1>3

LEMMA AddPairExact ==
  ASSUME NEW t, IsTime(t), NEW u, IsTime(u)
  PROVE  /\ Exact(add_pair(t, u), Sum(t, u))
         /\ Exact(sub_pair(t, u), Sum(t, Opposite(u)))
<1>1. Exact(AddSubPair(t, u, FALSE), <<t[1] * u[2] + u[1] * t[2], t[2] * u[2]>>)
  BY AddSubExact
<1>2. Exact(AddSubPair(t, u, TRUE), <<t[1] * u[2] + (-u[1]) * t[2], t[2] * u[2]>>)
  BY AddSubExact
<1>3. Sum(t, Opposite(u)) = <<t[1] * u[2] + (-u[1]) * t[2], t[2] * u[2]>>
  BY DEF Sum, Opposite
<1>4. QED
  BY <1>1, <1>2, <1>3, Zenon DEF add_pair, sub_pair, Sum

LEMMA OperandsAreTimes ==
  ASSUME NEW u \in Operands
  PROVE  IsTime(u)
  BY OperandsAssumption, CanonicalIsTime

LEMMA OutcomeOfSound ==
  ASSUME TimeTypeOK, NEW r, Sound(r), Outcome(r)
  PROVE  TimeTypeOK'
<1>1. CASE r.result = "ok"
  <2>1. time' = r.value /\ thrown' = "none"
    BY <1>1 DEF Outcome
  <2>2. r.value \in Int64 \X Int64 /\ InLowestTerms(r.value, r.value)
    BY <1>1 DEF Sound
  <2>3. QED
    BY <2>1, <2>2 DEF TimeTypeOK
<1>2. CASE r.result # "ok"
  <2>1. time' = time /\ thrown' = r.result
    BY <1>2 DEF Outcome
  <2>2. r.result \in {"none", "domain_error", "overflow_error"}
    <3>1. r.result \in {"ok", "domain_error", "overflow_error"}
      BY DEF Sound
    <3>2. QED
      BY <1>2, <3>1
  <2>3. QED
    BY <2>1, <2>2 DEF TimeTypeOK
<1>3. QED
  BY <1>1, <1>2

\* The class invariant of RationalTime (rational_time.h): whatever sequence of
\* constructor and operators led here, the denominator is positive and the pair
\* is in lowest terms, for integers of any width.
THEOREM TimeIsCanonical == TimeSpec => []TimeTypeOK
<1>1. TimeInit => TimeTypeOK
  BY DEF TimeInit, TimeTypeOK
<1>2. TimeTypeOK /\ [TimeNext]_accumulator => TimeTypeOK'
  <2>1. SUFFICES ASSUME TimeTypeOK, [TimeNext]_accumulator PROVE TimeTypeOK'
    OBVIOUS
  <2>2. ASSUME NEW n \in Int64, NEW d \in Int64, Construct(n, d) PROVE TimeTypeOK'
    <3>1. Sound(RationalTimeOf(n, d))
      BY ConstructExact, DivisionByZero, ExactIsSound, DomainErrorIsSound
    <3>2. QED
      BY <2>1, <2>2, <3>1, OutcomeOfSound DEF Construct
  <2>3. time # Unset => IsTime(time)
    BY <2>1, LowestTermsIsTime DEF TimeTypeOK
  <2>4. ASSUME NEW u \in Operands, Add(u) PROVE TimeTypeOK'
    <3>1. IsTime(time) /\ IsTime(u) /\ Outcome(add_pair(time, u))
      BY <2>3, <2>4, OperandsAreTimes DEF Add, Update
    <3>2. Sound(add_pair(time, u))
      BY <3>1, AddPairExact, ExactIsSound
    <3>3. QED
      BY <2>1, <3>1, <3>2, OutcomeOfSound
  <2>5. ASSUME NEW u \in Operands, Subtract(u) PROVE TimeTypeOK'
    <3>1. IsTime(time) /\ IsTime(u) /\ Outcome(sub_pair(time, u))
      BY <2>3, <2>5, OperandsAreTimes DEF Subtract, Update
    <3>2. Sound(sub_pair(time, u))
      BY <3>1, AddPairExact, ExactIsSound
    <3>3. QED
      BY <2>1, <3>1, <3>2, OutcomeOfSound
  <2>6. ASSUME NEW u \in Operands, Multiply(u) PROVE TimeTypeOK'
    <3>1. IsTime(time) /\ IsTime(u) /\ Outcome(mul_pair(time, u))
      BY <2>3, <2>6, OperandsAreTimes DEF Multiply, Update
    <3>2. Sound(mul_pair(time, u))
      BY <3>1, MulPairExact, ExactIsSound
    <3>3. QED
      BY <2>1, <3>1, <3>2, OutcomeOfSound
  <2>7. ASSUME NEW u \in Operands, Divide(u) PROVE TimeTypeOK'
    <3>1. IsTime(time) /\ IsTime(u) /\ Outcome(div_pair(time, u))
      BY <2>3, <2>7, OperandsAreTimes DEF Divide, Update
    <3>2. Sound(div_pair(time, u))
      BY <3>1, DivPairExact, DivisionByZero, ExactIsSound, DomainErrorIsSound
    <3>3. QED
      BY <2>1, <3>1, <3>2, OutcomeOfSound
  <2>8. ASSUME Negate PROVE TimeTypeOK'
    <3>1. IsTime(time) /\ Outcome(negate(time))
      BY <2>3, <2>8 DEF Negate, Update
    <3>2. Sound(negate(time))
      BY <3>1, NegateExact, ExactIsSound
    <3>3. QED
      BY <2>1, <3>1, <3>2, OutcomeOfSound
  <2>9. ASSUME Invert PROVE TimeTypeOK'
    <3>1. IsTime(time) /\ Outcome(reciprocal(time))
      BY <2>3, <2>9 DEF Invert, Update
    <3>2. Sound(reciprocal(time))
      BY <3>1, ReciprocalExact, DivisionByZero, ExactIsSound, DomainErrorIsSound
    <3>3. QED
      BY <2>1, <3>1, <3>2, OutcomeOfSound
  <2>10. CASE UNCHANGED accumulator
    BY <2>1, <2>10 DEF TimeTypeOK, accumulator
  <2>11. QED
    BY <2>1, <2>2, <2>4, <2>5, <2>6, <2>7, <2>8, <2>9, <2>10 DEF TimeNext
<1>3. QED
  BY <1>1, <1>2, PTL DEF TimeSpec

\* Every operation on every time that can be reached is exact, or refuses with
\* overflow_error exactly when the reduced result has no representation and
\* with domain_error exactly for a zero denominator or divisor, for integers of
\* any width: the two-limb intermediates never lose anything (rational_time.h).
THEOREM ArithmeticHolds == TimeSpec => []ArithmeticIsExact
<1>1. TimeTypeOK => ArithmeticIsExact
  <2>1. SUFFICES ASSUME TimeTypeOK, time # Unset
                 PROVE  ConstructionIsExact /\ SumsAreExact /\ ProductsAreExact
    BY DEF ArithmeticIsExact
  <2>2. IsTime(time)
    BY <2>1, LowestTermsIsTime DEF TimeTypeOK
  <2>3. ConstructionIsExact
    <3>1. time[1] \in Int64
      BY <2>2, TimeParts
    <3>2. QED
      BY <3>1, ConstructExact, DivisionByZero DEF ConstructionIsExact
  <2>4. SumsAreExact
    BY <2>2, OperandsAreTimes, NegateExact, AddPairExact DEF SumsAreExact
  <2>5. ProductsAreExact
    BY <2>2, OperandsAreTimes, ReciprocalExact, MulPairExact, DivPairExact, DivisionByZero
       DEF ProductsAreExact
  <2>6. QED
    BY <2>3, <2>4, <2>5
<1>2. QED
  BY <1>1, TimeIsCanonical, PTL

-----------------------------------------------------------------------------
\* cmp_frac is the order of the fractions,
LEMMA OrderExact ==
  ASSUME NEW t, IsTime(t), NEW u, IsTime(u)
  PROVE  cmp_frac(t, u) = Sign(t[1] * u[2] - u[1] * t[2])
<1> DEFINE x == t[1]
           b == t[2]
           y == u[1]
           d == u[2]
           n == x * d - y * b
           c == cmp_frac(t, u)
<1>1. x \in Int /\ b \in Nat /\ b > 0 /\ y \in Int /\ d \in Nat /\ d > 0 /\ n \in Int
  BY TimeParts
<1>2. /\ b \in 1..MaxLimb /\ d \in 1..MaxLimb
      /\ magnitude(x) \in UInt64 /\ magnitude(x) \in Nat /\ magnitude(y) \in UInt64 /\ magnitude(y) \in Nat
  <2>1. b \in UInt64 /\ d \in UInt64 /\ x \in Int64 /\ y \in Int64
    BY TimeParts
  <2>2. b \in 1..MaxLimb /\ d \in 1..MaxLimb
    BY <1>1, <2>1, Ranges
  <2>3. QED
    BY <2>1, <2>2, MagnitudeParts
<1>3. c = IF (x < 0) # (y < 0) THEN (IF x < 0 THEN -1 ELSE 1)
          ELSE IF x >= 0 THEN cmp_nonneg(x, b, y, d)
          ELSE -cmp_nonneg(magnitude(x), b, magnitude(y), d)
  BY DEF cmp_frac
<1> HIDE DEF x, b, y, d, c
<1>4. CASE x < 0 /\ ~(y < 0)
  <2>1. x * d < 0 /\ y * b >= 0 /\ x * d \in Int /\ y * b \in Int
    BY <1>1, <1>4
  <2>2. n < 0
    BY <2>1
  <2> HIDE DEF n
  <2>3. Sign(n) = -1
    BY <1>1, <2>2, SignOf
  <2>4. QED
    BY <1>3, <1>4, <2>3 DEF n, c, x, y, b, d
<1>5. CASE ~(x < 0) /\ y < 0
  <2>1. x * d >= 0 /\ y * b < 0 /\ x * d \in Int /\ y * b \in Int
    BY <1>1, <1>5
  <2>2. n > 0
    BY <2>1
  <2> HIDE DEF n
  <2>3. Sign(n) = 1
    BY <1>1, <2>2, SignOf
  <2>4. QED
    BY <1>3, <1>5, <2>3 DEF n, c, x, y, b, d
<1>6. CASE ~(x < 0) /\ ~(y < 0)
  <2>1. magnitude(x) = x /\ magnitude(y) = y /\ x >= 0
    BY <1>1, <1>6 DEF magnitude
  <2>2. cmp_nonneg(x, b, y, d) = Sign(x * d - y * b)
    BY <1>2, <2>1, ComparisonExact
  <2>3. c = cmp_nonneg(x, b, y, d)
    BY <1>3, <1>6, <2>1
  <2>4. QED
    BY <2>2, <2>3 DEF c, x, y, b, d
<1>7. CASE x < 0 /\ y < 0
  <2> DEFINE p == -x
             q == -y
             m == p * d - q * b
  <2>1. magnitude(x) = p /\ magnitude(y) = q /\ ~(x >= 0)
    BY <1>1, <1>7 DEF magnitude
  <2>2. cmp_nonneg(magnitude(x), b, magnitude(y), d) = Sign(m)
    <3> HIDE DEF p, q
    <3>1. QED
      BY <1>2, <2>1, ComparisonExact
  <2>3. c = -cmp_nonneg(magnitude(x), b, magnitude(y), d)
    BY <1>3, <1>7, <2>1
  <2>4. m \in Int /\ n = -m
    BY <1>1
  <2> HIDE DEF m
  <2>5. Sign(n) = -Sign(m)
    BY <2>4, SignOf
  <2>6. c = Sign(n)
    BY <2>2, <2>3, <2>5
  <2>7. QED
    BY <2>6 DEF c, n, x, y, b, d
<1>8. QED
  BY <1>4, <1>5, <1>6, <1>7

\* in which two times are equal only if they are the same pair.
LEMMA EqualTimes ==
  ASSUME NEW t, IsTime(t), NEW u, IsTime(u)
  PROVE  t[1] * u[2] - u[1] * t[2] = 0 <=> t = u
<1> DEFINE x == t[1]
           b == t[2]
           y == u[1]
           d == u[2]
<1>1. /\ x \in Int /\ b \in Nat /\ b > 0 /\ y \in Int /\ d \in Nat /\ d > 0
      /\ Coprime(x, b) /\ Coprime(y, d) /\ t = <<x, b>> /\ u = <<y, d>>
  <2>1. t = <<x, b>> /\ u = <<y, d>>
    BY DEF IsTime
  <2>2. QED
    BY <2>1, TimeParts DEF IsTime
<1> HIDE DEF x, b, y, d
<1>2. ASSUME x * d - y * b = 0 PROVE t = u
  <2>1. x * d = b * y /\ y * b = d * x
    BY <1>1, <1>2
  <2>2. Divides(b, x * d) /\ Divides(d, y * b)
    BY <1>1, <2>1 DEF Divides
  <2>3. Divides(b, d) /\ Divides(d, b)
    BY <1>1, <2>2, FactorOfProduct
  <2>4. PICK k \in Int : d = b * k
    BY <2>3 DEF Divides
  <2>5. PICK l \in Int : b = d * l
    BY <2>3 DEF Divides
  <2>6. k >= 1 /\ l >= 1
    BY <1>1, <2>4, <2>5
  <2>7. b = d
    <3>1. d >= b /\ b >= d
      BY <1>1, <2>4, <2>5, <2>6
    <3>2. QED
      BY <1>1, <3>1
  <2>8. x = y
    <3>1. b * x = b * y
      BY <1>1, <2>1, <2>7
    <3>2. \A s, r \in Int : b * s = b * r => s = r
      BY <1>1
    <3>3. QED
      BY <1>1, <3>1, <3>2
  <2>9. QED
    BY <1>1, <2>7, <2>8
<1>3. ASSUME t = u PROVE x * d - y * b = 0
  <2>1. x = y /\ b = d
    BY <1>3 DEF x, y, b, d
  <2>2. QED
    BY <1>1, <2>1
<1>4. QED
  BY <1>2, <1>3 DEF x, y, b, d

\* operator<=> is the order of the rationals and agrees with operator== on every
\* time that can be reached, for integers of any width (rational_time.h).
THEOREM ComparisonHolds == TimeSpec => []ComparisonIsExact
<1>1. TimeTypeOK => ComparisonIsExact
  <2>1. SUFFICES ASSUME TimeTypeOK, time # Unset, NEW u \in Operands
                 PROVE  /\ cmp_frac(time, u) = Sign(time[1] * u[2] - u[1] * time[2])
                        /\ cmp_frac(time, u) = 0 <=> time = u
    BY DEF ComparisonIsExact
  <2>2. IsTime(time) /\ IsTime(u)
    BY <2>1, LowestTermsIsTime, OperandsAreTimes DEF TimeTypeOK
  <2> DEFINE n == time[1] * u[2] - u[1] * time[2]
  <2>3. cmp_frac(time, u) = Sign(n)
    BY <2>2, OrderExact
  <2>4. n = 0 <=> time = u
    BY <2>2, EqualTimes
  <2>5. n \in Int
    BY <2>2, TimeParts
  <2>6. Sign(n) = 0 <=> n = 0
    <3> HIDE DEF n
    <3>1. QED
      BY <2>5, SignOf
  <2>7. QED
    BY <2>3, <2>4, <2>6
<1>2. QED
  BY <1>1, TimeIsCanonical, PTL

-----------------------------------------------------------------------------
(***************************************************************************)
(* The wire form: printing.                                                *)
(***************************************************************************)
DigitsOf(n) ==
  LET digits[m \in 0..n] == IF m < 10 THEN <<m>> ELSE Append(digits[m \div 10], m % 10)
  IN  digits

Numeral(n) == DigitsOf(n)[n]

LEMMA DigitsRecursion ==
  ASSUME NEW n \in Nat
  PROVE  \A m \in 0..n :
           DigitsOf(n)[m] = IF m < 10 THEN <<m>> ELSE Append(DigitsOf(n)[m \div 10], m % 10)
<1> DEFINE V == Seq(Nat)
           cell(g, m) == IF m < 10 THEN <<m>> ELSE Append(g[m \div 10], m % 10)
           step == [m \in 0..n |-> [g \in [0..n -> V] |-> cell(g, m)]]
           F(f) == f = [m \in 0..n |-> cell(f, m)]
           D == DigitsOf(n)
<1>1. D = CHOOSE g : F(g)
  BY Zenon DEF DigitsOf
<1> HIDE DEF D
<1>2. \A m \in 0..n : (~(m < 10) => m \div 10 \in 0..n /\ m \div 10 \in 0..(m - 1)) /\ m % 10 \in Nat /\ m \in Nat
  OBVIOUS
<1>3. ASSUME NEW m \in 0..n, NEW g \in [0..n -> V] PROVE cell(g, m) \in V
  <2>1. CASE m < 10
    <3>1. m \in Nat
      OBVIOUS
    <3>2. <<m>> \in V
      BY <3>1
    <3>3. QED
      BY <2>1, <3>2
  <2>2. CASE ~(m < 10)
    <3>1. g[m \div 10] \in V /\ m % 10 \in Nat
      BY <1>2, <2>2
    <3>2. Append(g[m \div 10], m % 10) \in V
      BY <3>1, AppendProperties
    <3>3. QED
      BY <2>2, <3>2
  <2>3. QED
    BY <2>1, <2>2
<1>4. step \in [0..n -> [[0..n -> V] -> V]]
  <2> HIDE DEF cell, V
  <2>1. QED
    BY <1>3
<1>5. \A m \in 0..n : \A g \in [0..n -> V] : step[m][g] = cell(g, m)
  OBVIOUS
<1> HIDE DEF step
<1>6. LooksBack(step, n, V)
  <2>1. ASSUME NEW m \in 0..n, NEW g \in [0..n -> V], NEW h \in [0..n -> V],
               \A j \in 0..(m - 1) : g[j] = h[j]
        PROVE  step[m][g] = step[m][h]
    <3>1. cell(g, m) = cell(h, m)
      BY <1>2, <2>1
    <3>2. step[m][g] = cell(g, m) /\ step[m][h] = cell(h, m)
      BY <1>5
    <3> HIDE DEF cell, V
    <3>3. QED
      BY <3>1, <3>2
  <2>2. QED
    BY <2>1 DEF LooksBack
<1>7. PICK f \in [0..n -> V] : Solves(f, step, n)
  <2>1. <<>> \in V
    OBVIOUS
  <2> HIDE DEF V
  <2>2. QED
    BY <1>4, <1>6, <2>1, RecursionExists, Zenon
<1>8. F(f)
  <2>1. \A m \in 0..n : f[m] = cell(f, m)
    BY <1>5, <1>7 DEF Solves
  <2> HIDE DEF cell
  <2>2. QED
    BY <2>1
<1>9. F(D)
  <2> HIDE DEF F
  <2>1. QED
    BY <1>1, <1>8
<1>10. \A m \in 0..n : D[m] = cell(D, m)
  <2> HIDE DEF cell
  <2>1. QED
    BY <1>9
<1>11. QED
  BY <1>10 DEF D

LEMMA DigitsAgree ==
  ASSUME NEW n \in Nat, NEW k \in 0..n
  PROVE  DigitsOf(n)[k] = Numeral(k)
<1> DEFINE D == DigitsOf(n)
           E == DigitsOf(k)
           G == {m \in 0..k : D[m] = E[m]}
<1>1. /\ \A m \in 0..k : D[m] = IF m < 10 THEN <<m>> ELSE Append(D[m \div 10], m % 10)
      /\ \A m \in 0..k : E[m] = IF m < 10 THEN <<m>> ELSE Append(E[m \div 10], m % 10)
  <2>1. k \in Nat /\ \A m \in 0..k : m \in 0..n
    OBVIOUS
  <2>2. QED
    BY <2>1, DigitsRecursion
<1> HIDE DEF D, E
<1>2. ASSUME NEW m \in 0..k, \A j \in 0..(m - 1) : j \in G
      PROVE  m \in G
  <2>1. CASE m < 10
    <3>1. D[m] = <<m>> /\ E[m] = <<m>>
      BY <1>1, <2>1
    <3>2. QED
      BY <3>1
  <2>2. CASE ~(m < 10)
    <3>1. m \div 10 \in 0..(m - 1)
      BY <2>2
    <3>2. D[m \div 10] = E[m \div 10]
      BY <1>2, <3>1
    <3>3. QED
      BY <1>1, <2>2, <3>2
  <2>3. QED
    BY <2>1, <2>2
<1>3. \A m \in 0..k : m \in G
  <2> HIDE DEF G
  <2>1. k \in Nat
    OBVIOUS
  <2>2. QED
    BY <1>2, <2>1, Induction
<1>4. k \in 0..k
  OBVIOUS
<1>5. QED
  BY <1>3, <1>4 DEF D, E, Numeral

\* One digit, or the digits of a tenth and one more.
LEMMA NumeralSteps ==
  ASSUME NEW n \in Nat
  PROVE  /\ n < 10 => Numeral(n) = <<n>>
         /\ ~(n < 10) => Numeral(n) = Append(Numeral(n \div 10), n % 10)
<1>1. n \in 0..n /\ n \div 10 \in 0..n
  OBVIOUS
<1>2. DigitsOf(n)[n] = IF n < 10 THEN <<n>> ELSE Append(DigitsOf(n)[n \div 10], n % 10)
  BY <1>1, DigitsRecursion
<1>3. DigitsOf(n)[n \div 10] = Numeral(n \div 10)
  BY <1>1, DigitsAgree
<1>4. QED
  BY <1>2, <1>3 DEF Numeral

\* A sign of its own is no digit, and only zero begins with a zero.
IsNumeral(s, n) == s \in Seq(0..9) /\ s # <<>> /\ (n # 0 => s[1] # 0)

LEMMA NumeralType ==
  ASSUME NEW n \in Nat
  PROVE  IsNumeral(Numeral(n), n)
<1> DEFINE G == {k \in 0..n : IsNumeral(Numeral(k), k)}
<1>1. ASSUME NEW k \in 0..n, \A j \in 0..(k - 1) : j \in G
      PROVE  k \in G
  <2>0. k \in Nat
    OBVIOUS
  <2>1. CASE k < 10
    <3>1. Numeral(k) = <<k>> /\ k \in 0..9
      BY <2>0, <2>1, NumeralSteps
    <3>2. <<k>> \in Seq(0..9) /\ <<k>> # <<>> /\ <<k>>[1] = k
      BY <3>1
    <3>3. QED
      BY <3>1, <3>2 DEF IsNumeral
  <2>2. CASE ~(k < 10)
    <3> DEFINE d == k \div 10
               c == k % 10
    <3>1. d \in 0..(k - 1) /\ d # 0 /\ c \in 0..9
      BY <2>0, <2>2
    <3>2. Numeral(k) = Append(Numeral(d), c)
      BY <2>0, <2>2, NumeralSteps
    <3> HIDE DEF d, c
    <3>3. IsNumeral(Numeral(d), d)
      BY <1>1, <3>1
    <3> DEFINE s == Numeral(d)
    <3>4. s \in Seq(0..9) /\ s # <<>> /\ s[1] # 0
      BY <3>1, <3>3 DEF IsNumeral
    <3> HIDE DEF s
    <3>5. Len(s) \in Nat \ {0}
      BY <3>4, EmptySeq
    <3>6. Append(s, c) \in Seq(0..9) /\ Append(s, c) # <<>> /\ Append(s, c)[1] = s[1]
      BY <3>1, <3>4, <3>5, AppendProperties
    <3>7. IsNumeral(Append(s, c), k)
      BY <3>4, <3>6 DEF IsNumeral
    <3>8. QED
      BY <3>2, <3>7 DEF s
  <2>3. QED
    BY <2>1, <2>2
<1>2. \A k \in 0..n : k \in G
  <2> HIDE DEF G
  <2>1. QED
    BY <1>1, Induction
<1>3. n \in 0..n
  OBVIOUS
<1>4. QED
  BY <1>2, <1>3

LEMMA DecimalIsNumeral ==
  ASSUME NEW n \in Int
  PROVE  /\ n >= 0 => Decimal(n) = Numeral(n)
         /\ n < 0 => Decimal(n) = <<Minus>> \o Numeral(-n)
<1>1. magnitude(n) \in Nat /\ (n >= 0 => magnitude(n) = n) /\ (n < 0 => magnitude(n) = -n)
  BY DEF magnitude
<1>2. Decimal(n) = (IF n < 0 THEN <<Minus>> ELSE <<>>) \o Numeral(magnitude(n))
  BY DEF Decimal, Numeral, DigitsOf
<1>3. Numeral(magnitude(n)) \in Seq(0..9)
  BY <1>1, NumeralType DEF IsNumeral
<1>4. <<>> \o Numeral(magnitude(n)) = Numeral(magnitude(n))
  BY <1>3, ConcatEmptySeq
<1>5. ASSUME n >= 0 PROVE Decimal(n) = Numeral(n)
  <2>1. ~(n < 0)
    BY <1>5
  <2>2. Decimal(n) = <<>> \o Numeral(magnitude(n))
    BY <1>2, <2>1, Zenon
  <2>3. magnitude(n) = n
    BY <1>1, <1>5
  <2>4. QED
    BY <1>4, <2>2, <2>3, Zenon
<1>6. ASSUME n < 0 PROVE Decimal(n) = <<Minus>> \o Numeral(-n)
  <2>1. Decimal(n) = <<Minus>> \o Numeral(magnitude(n))
    BY <1>2, <1>6, Zenon
  <2>2. magnitude(n) = -n
    BY <1>1, <1>6
  <2>3. QED
    BY <2>1, <2>2, Zenon
<1>7. QED
  BY <1>5, <1>6

-----------------------------------------------------------------------------
(***************************************************************************)
(* The wire form: the digit loop.                                          *)
(***************************************************************************)
Characters == 0..11

LoopValues == {Ok(n) : n \in Nat} \cup {InvalidArgument, OutOfRange}

\* One turn of the loop.
NextValue(m, c, limit) ==
  IF m.result # "ok" THEN m
  ELSE IF c \notin Digit THEN InvalidArgument
  ELSE IF m.value > (limit - c) \div 10 THEN OutOfRange
  ELSE Ok(m.value * 10 + c)

LEMMA Results ==
  /\ \A v : Ok(v).result = "ok" /\ Ok(v).value = v
  /\ InvalidArgument.result = "invalid_argument" /\ OutOfRange.result = "out_of_range"
  /\ \A v : Ok(v) # InvalidArgument /\ Ok(v) # OutOfRange
  /\ InvalidArgument # OutOfRange
<1>1. \A v : Ok(v).result = "ok" /\ Ok(v).value = v
  BY DEF Ok
<1>2. InvalidArgument.result = "invalid_argument" /\ OutOfRange.result = "out_of_range"
  BY DEF InvalidArgument, OutOfRange
<1>3. QED
  BY <1>1, <1>2

LEMMA NextValueType ==
  ASSUME NEW m \in LoopValues, NEW c \in Characters, NEW limit \in Nat
  PROVE  NextValue(m, c, limit) \in LoopValues
<1>1. CASE m.result # "ok"
  BY <1>1 DEF NextValue
<1>2. CASE m.result = "ok"
  <2>1. PICK n \in Nat : m = Ok(n)
    BY <1>2, Results DEF LoopValues
  <2>2. m.value = n
    BY <2>1, Results
  <2>3. n * 10 + c \in Nat
    BY DEF Characters
  <2>4. Ok(m.value * 10 + c) \in LoopValues
    BY <2>2, <2>3 DEF LoopValues
  <2>5. InvalidArgument \in LoopValues /\ OutOfRange \in LoopValues
    BY DEF LoopValues
  <2>6. QED
    BY <1>2, <2>4, <2>5, Zenon DEF NextValue
<1>3. QED
  BY <1>1, <1>2

LoopOver(digits, limit) ==
  LET mag[i \in 0..Len(digits)] ==
        IF i = 0 THEN Ok(0)
        ELSE IF mag[i - 1].result # "ok" THEN mag[i - 1]
        ELSE IF digits[i] \notin Digit THEN InvalidArgument
        ELSE IF mag[i - 1].value > (limit - digits[i]) \div 10 THEN OutOfRange
        ELSE Ok(mag[i - 1].value * 10 + digits[i])
  IN  mag

LEMMA LoopRecursion ==
  ASSUME NEW s \in Seq(Characters), NEW limit \in Nat
  PROVE  /\ LoopOver(s, limit)[0] = Ok(0)
         /\ \A i \in 1..Len(s) :
              LoopOver(s, limit)[i] = NextValue(LoopOver(s, limit)[i - 1], s[i], limit)
<1> DEFINE n == Len(s)
           cell(g, i) == IF i = 0 THEN Ok(0) ELSE NextValue(g[i - 1], s[i], limit)
           step == [i \in 0..n |-> [g \in [0..n -> LoopValues] |-> cell(g, i)]]
           F(f) == f = [i \in 0..n |-> cell(f, i)]
           M == LoopOver(s, limit)
<1>1. n \in Nat /\ \A i \in 1..n : s[i] \in Characters
  BY LenProperties, ElementOfSeq
<1>2. M = CHOOSE g : F(g)
  BY Zenon DEF LoopOver, NextValue
<1> HIDE DEF M
<1>3. \A i \in 0..n : i # 0 => i - 1 \in 0..n /\ i - 1 \in 0..(i - 1) /\ i \in 1..n
  BY <1>1
<1>4. Ok(0) \in LoopValues
  BY DEF LoopValues
<1>5. ASSUME NEW i \in 0..n, NEW g \in [0..n -> LoopValues] PROVE cell(g, i) \in LoopValues
  <2>1. CASE i = 0
    BY <1>4, <2>1
  <2>2. CASE i # 0
    <3>1. g[i - 1] \in LoopValues /\ s[i] \in Characters
      BY <1>1, <1>3, <2>2
    <3>2. NextValue(g[i - 1], s[i], limit) \in LoopValues
      BY <3>1, NextValueType
    <3>3. QED
      BY <2>2, <3>2
  <2>3. QED
    BY <2>1, <2>2
<1>6. step \in [0..n -> [[0..n -> LoopValues] -> LoopValues]]
  <2> HIDE DEF cell, n
  <2>1. QED
    BY <1>5
<1>7. \A i \in 0..n : \A g \in [0..n -> LoopValues] : step[i][g] = cell(g, i)
  <2> HIDE DEF cell, n
  <2>1. QED
    OBVIOUS
<1> HIDE DEF step, n
<1>8. LooksBack(step, n, LoopValues)
  <2>1. ASSUME NEW i \in 0..n, NEW g \in [0..n -> LoopValues], NEW h \in [0..n -> LoopValues],
               \A j \in 0..(i - 1) : g[j] = h[j]
        PROVE  step[i][g] = step[i][h]
    <3>1. cell(g, i) = cell(h, i)
      BY <1>3, <2>1
    <3>2. step[i][g] = cell(g, i) /\ step[i][h] = cell(h, i)
      BY <1>7
    <3> HIDE DEF cell
    <3>3. QED
      BY <3>1, <3>2
  <2>2. QED
    BY <2>1 DEF LooksBack
<1>9. PICK f \in [0..n -> LoopValues] : Solves(f, step, n)
  BY <1>1, <1>4, <1>6, <1>8, RecursionExists, Zenon
<1>10. F(f)
  <2>1. \A i \in 0..n : f[i] = cell(f, i)
    BY <1>7, <1>9 DEF Solves
  <2> HIDE DEF cell
  <2>2. QED
    BY <2>1
<1>11. F(M)
  <2> HIDE DEF F
  <2>1. QED
    BY <1>2, <1>10
<1>12. \A i \in 0..n : M[i] = cell(M, i)
  <2> HIDE DEF cell
  <2>1. QED
    BY <1>11
<1>13. M[0] = Ok(0)
  BY <1>1, <1>12
<1>14. \A i \in 1..n : M[i] = NextValue(M[i - 1], s[i], limit)
  <2>1. \A i \in 1..n : i \in 0..n /\ i # 0
    BY <1>1
  <2>2. QED
    BY <1>12, <2>1
<1>15. QED
  BY <1>13, <1>14 DEF M, n

LEMMA LoopIsLast ==
  ASSUME NEW s, NEW limit
  PROVE  DigitLoop(s, limit) = LoopOver(s, limit)[Len(s)]
BY Zenon DEF DigitLoop, LoopOver

\* The loop over no characters, and over one more.
LEMMA LoopStarts ==
  ASSUME NEW limit \in Nat
  PROVE  DigitLoop(<<>>, limit) = Ok(0)
<1>1. <<>> \in Seq(Characters) /\ Len(<<>>) = 0
  OBVIOUS
<1>2. LoopOver(<<>>, limit)[0] = Ok(0)
  BY <1>1, LoopRecursion
<1>3. QED
  BY <1>1, <1>2, LoopIsLast

LEMMA LoopAppend ==
  ASSUME NEW s \in Seq(Characters), NEW c \in Characters, NEW limit \in Nat
  PROVE  DigitLoop(Append(s, c), limit) = NextValue(DigitLoop(s, limit), c, limit)
<1> DEFINE t == Append(s, c)
           n == Len(s)
           A == LoopOver(s, limit)
           B == LoopOver(t, limit)
           G == {i \in 0..n : A[i] = B[i]}
<1>1. /\ n \in Nat /\ t \in Seq(Characters) /\ Len(t) = n + 1 /\ t[n + 1] = c
      /\ \A i \in 1..n : t[i] = s[i]
  BY AppendProperties, LenProperties
<1>2. A[0] = Ok(0) /\ \A i \in 1..n : A[i] = NextValue(A[i - 1], s[i], limit)
  BY LoopRecursion
<1> HIDE DEF t, A
<1>3. B[0] = Ok(0) /\ \A i \in 1..(n + 1) : B[i] = NextValue(B[i - 1], t[i], limit)
  BY <1>1, LoopRecursion
<1> HIDE DEF B, n
<1>4. ASSUME NEW k \in 0..n, \A j \in 0..(k - 1) : j \in G
      PROVE  k \in G
  <2>1. CASE k = 0
    BY <1>2, <1>3, <2>1
  <2>2. CASE k \in 1..n
    <3>1. k - 1 \in 0..(k - 1) /\ k \in 1..(n + 1)
      BY <1>1, <2>2
    <3>2. A[k - 1] = B[k - 1]
      BY <1>4, <3>1
    <3>3. A[k] = NextValue(A[k - 1], s[k], limit) /\ B[k] = NextValue(B[k - 1], t[k], limit)
      BY <1>2, <1>3, <2>2, <3>1
    <3>4. t[k] = s[k]
      BY <1>1, <2>2
    <3>5. A[k] = B[k]
      BY <3>2, <3>3, <3>4, Zenon
    <3>6. QED
      BY <3>5
  <2>3. QED
    BY <2>1, <2>2
<1>5. \A k \in 0..n : k \in G
  <2> HIDE DEF G
  <2>1. QED
    BY <1>1, <1>4, Induction
<1>6. A[n] = B[n]
  BY <1>1, <1>5
<1>7. n + 1 \in 1..(n + 1) /\ (n + 1) - 1 = n
  BY <1>1
<1>8. B[n + 1] = NextValue(B[n], c, limit)
  BY <1>1, <1>3, <1>7
<1>9. DigitLoop(s, limit) = A[n] /\ DigitLoop(t, limit) = B[n + 1]
  BY <1>1, LoopIsLast DEF A, B, n
<1>10. QED
  BY <1>6, <1>8, <1>9 DEF t

\* The loop ends with a number, or with one of two exceptions.
LEMMA LoopType ==
  ASSUME NEW s \in Seq(Characters), NEW limit \in Nat
  PROVE  DigitLoop(s, limit) \in LoopValues
<1> DEFINE n == Len(s)
           M == LoopOver(s, limit)
           G == {i \in 0..n : M[i] \in LoopValues}
<1>1. n \in Nat /\ \A i \in 1..n : s[i] \in Characters
  BY LenProperties, ElementOfSeq
<1>2. M[0] = Ok(0) /\ \A i \in 1..n : M[i] = NextValue(M[i - 1], s[i], limit)
  BY LoopRecursion
<1> HIDE DEF M, n
<1>3. ASSUME NEW k \in 0..n, \A j \in 0..(k - 1) : j \in G
      PROVE  k \in G
  <2>1. CASE k = 0
    <3>1. Ok(0) \in LoopValues
      BY DEF LoopValues
    <3>2. QED
      BY <1>2, <2>1, <3>1
  <2>2. CASE k \in 1..n
    <3>1. k - 1 \in 0..(k - 1)
      BY <2>2
    <3>2. M[k - 1] \in LoopValues
      BY <1>3, <3>1
    <3>3. NextValue(M[k - 1], s[k], limit) \in LoopValues
      BY <1>1, <2>2, <3>2, NextValueType
    <3>4. M[k] \in LoopValues
      BY <1>2, <2>2, <3>3
    <3>5. QED
      BY <3>4
  <2>3. QED
    BY <2>1, <2>2
<1>4. \A i \in 0..n : i \in G
  <2> HIDE DEF G
  <2>1. QED
    BY <1>1, <1>3, Induction
<1>5. M[n] \in LoopValues
  BY <1>1, <1>4
<1>6. QED
  BY <1>5, LoopIsLast DEF M, n

LEMMA LoopResult ==
  ASSUME NEW m \in LoopValues
  PROVE  /\ m.result \in {"ok", "invalid_argument", "out_of_range"}
         /\ m.result = "ok" => m.value \in Nat /\ m = Ok(m.value)
         /\ m.result # "ok" => m \in {InvalidArgument, OutOfRange}
<1>1. CASE \E n \in Nat : m = Ok(n)
  BY <1>1, Results
<1>2. CASE m \in {InvalidArgument, OutOfRange}
  BY <1>2, Results
<1>3. QED
  BY <1>1, <1>2 DEF LoopValues

\* A turn that goes on: the number read so far stays within the limit.
LEMMA NextValueAccepts ==
  ASSUME NEW a \in Nat, NEW c \in 0..9, NEW limit \in Nat
  PROVE  NextValue(Ok(a), c, limit) = IF a * 10 + c <= limit THEN Ok(a * 10 + c) ELSE OutOfRange
<1>1. a > (limit - c) \div 10 <=> ~(a * 10 + c <= limit)
  <2> DEFINE q == (limit - c) \div 10
             r == (limit - c) % 10
  <2>1. limit - c = 10 * q + r /\ q \in Int /\ r \in 0..9
    OBVIOUS
  <2> HIDE DEF q, r
  <2>2. a > q <=> ~(a * 10 + c <= limit)
    BY <2>1
  <2>3. QED
    BY <2>2 DEF q
<1>2. Ok(a).result = "ok" /\ Ok(a).value = a
  BY Results
<1>3. c \in Digit
  BY DEF Digit
<1>4. NextValue(Ok(a), c, limit) =
        IF a > (limit - c) \div 10 THEN OutOfRange ELSE Ok(a * 10 + c)
  BY <1>2, <1>3, Zenon DEF NextValue
<1>5. CASE a * 10 + c <= limit
  <2>1. ~(a > (limit - c) \div 10)
    BY <1>1, <1>5
  <2>2. NextValue(Ok(a), c, limit) = Ok(a * 10 + c)
    BY <1>4, <2>1, Zenon
  <2>3. QED
    BY <1>5, <2>2, Zenon
<1>6. CASE ~(a * 10 + c <= limit)
  <2>1. a > (limit - c) \div 10
    BY <1>1, <1>6
  <2>2. NextValue(Ok(a), c, limit) = OutOfRange
    BY <1>4, <2>1, Zenon
  <2>3. QED
    BY <1>6, <2>2, Zenon
<1>7. QED
  BY <1>5, <1>6

\* What is printed is read.
LEMMA NumeralIsRead ==
  ASSUME NEW limit \in Nat, NEW n \in 0..limit
  PROVE  DigitLoop(Numeral(n), limit) = Ok(n)
<1> DEFINE G == {k \in 0..n : DigitLoop(Numeral(k), limit) = Ok(k)}
<1>1. ASSUME NEW k \in 0..n, \A j \in 0..(k - 1) : j \in G
      PROVE  k \in G
  <2>0. k \in Nat /\ k <= limit
    OBVIOUS
  <2>1. CASE k < 10
    <3>1. Numeral(k) = <<k>> /\ k \in 0..9 /\ k \in Characters
      BY <2>0, <2>1, NumeralSteps DEF Characters
    <3>2. <<>> \in Seq(Characters) /\ <<k>> = Append(<<>>, k)
      OBVIOUS
    <3>3. DigitLoop(<<k>>, limit) = NextValue(Ok(0), k, limit)
      BY <3>1, <3>2, LoopAppend, LoopStarts
    <3>4. NextValue(Ok(0), k, limit) = Ok(k)
      <4>1. 0 \in Nat /\ 0 * 10 + k = k
        BY <2>0
      <4>2. NextValue(Ok(0), k, limit) = IF 0 * 10 + k <= limit THEN Ok(0 * 10 + k) ELSE OutOfRange
        BY <3>1, <4>1, NextValueAccepts
      <4>3. QED
        BY <2>0, <4>1, <4>2
    <3>5. QED
      BY <3>1, <3>3, <3>4
  <2>2. CASE ~(k < 10)
    <3> DEFINE d == k \div 10
               c == k % 10
    <3>1. d \in 0..(k - 1) /\ d \in Nat /\ c \in 0..9 /\ d * 10 + c = k
      BY <2>0, <2>2
    <3>2. Numeral(k) = Append(Numeral(d), c)
      BY <2>0, <2>2, NumeralSteps
    <3> HIDE DEF d, c
    <3>3. DigitLoop(Numeral(d), limit) = Ok(d)
      BY <1>1, <3>1
    <3>4. Numeral(d) \in Seq(Characters) /\ c \in Characters
      <4>1. 0..9 \subseteq Characters
        BY DEF Characters
      <4>2. Numeral(d) \in Seq(0..9)
        BY <3>1, NumeralType DEF IsNumeral
      <4>3. QED
        BY <3>1, <4>1, <4>2, SeqMonotonic
    <3>5. DigitLoop(Numeral(k), limit) = NextValue(Ok(d), c, limit)
      BY <3>2, <3>3, <3>4, LoopAppend
    <3>6. NextValue(Ok(d), c, limit) = IF d * 10 + c <= limit THEN Ok(d * 10 + c) ELSE OutOfRange
      BY <3>1, NextValueAccepts
    <3>7. NextValue(Ok(d), c, limit) = Ok(k)
      BY <2>0, <3>1, <3>6
    <3>8. QED
      BY <3>5, <3>7
  <2>3. QED
    BY <2>1, <2>2
<1>2. \A k \in 0..n : k \in G
  <2> HIDE DEF G
  <2>1. n \in Nat
    OBVIOUS
  <2>2. QED
    BY <1>1, <2>1, Induction
<1>3. n \in 0..n
  OBVIOUS
<1>4. QED
  BY <1>2, <1>3

\* What is read was printed, unless there is a leading zero.
ReadAsPrinted(s, limit) ==
  s # <<>> /\ s[1] # 0 /\ DigitLoop(s, limit).result = "ok" =>
    \E v \in 1..limit : DigitLoop(s, limit) = Ok(v) /\ s = Numeral(v)

LEMMA LastTurn ==
  ASSUME NEW s \in Seq(Characters), NEW c \in Characters, NEW limit \in Nat,
         ReadAsPrinted(s, limit)
  PROVE  ReadAsPrinted(Append(s, c), limit)
<1> DEFINE t == Append(s, c)
           m == DigitLoop(s, limit)
<1>1. SUFFICES ASSUME t[1] # 0, DigitLoop(t, limit).result = "ok"
               PROVE  \E v \in 1..limit : DigitLoop(t, limit) = Ok(v) /\ t = Numeral(v)
  BY Zenon DEF ReadAsPrinted
<1>2. DigitLoop(t, limit) = NextValue(m, c, limit)
  BY LoopAppend
<1>3. m \in LoopValues
  BY LoopType
<1> HIDE DEF m
<1>4. m.result = "ok"
  BY <1>1, <1>2 DEF NextValue
<1>5. c \in 0..9
  BY <1>1, <1>2, <1>4, Results DEF NextValue, Digit
<1>6. PICK a \in Nat : m = Ok(a)
  BY <1>3, <1>4, LoopResult
<1> DEFINE b == a * 10 + c
<1>7. b \in Nat /\ b <= limit /\ DigitLoop(t, limit) = Ok(b)
  <2>1. NextValue(Ok(a), c, limit) = IF b <= limit THEN Ok(b) ELSE OutOfRange
    BY <1>5, NextValueAccepts
  <2>2. b \in Nat
    BY <1>5
  <2> HIDE DEF b
  <2>3. b <= limit
    BY <1>1, <1>2, <1>6, <2>1, Results
  <2>4. QED
    BY <1>2, <1>6, <2>1, <2>2, <2>3
<1>8. CASE s = <<>>
  <2>1. m = Ok(0) /\ a = 0
    <3>1. m = Ok(0)
      BY <1>8, LoopStarts DEF m
    <3>2. Ok(a).value = a /\ Ok(0).value = 0
      BY Results
    <3>3. QED
      BY <1>6, <3>1, <3>2
  <2>2. b = c
    BY <1>5, <2>1
  <2>3. t = <<c>> /\ t[1] = c
    BY <1>8
  <2>4. Numeral(c) = <<c>>
    BY <1>5, NumeralSteps
  <2> HIDE DEF b, t
  <2>5. b \in 1..limit
    BY <1>1, <1>7, <2>2, <2>3
  <2>6. QED
    BY <1>7, <2>2, <2>3, <2>4, <2>5
<1>9. CASE s # <<>>
  <2>1. Len(s) \in Nat \ {0}
    BY <1>9, EmptySeq
  <2>2. t[1] = s[1]
    BY <2>1, AppendProperties
  <2>3. PICK v \in 1..limit : m = Ok(v) /\ s = Numeral(v)
    BY <1>1, <1>4, <1>9, <2>2 DEF ReadAsPrinted, m
  <2>4. v = a
    <3>1. Ok(a).value = a /\ Ok(v).value = v
      BY Results
    <3>2. QED
      BY <1>6, <2>3, <3>1
  <2>5. b >= 10 /\ b \div 10 = a /\ b % 10 = c /\ a >= 1
    <3>1. a >= 1 /\ a \in Nat
      BY <2>4
    <3>2. \A x \in Nat, y \in 0..9 :
            x >= 1 => x * 10 + y >= 10 /\ (x * 10 + y) \div 10 = x /\ (x * 10 + y) % 10 = y
      OBVIOUS
    <3>3. QED
      BY <1>5, <3>1, <3>2
  <2> HIDE DEF b
  <2>6. ~(b < 10)
    BY <1>7, <2>5
  <2>7. Numeral(b) = Append(Numeral(b \div 10), b % 10)
    BY <1>7, <2>6, NumeralSteps
  <2>8. Numeral(b) = t
    BY <2>3, <2>4, <2>5, <2>7
  <2>9. b \in 1..limit
    BY <1>7, <2>5
  <2> HIDE DEF t
  <2>10. QED
    BY <1>7, <2>8, <2>9
<1>10. QED
  BY <1>8, <1>9

\* Every sequence is a shorter one and one more element.
LEMMA LastOf ==
  ASSUME NEW S, NEW s \in Seq(S), s # <<>>
  PROVE  \E t \in Seq(S), c \in S : s = Append(t, c) /\ Len(s) = Len(t) + 1
<1> DEFINE n == Len(s)
           t == [i \in 1..(n - 1) |-> s[i]]
<1>1. n \in Nat \ {0} /\ \A i \in 1..n : s[i] \in S
  BY EmptySeq, ElementOfSeq
<1>2. s \in [1..n -> S]
  BY LenProperties, <1>1
<1> HIDE DEF n
<1>3. t \in [1..(n - 1) -> S] /\ n - 1 \in Nat
  BY <1>1
<1>4. t \in Seq(S) /\ Len(t) = n - 1
  BY <1>3, SeqDef, LenProperties
<1> DEFINE u == Append(t, s[n])
<1>5. s[n] \in S
  BY <1>1
<1>6. /\ u \in Seq(S) /\ Len(u) = n /\ u[n] = s[n]
      /\ \A i \in 1..(n - 1) : u[i] = t[i]
  <2> HIDE DEF t
  <2>1. /\ u \in Seq(S) /\ Len(u) = Len(t) + 1 /\ u[Len(t) + 1] = s[n]
        /\ \A i \in 1..Len(t) : u[i] = t[i]
    BY <1>4, <1>5, AppendProperties
  <2> HIDE DEF u
  <2>2. QED
    BY <1>1, <1>4, <2>1
<1> HIDE DEF u
<1>7. \A i \in 1..n : u[i] = s[i]
  BY <1>1, <1>6
<1>8. u = s
  <2>1. Len(s) = n
    BY DEF n
  <2>2. QED
    BY <1>6, <1>7, <2>1, SeqEqual
<1> HIDE DEF t
<1>9. QED
  BY <1>1, <1>4, <1>5, <1>8 DEF n, u

LEMMA ReadIsNumeral ==
  ASSUME NEW s \in Seq(Characters), NEW limit \in Nat
  PROVE  ReadAsPrinted(s, limit)
<1> DEFINE N == Len(s)
           G == {n \in 0..N : \A t \in Seq(Characters) : Len(t) = n => ReadAsPrinted(t, limit)}
<1>1. N \in Nat
  BY LenProperties
<1>2. ASSUME NEW n \in 0..N, \A j \in 0..(n - 1) : j \in G
      PROVE  n \in G
  <2>1. SUFFICES ASSUME NEW t \in Seq(Characters), Len(t) = n PROVE ReadAsPrinted(t, limit)
    OBVIOUS
  <2>2. CASE t = <<>>
    BY <2>2 DEF ReadAsPrinted
  <2>3. CASE t # <<>>
    <3>1. PICK u \in Seq(Characters), c \in Characters : t = Append(u, c) /\ Len(t) = Len(u) + 1
      BY <2>3, LastOf
    <3>2. Len(u) \in 0..(n - 1)
      <4>1. Len(u) \in Nat
        BY LenProperties
      <4>2. QED
        BY <2>1, <3>1, <4>1
    <3>3. ReadAsPrinted(u, limit)
      BY <1>2, <3>2
    <3>4. QED
      BY <3>1, <3>3, LastTurn
  <2>4. QED
    BY <2>2, <2>3
<1>3. \A n \in 0..N : n \in G
  <2> HIDE DEF G, N
  <2>1. QED
    BY <1>1, <1>2, Induction
<1>4. N \in 0..N
  BY <1>1
<1>5. QED
  BY <1>3, <1>4

\* Digits are never called malformed.
LEMMA DigitsAreWellFormed ==
  ASSUME NEW s \in Seq(0..9), NEW limit \in Nat
  PROVE  DigitLoop(s, limit) # InvalidArgument
<1> DEFINE N == Len(s)
           G == {n \in 0..N : \A t \in Seq(0..9) : Len(t) = n => DigitLoop(t, limit) # InvalidArgument}
<1>1. N \in Nat
  BY LenProperties
<1>2. ASSUME NEW n \in 0..N, \A j \in 0..(n - 1) : j \in G
      PROVE  n \in G
  <2>1. SUFFICES ASSUME NEW t \in Seq(0..9), Len(t) = n PROVE DigitLoop(t, limit) # InvalidArgument
    OBVIOUS
  <2>2. CASE t = <<>>
    BY <2>2, LoopStarts, Results
  <2>3. CASE t # <<>>
    <3>1. PICK u \in Seq(0..9), c \in 0..9 : t = Append(u, c) /\ Len(t) = Len(u) + 1
      BY <2>3, LastOf
    <3>2. Len(u) \in 0..(n - 1)
      <4>1. Len(u) \in Nat
        BY LenProperties
      <4>2. QED
        BY <2>1, <3>1, <4>1
    <3>3. DigitLoop(u, limit) # InvalidArgument
      BY <1>2, <3>2
    <3>4. u \in Seq(Characters) /\ c \in Characters
      <4>1. 0..9 \subseteq Characters
        BY DEF Characters
      <4>2. QED
        BY <4>1, SeqMonotonic
    <3> DEFINE m == DigitLoop(u, limit)
    <3>5. DigitLoop(t, limit) = NextValue(m, c, limit) /\ m \in LoopValues
      BY <3>1, <3>4, LoopAppend, LoopType
    <3>6. m # InvalidArgument
      BY <3>3
    <3> HIDE DEF m
    <3>7. NextValue(m, c, limit) # InvalidArgument
      <4>1. CASE m.result = "ok"
        <5>1. PICK a \in Nat : m = Ok(a)
          BY <3>5, <4>1, LoopResult
        <5> DEFINE b == a * 10 + c
        <5>2. NextValue(Ok(a), c, limit) = IF b <= limit THEN Ok(b) ELSE OutOfRange
          BY NextValueAccepts
        <5> HIDE DEF b
        <5>3. QED
          BY <5>1, <5>2, Results
      <4>2. CASE m.result # "ok"
        BY <3>6, <4>2 DEF NextValue
      <4>3. QED
        BY <4>1, <4>2
    <3>8. QED
      BY <3>5, <3>7
  <2>4. QED
    BY <2>2, <2>3
<1>3. \A n \in 0..N : n \in G
  <2> HIDE DEF G, N
  <2>1. QED
    BY <1>1, <1>2, Induction
<1>4. N \in 0..N
  BY <1>1
<1>5. QED
  BY <1>3, <1>4

-----------------------------------------------------------------------------
(***************************************************************************)
(* The wire form: one number of it.                                        *)
(***************************************************************************)
LEMMA WireLimits == kMax \in Nat /\ kMax > 0 /\ kMinMagnitude = kMax + 1 /\ Int64 = (-kMax - 1)..kMax
  BY Ranges

Negative(s) == s # <<>> /\ s[1] = Minus

Magnitude(s) == IF Negative(s) THEN Tail(s) ELSE s

\* The limit of the digit loop.
LimitOf(s) == IF Negative(s) THEN kMinMagnitude ELSE kMax

LEMMA MagnitudeType ==
  ASSUME NEW s \in Seq(Characters)
  PROVE  /\ Magnitude(s) \in Seq(Characters)
         /\ Negative(s) => s = <<Minus>> \o Magnitude(s)
         /\ ~Negative(s) => s = Magnitude(s)
<1>1. CASE Negative(s)
  <2>1. s # <<>> /\ s[1] = Minus
    BY <1>1 DEF Negative
  <2>2. Tail(s) \in Seq(Characters)
    BY <2>1, HeadTailProperties
  <2>3. s = <<Head(s)>> \o Tail(s)
    BY <2>1, HeadTailProperties
  <2>4. Head(s) = Minus
    BY <2>1
  <2>5. QED
    BY <1>1, <2>2, <2>3, <2>4 DEF Magnitude
<1>2. CASE ~Negative(s)
  BY <1>2 DEF Magnitude
<1>3. QED
  BY <1>1, <1>2

LEMMA ParseCases ==
  ASSUME NEW s, NEW is_denominator \in BOOLEAN
  PROVE  parse_wire_magnitude(s, is_denominator) =
           IF Magnitude(s) = <<>> \/ (is_denominator /\ Negative(s)) THEN InvalidArgument
           ELSE IF Magnitude(s)[1] = 0
                THEN IF Len(Magnitude(s)) # 1 \/ Negative(s) THEN InvalidArgument ELSE Ok(0)
           ELSE DigitLoop(Magnitude(s), LimitOf(s))
BY Zenon DEF parse_wire_magnitude, Magnitude, Negative, LimitOf

LEMMA ZeroNumeral == Numeral(0) = <<0>>
  BY NumeralSteps

\* The integer that a text and its magnitude say.
Said(s, v) == IF Negative(s) THEN -v ELSE v

\* What is accepted is what the integer prints.
ReadFrom(s, p) ==
  /\ p \in LoopValues
  /\ p.result = "ok" =>
       /\ s # <<>> /\ p.value \in Nat /\ p = Ok(p.value)
       /\ Said(s, p.value) \in Int64 /\ s = Decimal(Said(s, p.value))

LEMMA NumberIsPrinted ==
  ASSUME NEW s \in Seq(Characters), NEW is_denominator \in BOOLEAN
  PROVE  /\ ReadFrom(s, parse_wire_magnitude(s, is_denominator))
         /\ parse_wire_magnitude(s, is_denominator).result = "ok" => ~(is_denominator /\ Negative(s))
<1> DEFINE d == Magnitude(s)
           p == parse_wire_magnitude(s, is_denominator)
           limit == LimitOf(s)
<1>1. d \in Seq(Characters) /\ (Negative(s) => s = <<Minus>> \o d) /\ (~Negative(s) => s = d)
  BY MagnitudeType
<1>2. p = IF d = <<>> \/ (is_denominator /\ Negative(s)) THEN InvalidArgument
          ELSE IF d[1] = 0 THEN IF Len(d) # 1 \/ Negative(s) THEN InvalidArgument ELSE Ok(0)
          ELSE DigitLoop(d, limit)
  BY ParseCases
<1>3. limit \in Nat /\ kMax \in Nat /\ kMinMagnitude = kMax + 1 /\ Int64 = (-kMax - 1)..kMax
  BY WireLimits DEF LimitOf
<1> HIDE DEF d, p, limit
<1>4. InvalidArgument \in LoopValues /\ OutOfRange \in LoopValues /\ InvalidArgument.result # "ok"
  BY Results DEF LoopValues
<1>5. CASE d = <<>> \/ (is_denominator /\ Negative(s))
  <2>1. p = InvalidArgument
    BY <1>2, <1>5
  <2>2. QED
    BY <1>4, <2>1 DEF ReadFrom, p
<1>6. CASE d # <<>> /\ ~(is_denominator /\ Negative(s)) /\ d[1] = 0
  <2>1. CASE Len(d) # 1 \/ Negative(s)
    <3>1. p = InvalidArgument
      BY <1>2, <1>6, <2>1
    <3>2. QED
      BY <1>4, <3>1 DEF ReadFrom, p
  <2>2. CASE Len(d) = 1 /\ ~Negative(s)
    <3>1. p = Ok(0)
      BY <1>2, <1>6, <2>2
    <3>2. s = d /\ d = <<0>>
      <4>1. <<0>> \in Seq(Characters) /\ Len(<<0>>) = 1 /\ <<0>>[1] = 0
        BY DEF Characters
      <4> DEFINE z == <<0>>
      <4>2. z \in Seq(Characters) /\ Len(z) = Len(d) /\ \A i \in 1..Len(d) : d[i] = z[i]
        BY <1>6, <2>2, <4>1
      <4> HIDE DEF z
      <4>3. d = z
        BY <1>1, <4>2, SeqEqual
      <4>4. QED
        BY <1>1, <2>2, <4>3 DEF z
    <3>3. Said(s, 0) = 0 /\ Decimal(0) = <<0>>
      BY <2>2, ZeroNumeral, DecimalIsNumeral DEF Said
    <3>4. Ok(0) \in LoopValues /\ Ok(0).value = 0 /\ 0 \in Int64
      BY <1>3, Results DEF LoopValues
    <3>5. s # <<>> /\ s = Decimal(Said(s, 0))
      BY <1>6, <3>2, <3>3
    <3>6. ReadFrom(s, Ok(0))
      BY <3>3, <3>4, <3>5 DEF ReadFrom
    <3>7. QED
      BY <1>6, <3>1, <3>6 DEF p
  <2>3. QED
    BY <2>1, <2>2
<1>7. CASE d # <<>> /\ ~(is_denominator /\ Negative(s)) /\ d[1] # 0
  <2>1. p = DigitLoop(d, limit)
    BY <1>2, <1>7
  <2>2. p \in LoopValues
    BY <1>1, <1>3, <2>1, LoopType
  <2>3. ASSUME p.result = "ok"
        PROVE  /\ s # <<>> /\ p.value \in Nat /\ p = Ok(p.value)
               /\ Said(s, p.value) \in Int64 /\ s = Decimal(Said(s, p.value))
    <3>1. PICK v \in 1..limit : p = Ok(v) /\ d = Numeral(v)
      BY <1>1, <1>3, <1>7, <2>1, <2>3, ReadIsNumeral DEF ReadAsPrinted
    <3>2. p.value = v /\ v \in Nat /\ v > 0 /\ v <= limit
      BY <1>3, <3>1, Results
    <3>3. CASE Negative(s)
      <4>1. limit = kMinMagnitude /\ Said(s, v) = -v
        BY <3>3 DEF limit, LimitOf, Said
      <4>2. -v \in Int64 /\ -v \in Int /\ -v < 0 /\ -(-v) = v
        BY <1>3, <3>2, <4>1
      <4> DEFINE w == -v
      <4>3. w \in Int /\ w < 0 /\ Numeral(-w) = Numeral(v)
        BY <4>2
      <4> HIDE DEF w
      <4>4. Decimal(w) = <<Minus>> \o Numeral(v)
        BY <4>3, DecimalIsNumeral
      <4>5. s = Decimal(w) /\ s # <<>>
        BY <1>1, <3>1, <3>3, <4>4 DEF Negative
      <4>6. QED
        BY <3>1, <3>2, <4>1, <4>2, <4>5 DEF w
    <3>4. CASE ~Negative(s)
      <4>1. limit = kMax /\ Said(s, v) = v
        BY <3>4 DEF limit, LimitOf, Said
      <4>2. v \in Int64
        BY <1>3, <3>2, <4>1
      <4>3. Decimal(v) = Numeral(v)
        BY <3>2, DecimalIsNumeral
      <4>4. s = Decimal(v) /\ s # <<>>
        BY <1>1, <1>7, <3>1, <3>4, <4>3
      <4>5. QED
        BY <3>1, <3>2, <4>1, <4>2, <4>4
    <3>5. QED
      BY <3>3, <3>4
  <2>4. ReadFrom(s, p)
    BY <2>2, <2>3 DEF ReadFrom
  <2>5. QED
    BY <1>7, <2>4 DEF p
<1>8. QED
  BY <1>5, <1>6, <1>7

\* What an integer prints is accepted, also the most negative one.
LEMMA PrintedNumberIsRead ==
  ASSUME NEW n \in Int64
  PROVE  /\ Decimal(n) \in Seq(Characters) /\ Decimal(n) # <<>>
         /\ Negative(Decimal(n)) <=> n < 0
         /\ parse_wire_magnitude(Decimal(n), FALSE) = Ok(magnitude(n))
         /\ n >= 0 => parse_wire_magnitude(Decimal(n), TRUE) = Ok(n)
<1> DEFINE s == Decimal(n)
           a == magnitude(n)
           d == Numeral(a)
<1>1. /\ kMax \in Nat /\ kMax > 0 /\ kMinMagnitude = kMax + 1 /\ Int64 = (-kMax - 1)..kMax
      /\ n \in Int
  BY WireLimits
<1>2. a \in Nat /\ (n < 0 => a = -n /\ a <= kMinMagnitude /\ a # 0) /\ (n >= 0 => a = n /\ a <= kMax)
  BY <1>1 DEF magnitude
<1> HIDE DEF a
<1>3. /\ d \in Seq(0..9) /\ d # <<>> /\ (a # 0 => d[1] # 0)
  BY <1>2, NumeralType DEF IsNumeral
<1>4. d \in Seq(Characters) /\ <<Minus>> \in Seq(Characters) /\ d[1] # Minus
  <2>1. 0..9 \subseteq Characters /\ Minus \in Characters
    BY DEF Characters, Minus
  <2>2. d \in Seq(Characters)
    BY <1>3, <2>1, SeqMonotonic
  <2>3. Len(d) \in Nat \ {0}
    BY <1>3, EmptySeq
  <2>4. d[1] \in 0..9
    BY <1>3, <2>3, ElementOfSeq
  <2>5. QED
    BY <2>1, <2>2, <2>4 DEF Minus
<1> HIDE DEF d
<1>5. CASE n >= 0
  <2>1. s = d
    BY <1>1, <1>2, <1>5, DecimalIsNumeral DEF d
  <2>2. ~Negative(s)
    BY <1>4, <2>1 DEF Negative
  <2>3. Magnitude(s) = d /\ LimitOf(s) = kMax
    BY <2>1, <2>2 DEF Magnitude, LimitOf
  <2>4. ASSUME NEW b \in BOOLEAN PROVE parse_wire_magnitude(s, b) = Ok(a)
    <3>1. parse_wire_magnitude(s, b) =
            IF d[1] = 0 THEN IF Len(d) # 1 THEN InvalidArgument ELSE Ok(0)
            ELSE DigitLoop(d, kMax)
      BY <1>3, <2>2, <2>3, ParseCases
    <3>2. CASE a = 0
      <4>1. d = <<0>>
        BY <3>2, ZeroNumeral DEF d
      <4>2. d[1] = 0 /\ Len(d) = 1
        BY <4>1
      <4>3. QED
        BY <3>1, <3>2, <4>2
    <3>3. CASE a # 0
      <4>1. a \in 0..kMax
        BY <1>1, <1>2, <1>5
      <4>2. DigitLoop(d, kMax) = Ok(a)
        BY <1>1, <4>1, NumeralIsRead DEF d
      <4>3. QED
        BY <1>3, <3>1, <3>3, <4>2
    <3>4. QED
      BY <3>2, <3>3
  <2>5. s \in Seq(Characters) /\ s # <<>>
    BY <1>3, <1>4, <2>1
  <2>6. ~(n < 0) /\ a = n
    BY <1>1, <1>2, <1>5
  <2> HIDE DEF s
  <2>7. QED
    BY <1>5, <2>2, <2>4, <2>5, <2>6 DEF s, a
<1>6. CASE n < 0
  <2>1. s = <<Minus>> \o d
    BY <1>1, <1>2, <1>6, DecimalIsNumeral DEF d
  <2>2. s \in Seq(Characters) /\ s # <<>> /\ s[1] = Minus /\ Tail(s) = d
    <3>1. s \in Seq(Characters) /\ s # <<>> /\ s[1] = Minus
      <4>1. Len(<<Minus>>) = 1 /\ <<Minus>>[1] = Minus
        OBVIOUS
      <4> DEFINE h == <<Minus>>
      <4>2. h \in Seq(Characters) /\ Len(h) = 1 /\ h[1] = Minus
        BY <1>4, <4>1
      <4> HIDE DEF h
      <4>3. /\ h \o d \in Seq(Characters) /\ Len(h \o d) = 1 + Len(d) /\ Len(d) \in Nat
            /\ (h \o d)[1] = h[1]
        <5>1. /\ h \o d \in Seq(Characters) /\ Len(h \o d) = Len(h) + Len(d) /\ Len(d) \in Nat
              /\ \A i \in 1..(Len(h) + Len(d)) : (h \o d)[i] = IF i <= Len(h) THEN h[i] ELSE d[i - Len(h)]
          BY <1>4, <4>2, ConcatProperties, LenProperties
        <5>2. 1 \in 1..(Len(h) + Len(d)) /\ 1 <= Len(h)
          BY <4>2, <5>1
        <5>3. (h \o d)[1] = h[1]
          BY <5>1, <5>2
        <5>4. QED
          BY <4>2, <5>1, <5>3
      <4>4. h \o d # <<>>
        BY <4>3
      <4>5. s = h \o d
        BY <2>1 DEF h
      <4> HIDE DEF s
      <4>6. QED
        BY <4>2, <4>3, <4>4, <4>5
    <3>2. Tail(<<Minus>> \o d) = d
      BY <1>4
    <3>3. QED
      BY <2>1, <3>1, <3>2
  <2> HIDE DEF s
  <2>3. Negative(s)
    BY <2>2 DEF Negative
  <2>4. Magnitude(s) = d /\ LimitOf(s) = kMinMagnitude
    BY <2>2, <2>3 DEF Magnitude, LimitOf
  <2>5. d[1] # 0
    BY <1>2, <1>3, <1>6
  <2>6. parse_wire_magnitude(s, FALSE) = DigitLoop(d, kMinMagnitude)
    BY <1>3, <2>4, <2>5, ParseCases
  <2>7. DigitLoop(d, kMinMagnitude) = Ok(a)
    <3>1. kMinMagnitude \in Nat /\ a \in 0..kMinMagnitude
      BY <1>1, <1>2, <1>6
    <3>2. QED
      BY <3>1, NumeralIsRead DEF d
  <2>8. ~(n >= 0)
    BY <1>1, <1>6
  <2>9. QED
    BY <1>6, <2>2, <2>3, <2>6, <2>7, <2>8 DEF s, a
<1>7. n >= 0 \/ n < 0
  BY <1>1
<1>8. QED
  BY <1>5, <1>6, <1>7, Zenon

-----------------------------------------------------------------------------
(***************************************************************************)
(* The wire form: documents.                                               *)
(***************************************************************************)
Field(key, text) == [key |-> key, text |-> text]

Written(num, den) ==
  [fields |-> << Field("numerator", num), Field("denominator", den) >>, wellFormed |-> TRUE]

TheOtherWay(num, den) ==
  [fields |-> << Field("denominator", den), Field("numerator", num) >>, wellFormed |-> TRUE]

LEMMA TheOtherWayIsSwapped ==
  ASSUME NEW num, NEW den
  PROVE  /\ Swapped(Written(num, den)) = TheOtherWay(num, den)
         /\ Swapped(TheOtherWay(num, den)) = Written(num, den)
<1>1. \A f, g : Swapped([fields |-> <<f, g>>, wellFormed |-> TRUE])
                  = [fields |-> <<g, f>>, wellFormed |-> TRUE]
  BY DEF Swapped
<1>2. QED
  BY <1>1, Zenon DEF Written, TheOtherWay

\* A complete document is the one with these two texts, in either order.
LEMMA CompleteIsWritten ==
  ASSUME NEW doc \in Document, FieldsComplete(doc)
  PROVE  \E num, den \in Seq(Characters) : doc \in {Written(num, den), TheOtherWay(num, den)}
<1> DEFINE fs == doc.fields
<1>1. /\ doc = [fields |-> fs, wellFormed |-> TRUE]
      /\ fs \in Seq([key : Keys, text : Seq(Characters)]) /\ Len(fs) = 2
      /\ {fs[i].key : i \in 1..2} = {"numerator", "denominator"}
  <2>1. doc = [fields |-> fs, wellFormed |-> doc.wellFormed] /\ doc.wellFormed \in BOOLEAN
    BY DEF Document
  <2>2. doc.wellFormed = TRUE
    BY <2>1 DEF FieldsComplete
  <2>3. fs \in Seq([key : Keys, text : Seq(Characters)])
    BY DEF Document, Characters
  <2>4. QED
    BY <2>1, <2>2, <2>3 DEF FieldsComplete
<1> HIDE DEF fs
<1> DEFINE FieldSet == [key : Keys, text : Seq(Characters)]
<1>2. fs[1] \in FieldSet /\ fs[2] \in FieldSet
  <2>1. fs \in Seq(FieldSet) /\ Len(fs) = 2
    BY <1>1
  <2> HIDE DEF FieldSet
  <2>2. fs \in [1..2 -> FieldSet]
    BY <2>1, LenProperties
  <2>3. QED
    BY <2>2
<1>3. PICK k1 \in Keys, t1 \in Seq(Characters) : fs[1] = Field(k1, t1)
  BY <1>2 DEF Field
<1>4. PICK k2 \in Keys, t2 \in Seq(Characters) : fs[2] = Field(k2, t2)
  BY <1>2 DEF Field
<1>5. fs = <<Field(k1, t1), Field(k2, t2)>>
  BY <1>1, <1>3, <1>4
<1>6. {k1, k2} = {"numerator", "denominator"}
  BY <1>1, <1>3, <1>4 DEF Field
<1>7. CASE k1 = "numerator" /\ k2 = "denominator"
  BY <1>1, <1>5, <1>7 DEF Written
<1>8. CASE k1 = "denominator" /\ k2 = "numerator"
  BY <1>1, <1>5, <1>8 DEF TheOtherWay
<1>9. QED
  BY <1>6, <1>7, <1>8

LEMMA WrittenIsComplete ==
  ASSUME NEW num, NEW den, NEW doc, doc \in {Written(num, den), TheOtherWay(num, den)}
  PROVE  /\ FieldsComplete(doc)
         /\ FieldText(doc, "numerator") = num /\ FieldText(doc, "denominator") = den
<1>1. CASE doc = Written(num, den)
  <2>1. /\ doc.wellFormed /\ Len(doc.fields) = 2
        /\ doc.fields[1] = Field("numerator", num) /\ doc.fields[2] = Field("denominator", den)
    BY <1>1 DEF Written
  <2>2. /\ doc.fields[1].key = "numerator" /\ doc.fields[2].key = "denominator"
        /\ doc.fields[1].text = num /\ doc.fields[2].text = den
    BY <2>1 DEF Field
  <2>3. FieldsComplete(doc)
    BY <2>1, <2>2 DEF FieldsComplete
  <2>4. (CHOOSE i \in 1..2 : doc.fields[i].key = "numerator") = 1
    BY <2>2
  <2>5. (CHOOSE i \in 1..2 : doc.fields[i].key = "denominator") = 2
    BY <2>2
  <2>6. QED
    BY <2>2, <2>3, <2>4, <2>5 DEF FieldText
<1>2. CASE doc = TheOtherWay(num, den)
  <2>1. /\ doc.wellFormed /\ Len(doc.fields) = 2
        /\ doc.fields[2] = Field("numerator", num) /\ doc.fields[1] = Field("denominator", den)
    BY <1>2 DEF TheOtherWay
  <2>2. /\ doc.fields[2].key = "numerator" /\ doc.fields[1].key = "denominator"
        /\ doc.fields[2].text = num /\ doc.fields[1].text = den
    BY <2>1 DEF Field
  <2>3. FieldsComplete(doc)
    BY <2>1, <2>2 DEF FieldsComplete
  <2>4. (CHOOSE i \in 1..2 : doc.fields[i].key = "numerator") = 2
    BY <2>2
  <2>5. (CHOOSE i \in 1..2 : doc.fields[i].key = "denominator") = 1
    BY <2>2
  <2>6. QED
    BY <2>2, <2>3, <2>4, <2>5 DEF FieldText
<1>3. QED
  BY <1>1, <1>2

LEMMA PrintedDocument ==
  ASSUME NEW t
  PROVE  to_canonical_json(t) = Written(Decimal(t[1]), Decimal(t[2]))
BY Zenon DEF to_canonical_json, Written, Field

\* The constructor leaves a canonical pair as it is.
LEMMA CanonicalIsKept ==
  ASSUME NEW n \in Int64, NEW d \in Nat, d <= kMax, is_canonical_form(n, d)
  PROVE  RationalTimeOf(n, d) = Ok(<<n, d>>) /\ <<n, d>> \in Canonical
<1>1. /\ kMax \in Nat /\ kMinMagnitude = kMax + 1 /\ Int64 = (-kMax - 1)..kMax /\ n \in Int
  BY WireLimits
<1>2. d > 0 /\ gcd_u64(magnitude(n), magnitude(d)) = 1 /\ magnitude(d) = d
  BY DEF is_canonical_form, magnitude
<1> DEFINE a == magnitude(n)
           neg == (n < 0) # (d < 0)
<1>3. a \in Nat /\ neg \in BOOLEAN /\ n = Signed(neg, a) /\ Fits(neg, a, d)
  BY <1>1, <1>2 DEF magnitude, Signed, Fits
<1>4. RationalTimeOf(n, d) = Assemble(neg, a \div 1, d \div 1)
  BY <1>2 DEF RationalTimeOf
<1> HIDE DEF a, neg
<1>5. a \div 1 = a /\ d \div 1 = d
  BY <1>3
<1>6. Assemble(neg, a, d) = Ok(<<n, d>>)
  BY <1>3, AssembleWhen
<1>7. <<n, d>> \in Canonical
  <2>1. d \in Int64
    BY <1>1, <1>2
  <2>2. QED
    BY <2>1 DEF Canonical
<1>8. QED
  BY <1>4, <1>5, <1>6, <1>7

\* A number of the document is accepted, or it is none or too large.
Classified(s, p, printed) ==
  /\ p \in LoopValues
  /\ p.result = "ok" => s \in printed
  /\ p.result = "out_of_range" => s \notin printed
  /\ IsDecimal(s) => p # InvalidArgument

LEMMA DecimalMeaning ==
  ASSUME NEW s \in Seq(Characters), IsDecimal(s)
  PROVE  Magnitude(s) \in Seq(0..9) /\ Magnitude(s) # <<>> /\ Magnitude(s)[1] # 0
<1> DEFINE d == Magnitude(s)
<1>1. d # <<>> /\ (\A i \in DOMAIN d : d[i] \in Digit) /\ d[1] # 0
  BY Zenon DEF IsDecimal, Magnitude, Negative
<1>2. d \in Seq(Characters)
  BY MagnitudeType
<1> HIDE DEF d
<1>3. Len(d) \in Nat /\ DOMAIN d = 1..Len(d) /\ d \in [1..Len(d) -> Characters]
  BY <1>2, LenProperties
<1>4. d \in [1..Len(d) -> 0..9]
  BY <1>1, <1>3 DEF Digit
<1>5. d \in Seq(0..9)
  BY <1>3, <1>4, SeqDef
<1>6. QED
  BY <1>1, <1>5 DEF d

LEMMA DecimalIsWellFormed ==
  ASSUME NEW s \in Seq(Characters), IsDecimal(s), NEW b \in BOOLEAN, ~(b /\ Negative(s))
  PROVE  parse_wire_magnitude(s, b) # InvalidArgument
<1> DEFINE d == Magnitude(s)
<1>1. d \in Seq(0..9) /\ d # <<>> /\ d[1] # 0
  BY DecimalMeaning
<1> HIDE DEF d
<1>2. parse_wire_magnitude(s, b) = DigitLoop(d, LimitOf(s))
  BY <1>1, ParseCases DEF d
<1>3. LimitOf(s) \in Nat
  BY WireLimits DEF LimitOf
<1>4. QED
  BY <1>1, <1>2, <1>3, DigitsAreWellFormed

LEMMA NumeratorClassified ==
  ASSUME NEW s \in Seq(Characters)
  PROVE  Classified(s, parse_wire_magnitude(s, FALSE), Numerators)
<1> DEFINE p == parse_wire_magnitude(s, FALSE)
<1>1. ReadFrom(s, p)
  BY NumberIsPrinted
<1>2. IsDecimal(s) => p # InvalidArgument
  BY DecimalIsWellFormed
<1>3. ASSUME s \in Numerators PROVE p.result = "ok"
  <2>1. PICK n \in Int64 : s = Decimal(n)
    BY <1>3 DEF Numerators
  <2>2. p = Ok(magnitude(n))
    BY <2>1, PrintedNumberIsRead
  <2>3. QED
    BY <2>2, Results
<1> HIDE DEF p
<1>4. p.result = "ok" => s \in Numerators
  BY <1>1 DEF ReadFrom, Numerators
<1>5. p \in LoopValues
  BY <1>1 DEF ReadFrom
<1>6. QED
  BY <1>2, <1>3, <1>4, <1>5 DEF Classified, p

LEMMA DenominatorClassified ==
  ASSUME NEW s \in Seq(Characters), IsDecimal(s), ~Negative(s)
  PROVE  Classified(s, parse_wire_magnitude(s, TRUE), Denominators)
<1> DEFINE p == parse_wire_magnitude(s, TRUE)
<1>1. ReadFrom(s, p)
  BY NumberIsPrinted
<1>2. p # InvalidArgument
  BY DecimalIsWellFormed
<1>3. /\ kMax \in Nat /\ Int64 = (-kMax - 1)..kMax
  BY WireLimits
<1>4. ASSUME s \in Denominators PROVE p.result = "ok"
  <2>1. PICK n \in 1..kMax : s = Decimal(n)
    BY <1>4 DEF Denominators
  <2>2. n \in Int64 /\ n >= 0
    BY <1>3
  <2>3. p = Ok(n)
    BY <2>1, <2>2, PrintedNumberIsRead
  <2>4. QED
    BY <2>3, Results
<1> HIDE DEF p
<1>5. ASSUME p.result = "ok" PROVE s \in Denominators
  <2> DEFINE v == p.value
  <2>1. v \in Nat /\ v \in Int64 /\ s = Decimal(v)
    BY <1>1, <1>5 DEF ReadFrom, Said
  <2>2. v # 0
    <3>1. SUFFICES ASSUME v = 0 PROVE FALSE
      OBVIOUS
    <3>2. s = <<0>>
      BY <2>1, <3>1, ZeroNumeral, DecimalIsNumeral
    <3>3. Magnitude(s)[1] # 0 /\ Magnitude(s) = s
      BY DecimalMeaning, MagnitudeType
    <3>4. QED
      BY <3>2, <3>3
  <2>3. v \in 1..kMax
    BY <1>3, <2>1, <2>2
  <2>4. QED
    BY <2>1, <2>3 DEF Denominators
<1>6. p \in LoopValues
  BY <1>1 DEF ReadFrom
<1>7. QED
  BY <1>2, <1>4, <1>5, <1>6 DEF Classified, p

\* The result for a complete document, from its two texts.
Reading(num_str, num, den) ==
  IF num.result # "ok" THEN num
  ELSE IF den.result # "ok" THEN den
  ELSE IF ~is_canonical_form(Said(num_str, num.value), den.value) THEN InvalidArgument
  ELSE RationalTimeOf(Said(num_str, num.value), den.value)

LEMMA ReadingOf ==
  ASSUME NEW num_str, NEW den_str, NEW doc,
         doc \in {Written(num_str, den_str), TheOtherWay(num_str, den_str)}
  PROVE  from_canonical_json(doc)
           = Reading(num_str, parse_wire_magnitude(num_str, FALSE), parse_wire_magnitude(den_str, TRUE))
<1> DEFINE num == parse_wire_magnitude(num_str, FALSE)
           den == parse_wire_magnitude(den_str, TRUE)
           signed == IF num_str[1] = Minus THEN -num.value ELSE num.value
<1>1. /\ FieldsComplete(doc)
      /\ FieldText(doc, "numerator") = num_str /\ FieldText(doc, "denominator") = den_str
  BY WrittenIsComplete
<1>2. from_canonical_json(doc) =
        IF num.result # "ok" THEN num
        ELSE IF den.result # "ok" THEN den
        ELSE IF ~is_canonical_form(signed, den.value) THEN InvalidArgument
        ELSE RationalTimeOf(signed, den.value)
  BY <1>1, Zenon DEF from_canonical_json
<1>3. num_str # <<>> => signed = Said(num_str, num.value)
  BY Zenon DEF Said, Negative
<1>4. num_str = <<>> => num.result # "ok"
  <2>1. ASSUME num_str = <<>> PROVE num.result # "ok"
    <3>1. Magnitude(num_str) = <<>>
      BY <2>1 DEF Magnitude, Negative
    <3>2. num = InvalidArgument
      BY <3>1, ParseCases
    <3>3. QED
      BY <3>2, Results
  <2>2. QED
    BY <2>1
<1> HIDE DEF num, den, signed
<1>5. CASE num_str = <<>>
  BY <1>2, <1>4, <1>5, Zenon DEF Reading, num, den
<1>6. CASE num_str # <<>>
  BY <1>2, <1>3, <1>6, Zenon DEF Reading, num, den
<1>7. QED
  BY <1>5, <1>6

\* What a complete document gives: a canonical time that prints these texts,
\* or the failure of one of its numbers, or a pair that is not canonical.
ReadResult(num_str, den_str, p, q, r) ==
  /\ r.result \in {"ok", "invalid_argument", "out_of_range"}
  /\ r.result = "ok" =>
       \E t \in Canonical : r = Ok(t) /\ num_str = Decimal(t[1]) /\ den_str = Decimal(t[2])
  /\ p.result # "ok" => r = p
  /\ p.result = "ok" /\ q.result # "ok" => r = q
  /\ p.result = "ok" /\ q.result = "ok" => r.result # "out_of_range"

LEMMA ReadingResult ==
  ASSUME NEW num_str \in Seq(Characters), NEW den_str \in Seq(Characters), NEW p, NEW q,
         p = parse_wire_magnitude(num_str, FALSE), q = parse_wire_magnitude(den_str, TRUE)
  PROVE  ReadResult(num_str, den_str, p, q, Reading(num_str, p, q))
<1> DEFINE r == Reading(num_str, p, q)
<1>1. ReadFrom(num_str, p) /\ ReadFrom(den_str, q) /\ (q.result = "ok" => ~Negative(den_str))
  BY NumberIsPrinted
<1>2. /\ p.result \in {"ok", "invalid_argument", "out_of_range"}
      /\ q.result \in {"ok", "invalid_argument", "out_of_range"}
  BY <1>1, LoopResult DEF ReadFrom
<1>3. CASE p.result # "ok"
  <2>1. r = p
    BY <1>3, Zenon DEF Reading
  <2>2. QED
    BY <1>2, <1>3, <2>1, Zenon DEF ReadResult
<1>4. CASE p.result = "ok" /\ q.result # "ok"
  <2>1. r = q
    BY <1>4, Zenon DEF Reading
  <2>2. QED
    BY <1>2, <1>4, <2>1, Zenon DEF ReadResult
<1>5. CASE p.result = "ok" /\ q.result = "ok"
  <2> DEFINE n == Said(num_str, p.value)
             d == q.value
  <2>1. r = IF ~is_canonical_form(n, d) THEN InvalidArgument ELSE RationalTimeOf(n, d)
    BY <1>5, Zenon DEF Reading
  <2>2. n \in Int64 /\ num_str = Decimal(n)
    BY <1>1, <1>5 DEF ReadFrom
  <2>3. d \in Nat /\ d \in Int64 /\ den_str = Decimal(d)
    BY <1>1, <1>5 DEF ReadFrom, Said
  <2> HIDE DEF n, d, r
  <2>4. d <= kMax
    BY <2>3, WireLimits
  <2>5. CASE ~is_canonical_form(n, d)
    <3>1. r = InvalidArgument
      BY <2>1, <2>5
    <3>2. r.result = "invalid_argument"
      BY <3>1, Results
    <3>3. ReadResult(num_str, den_str, p, q, r)
      BY <1>5, <3>2 DEF ReadResult
    <3>4. QED
      BY <3>3 DEF r
  <2>6. CASE is_canonical_form(n, d)
    <3> DEFINE t == <<n, d>>
    <3>1. r = Ok(t) /\ t \in Canonical
      BY <2>1, <2>2, <2>3, <2>4, <2>6, CanonicalIsKept
    <3>2. r.result = "ok"
      BY <3>1, Results
    <3>3. num_str = Decimal(t[1]) /\ den_str = Decimal(t[2])
      BY <2>2, <2>3
    <3> HIDE DEF t
    <3>4. ReadResult(num_str, den_str, p, q, r)
      BY <1>5, <3>1, <3>2, <3>3 DEF ReadResult
    <3>5. QED
      BY <3>4 DEF r
  <2>7. QED
    BY <2>5, <2>6
<1>6. QED
  BY <1>3, <1>4, <1>5

\* Every canonical time survives the round trip.
LEMMA RoundTrip ==
  ASSUME NEW t \in Canonical
  PROVE  /\ Decimal(t[1]) \in Seq(Characters) /\ Decimal(t[2]) \in Seq(Characters)
         /\ Reading(Decimal(t[1]), parse_wire_magnitude(Decimal(t[1]), FALSE),
                    parse_wire_magnitude(Decimal(t[2]), TRUE)) = Ok(t)
<1> DEFINE n == t[1]
           d == t[2]
           num == parse_wire_magnitude(Decimal(n), FALSE)
           den == parse_wire_magnitude(Decimal(d), TRUE)
<1>1. t = <<n, d>> /\ n \in Int64 /\ d \in Int64 /\ is_canonical_form(n, d)
  BY DEF Canonical
<1> HIDE DEF n, d
<1>2. /\ kMax \in Nat /\ kMinMagnitude = kMax + 1 /\ Int64 = (-kMax - 1)..kMax
      /\ n \in Int /\ d \in Int
  BY <1>1, WireLimits
<1>3. d > 0
  BY <1>1 DEF is_canonical_form
<1>4. d \in Nat /\ d >= 0 /\ d <= kMax
  BY <1>1, <1>2, <1>3
<1>5. num = Ok(magnitude(n)) /\ Decimal(n) \in Seq(Characters) /\ (Negative(Decimal(n)) <=> n < 0)
  BY <1>1, PrintedNumberIsRead
<1>6. den = Ok(d) /\ Decimal(d) \in Seq(Characters)
  BY <1>1, <1>4, PrintedNumberIsRead
<1> HIDE DEF num, den
<1>7. num.result = "ok" /\ num.value = magnitude(n) /\ den.result = "ok" /\ den.value = d
  BY <1>5, <1>6, Results
<1>8. Said(Decimal(n), num.value) = n
  BY <1>2, <1>5, <1>7 DEF Said, magnitude
<1>9. Reading(Decimal(n), num, den) = RationalTimeOf(n, d)
  BY <1>1, <1>7, <1>8, Zenon DEF Reading
<1>10. RationalTimeOf(n, d) = Ok(<<n, d>>)
  BY <1>1, <1>4, CanonicalIsKept
<1>11. Reading(Decimal(n), num, den) = Ok(t)
  BY <1>1, <1>9, <1>10
<1>12. QED
  BY <1>5, <1>6, <1>11 DEF n, d, num, den

\* A printed form is a complete document with the texts of a canonical time.
LEMMA PrintedForm ==
  ASSUME NEW doc
  PROVE  doc \in PrintedForms
           <=> \E t \in Canonical : doc \in {Written(Decimal(t[1]), Decimal(t[2])),
                                             TheOtherWay(Decimal(t[1]), Decimal(t[2]))}
<1> DEFINE printed == {to_canonical_json(t) : t \in Canonical}
<1>1. doc \in PrintedForms <=> doc \in printed \/ \E w \in printed : doc = Swapped(w)
  BY DEF PrintedForms
<1>2. \A t : /\ to_canonical_json(t) = Written(Decimal(t[1]), Decimal(t[2]))
             /\ Swapped(to_canonical_json(t)) = TheOtherWay(Decimal(t[1]), Decimal(t[2]))
  BY PrintedDocument, TheOtherWayIsSwapped
<1>3. doc \in printed <=> \E t \in Canonical : doc = Written(Decimal(t[1]), Decimal(t[2]))
  BY <1>2, Zenon
<1>4. (\E w \in printed : doc = Swapped(w))
        <=> \E t \in Canonical : doc = TheOtherWay(Decimal(t[1]), Decimal(t[2]))
  BY <1>2, Zenon
<1>5. QED
  BY <1>1, <1>3, <1>4, Zenon

-----------------------------------------------------------------------------
(***************************************************************************)
(* The wire form: what is accepted.                                        *)
(***************************************************************************)
LEMMA IncompleteIsRefused ==
  ASSUME NEW doc, ~FieldsComplete(doc)
  PROVE  from_canonical_json(doc) = InvalidArgument /\ doc \notin PrintedForms
<1>1. from_canonical_json(doc) = InvalidArgument
  BY Zenon DEF from_canonical_json
<1>2. doc \notin PrintedForms
  <2>1. SUFFICES ASSUME doc \in PrintedForms PROVE FALSE
    OBVIOUS
  <2>2. PICK t \in Canonical : doc \in {Written(Decimal(t[1]), Decimal(t[2])),
                                        TheOtherWay(Decimal(t[1]), Decimal(t[2]))}
    BY <2>1, PrintedForm
  <2>3. FieldsComplete(doc)
    BY <2>2, WrittenIsComplete
  <2>4. QED
    BY <2>3
<1>3. QED
  BY <1>1, <1>2

\* AcceptsExactlyPrintedForms of one document.
Accepted(doc, r) ==
  IF r.result = "ok"
  THEN r.value \in Canonical /\ to_canonical_json(r.value) \in {doc, Swapped(doc)}
  ELSE doc \notin PrintedForms

LEMMA PrintedIsAccepted ==
  ASSUME NEW doc \in Document
  PROVE  Accepted(doc, from_canonical_json(doc))
<1> DEFINE r == from_canonical_json(doc)
<1>1. CASE ~FieldsComplete(doc)
  <2>1. r = InvalidArgument /\ doc \notin PrintedForms
    BY <1>1, IncompleteIsRefused
  <2>2. r.result # "ok"
    BY <2>1, Results
  <2>3. QED
    BY <2>1, <2>2, Zenon DEF Accepted
<1>2. CASE FieldsComplete(doc)
  <2>1. PICK num, den \in Seq(Characters) : doc \in {Written(num, den), TheOtherWay(num, den)}
    BY <1>2, CompleteIsWritten
  <2> DEFINE p == parse_wire_magnitude(num, FALSE)
             q == parse_wire_magnitude(den, TRUE)
  <2>2. r = Reading(num, p, q)
    BY <2>1, ReadingOf
  <2>3. ReadResult(num, den, p, q, r)
    BY <2>2, ReadingResult
  <2> HIDE DEF r
  <2>4. CASE r.result = "ok"
    <3>1. PICK t \in Canonical : r = Ok(t) /\ num = Decimal(t[1]) /\ den = Decimal(t[2])
      BY <2>3, <2>4, Zenon DEF ReadResult
    <3>2. r.value = t
      BY <3>1, Results
    <3>3. to_canonical_json(t) = Written(num, den)
      BY <3>1, PrintedDocument
    <3>4. Written(num, den) \in {doc, Swapped(doc)}
      BY <2>1, TheOtherWayIsSwapped, Zenon
    <3>5. Accepted(doc, r)
      BY <2>4, <3>2, <3>3, <3>4, Zenon DEF Accepted
    <3>6. QED
      BY <3>5 DEF r
  <2>5. CASE r.result # "ok"
    <3>1. ASSUME doc \in PrintedForms PROVE FALSE
      <4>1. PICK t \in Canonical : doc \in {Written(Decimal(t[1]), Decimal(t[2])),
                                            TheOtherWay(Decimal(t[1]), Decimal(t[2]))}
        BY <3>1, PrintedForm
      <4>2. num = Decimal(t[1]) /\ den = Decimal(t[2])
        <5>1. FieldText(doc, "numerator") = num /\ FieldText(doc, "denominator") = den
          BY <2>1, WrittenIsComplete
        <5>2. /\ FieldText(doc, "numerator") = Decimal(t[1])
              /\ FieldText(doc, "denominator") = Decimal(t[2])
          BY <4>1, WrittenIsComplete
        <5>3. QED
          BY <5>1, <5>2, Zenon
      <4>3. r = Ok(t)
        BY <2>2, <4>2, RoundTrip, Zenon
      <4>4. QED
        BY <2>5, <4>3, Results
    <3>2. Accepted(doc, r)
      BY <2>5, <3>1, Zenon DEF Accepted
    <3>3. QED
      BY <3>2 DEF r
  <2>6. QED
    BY <2>4, <2>5
<1>3. QED
  BY <1>1, <1>2

\* FailuresAreClassified of one complete document.
LEMMA FailureIsClassified ==
  ASSUME NEW num \in Seq(Characters), NEW den \in Seq(Characters), NEW r,
         r = Reading(num, parse_wire_magnitude(num, FALSE), parse_wire_magnitude(den, TRUE)),
         IsDecimal(num), IsDecimal(den), den[1] # Minus
  PROVE  r.result = "out_of_range" <=> num \notin Numerators \/ den \notin Denominators
<1> DEFINE p == parse_wire_magnitude(num, FALSE)
           q == parse_wire_magnitude(den, TRUE)
<1>1. ReadResult(num, den, p, q, r)
  BY ReadingResult
<1>2. Classified(num, p, Numerators) /\ p # InvalidArgument
  BY NumeratorClassified DEF Classified
<1>3. Classified(den, q, Denominators) /\ q # InvalidArgument
  <2>1. ~Negative(den)
    BY DEF Negative
  <2>2. QED
    BY <2>1, DenominatorClassified DEF Classified
<1> HIDE DEF p, q
<1>4. /\ p.result # "ok" => p.result = "out_of_range"
      /\ q.result # "ok" => q.result = "out_of_range"
  BY <1>2, <1>3, LoopResult, Results DEF Classified
<1>5. CASE p.result # "ok"
  <2>1. r = p /\ p.result = "out_of_range"
    BY <1>1, <1>4, <1>5 DEF ReadResult
  <2>2. num \notin Numerators
    BY <1>2, <2>1 DEF Classified
  <2>3. QED
    BY <2>1, <2>2
<1>6. CASE p.result = "ok" /\ q.result # "ok"
  <2>1. r = q /\ q.result = "out_of_range"
    BY <1>1, <1>4, <1>6 DEF ReadResult
  <2>2. den \notin Denominators
    BY <1>3, <2>1 DEF Classified
  <2>3. QED
    BY <2>1, <2>2
<1>7. CASE p.result = "ok" /\ q.result = "ok"
  <2>1. r.result # "out_of_range"
    BY <1>1, <1>7 DEF ReadResult
  <2>2. num \in Numerators /\ den \in Denominators
    BY <1>2, <1>3, <1>7 DEF Classified
  <2>3. QED
    BY <2>1, <2>2
<1>8. QED
  BY <1>5, <1>6, <1>7, Zenon

LEMMA DocumentIsClassified ==
  ASSUME document \in Document
  PROVE  WireFormIsExact
<1> DEFINE r == from_canonical_json(document)
<1>1. AcceptsExactlyPrintedForms
  BY PrintedIsAccepted, Zenon DEF Accepted, AcceptsExactlyPrintedForms
<1>2. CASE ~FieldsComplete(document)
  <2>1. r.result = "invalid_argument"
    BY <1>2, IncompleteIsRefused, Results
  <2>2. FailuresAreClassified
    BY <1>2, <2>1 DEF FailuresAreClassified
  <2>3. QED
    BY <1>1, <2>2 DEF WireFormIsExact
<1>3. CASE FieldsComplete(document)
  <2>1. PICK num, den \in Seq(Characters) : document \in {Written(num, den), TheOtherWay(num, den)}
    BY <1>3, CompleteIsWritten
  <2>2. r = Reading(num, parse_wire_magnitude(num, FALSE), parse_wire_magnitude(den, TRUE))
    BY <2>1, ReadingOf
  <2>3. r.result \in {"ok", "invalid_argument", "out_of_range"}
    BY <2>2, ReadingResult DEF ReadResult
  <2>4. FieldText(document, "numerator") = num /\ FieldText(document, "denominator") = den
    BY <2>1, WrittenIsComplete
  <2>5. IsDecimal(num) /\ IsDecimal(den) /\ den[1] # Minus =>
          (r.result = "out_of_range" <=> num \notin Numerators \/ den \notin Denominators)
    BY <2>2, FailureIsClassified
  <2>6. FailuresAreClassified
    BY <2>3, <2>4, <2>5, Zenon DEF FailuresAreClassified
  <2>7. QED
    BY <1>1, <2>6 DEF WireFormIsExact
<1>4. QED
  BY <1>2, <1>3

IsDocument == document \in Document

\* One more field, or one more character of the last one.
LEMMA DocumentGrows ==
  ASSUME IsDocument, WireNext
  PROVE  IsDocument'
<1> DEFINE FieldSet == [key : Keys, text : Seq(Characters)]
           fs == document.fields
<1>1. fs \in Seq(FieldSet) /\ document.wellFormed \in BOOLEAN
  BY DEF IsDocument, Document, Characters
<1>2. ASSUME NEW f \in Seq(FieldSet), Put(f) PROVE IsDocument'
  <2>1. document' = [fields |-> f, wellFormed |-> document.wellFormed]
    BY <1>2 DEF Put
  <2>2. document' \in [fields : Seq(FieldSet), wellFormed : BOOLEAN]
    BY <1>1, <1>2, <2>1
  <2>3. QED
    BY <2>2 DEF IsDocument, Document, Characters
<1>3. \A k \in Keys, s \in Seq(Characters) : [key |-> k, text |-> s] \in FieldSet
  OBVIOUS
<1>4. <<>> \in Seq(Characters)
  BY EmptySeq
<1>5. ASSUME NEW key \in Keys, AddField(key) PROVE IsDocument'
  <2> DEFINE g == [key |-> key, text |-> <<>>]
  <2>1. g \in FieldSet /\ Put(Append(fs, g))
    BY <1>3, <1>4, <1>5 DEF AddField
  <2> HIDE DEF g, FieldSet, fs
  <2>2. Append(fs, g) \in Seq(FieldSet)
    BY <1>1, <2>1, AppendProperties
  <2>3. QED
    BY <1>2, <2>1, <2>2
<1>6. ASSUME NEW c \in Alphabet, Extend(c) PROVE IsDocument'
  <2> DEFINE last == Len(fs)
             g == [key |-> fs[last].key, text |-> Append(fs[last].text, c)]
             f == [fs EXCEPT ![last] = g]
  <2>1. last > 0 /\ Put(f)
    BY <1>6, Zenon DEF Extend
  <2>2. last \in Nat /\ last \in 1..last /\ DOMAIN fs = 1..last /\ fs \in [1..last -> FieldSet]
    <3> HIDE DEF FieldSet
    <3>1. last \in Nat /\ DOMAIN fs = 1..last /\ fs \in [1..last -> FieldSet]
      BY <1>1, LenProperties
    <3>2. QED
      BY <2>1, <3>1
  <2>3. fs[last].key \in Keys /\ fs[last].text \in Seq(Characters)
    BY <2>2
  <2>4. c \in Characters
    BY <1>6, AlphabetAssumption DEF Digit, Minus, Other, Characters
  <2>5. Append(fs[last].text, c) \in Seq(Characters)
    BY <2>3, <2>4, AppendProperties
  <2>6. g \in FieldSet
    BY <1>3, <2>3, <2>5
  <2> HIDE DEF FieldSet, fs, g, last
  <2>7. f \in [1..last -> FieldSet]
    BY <2>2, <2>6
  <2>8. f \in Seq(FieldSet)
    BY <2>2, <2>7, SeqDef
  <2>9. QED
    BY <1>2, <2>1, <2>8
<1>7. QED
  BY <1>5, <1>6, Zenon DEF WireNext

LEMMA DocumentType == WireSpec => []IsDocument
<1>1. WireInit => IsDocument
  <2>1. ASSUME WireInit PROVE IsDocument
    <3>1. PICK b \in BOOLEAN : document = [fields |-> <<>>, wellFormed |-> b]
      BY <2>1 DEF WireInit
    <3> DEFINE FieldSet == [key : Keys, text : Seq(0..11)]
    <3>2. <<>> \in Seq(FieldSet)
      BY EmptySeq
    <3> HIDE DEF FieldSet
    <3>3. document \in [fields : Seq(FieldSet), wellFormed : BOOLEAN]
      BY <3>1, <3>2
    <3>4. QED
      BY <3>3 DEF IsDocument, Document, FieldSet
  <2>2. QED
    BY <2>1
<1>2. IsDocument /\ [WireNext]_document => IsDocument'
  <2>1. ASSUME IsDocument, UNCHANGED document PROVE IsDocument'
    BY <2>1 DEF IsDocument
  <2>2. QED
    BY <2>1, DocumentGrows
<1>3. QED
  BY <1>1, <1>2, PTL DEF WireSpec

\* The wire form of every width: whatever object with string fields arrives,
\* from_canonical_json accepts it exactly when it is, up to the order of its
\* members, what to_canonical_json prints of a canonical time, and gives back
\* that time. Decimal numbers of any length that do not fit are out_of_range
\* and never wrap; the parser raises no other exception.
THEOREM WireFormHolds == WireSpec => []WireFormIsExact
<1>1. IsDocument => WireFormIsExact
  BY DocumentIsClassified DEF IsDocument
<1>2. QED
  BY <1>1, DocumentType, PTL
=============================================================================
