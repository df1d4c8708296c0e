----------------------- MODULE CatalogRegistry_proofs ------------------------
(***************************************************************************)
(* Proofs about versions and the two ways to a catalog. The parser of      *)
(* versions is exact, for texts of any length and every limit. The         *)
(* registry, for every pool of entries and rules and any number of them:   *)
(* its types, what a valid catalog guarantees to the queries, that sorting *)
(* decides nothing, and that rebuilding keeps the answers. The loader, for *)
(* every set of documents: what it reports and what it builds.             *)
(***************************************************************************)
EXTENDS CatalogRegistry, CatalogLoader, SchemaVersionText, SequenceTheorems, FiniteSetTheorems,
        TLAPS

(***************************************************************************)
(* Part 1: the text of a version.                                          *)
(*                                                                         *)
(* The parser accepts a text only as the version the text prints, accepts  *)
(* what every version prints, and calls nothing in the grammar malformed.  *)
(* Both the digit loop and the printing are recursive functions. That each *)
(* exists, with the values its recursion gives, is proved by induction     *)
(* (RecursionExists); an induction shows that a set has all the numbers up *)
(* to n (Induction). Then the loop and the printing are shown inverse, for *)
(* one component; then the text is taken apart at its two dots.            *)
(***************************************************************************)

\* Every non-empty set of natural numbers has a least one,
LEMMA FirstExists ==
  ASSUME NEW T \in SUBSET Nat, T # {}
  PROVE  \E x \in T : \A y \in T : x <= y
  <1>1. PICK x \in T : \A y \in T : ~(<<y, x>> \in OpToRel(<, Nat))
    BY WFMin, NatLessThanWellFounded, Zenon
  <1>2. ASSUME NEW y \in T PROVE x <= y
    <2>1. ~(y < x)
      BY <1>1 DEF OpToRel
    <2>2. QED
      BY <2>1
  <1>3. QED
    BY <1>2

\* so that a set with every number whose predecessors are in it has them all:
\* induction, where the property is the membership in a set.
LEMMA Induction ==
  ASSUME NEW n \in Nat, NEW G,
         \A k \in 0..n : (\A j \in 0..(k - 1) : j \in G) => k \in G
  PROVE  \A k \in 0..n : k \in G
<1> DEFINE Bad == {k \in 0..n : k \notin G}
<1>1. SUFFICES ASSUME Bad # {} PROVE FALSE
  OBVIOUS
<1>2. PICK k \in Bad : \A j \in Bad : k <= j
  <2>1. Bad \in SUBSET Nat
    OBVIOUS
  <2> HIDE DEF Bad
  <2>2. QED
    BY <1>1, <2>1, FirstExists
<1>3. k \in 0..n /\ k \notin G
  BY <1>2
<1>4. ASSUME NEW j \in 0..(k - 1) PROVE j \in G
  <2>1. j \in 0..n /\ ~(k <= j)
    BY <1>3
  <2>2. QED
    BY <1>2, <2>1
<1>5. QED
  BY <1>3, <1>4

-----------------------------------------------------------------------------
(***************************************************************************)
(* Recursion on the numbers up to n. A value at m # 0 is computed from the *)
(* value at an earlier place pre[m]; f follows the recursion up to k.      *)
(***************************************************************************)
Follows(f, k, V, v0, step, pre) ==
  /\ f \in [0..k -> V] /\ f[0] = v0
  /\ \A m \in 1..k : f[m] = step[<<m, f[pre[m]]>>]

LEMMA RecursionExists ==
  ASSUME NEW n \in Nat, NEW V, NEW v0 \in V, NEW step \in [(1..n) \X V -> V],
         NEW pre \in [1..n -> Nat], \A m \in 1..n : pre[m] < m
  PROVE  \E f : Follows(f, n, V, v0, step, pre)
<1> DEFINE Good(k) == \E f : Follows(f, k, V, v0, step, pre)
           G == {k \in 0..n : Good(k)}
<1>1. Good(0)
  <2>1. Follows([i \in 0..0 |-> v0], 0, V, v0, step, pre)
    BY DEF Follows
  <2>2. QED
    BY <2>1
<1>2. ASSUME NEW k \in 1..n, Good(k - 1) PROVE Good(k)
  <2>1. PICK f : Follows(f, k - 1, V, v0, step, pre)
    BY <1>2
  <2> DEFINE g == [m \in 0..k |-> IF m = k THEN step[<<k, f[pre[k]]>>] ELSE f[m]]
  <2>2. pre[k] \in 0..(k - 1)
    OBVIOUS
  <2>3. f[pre[k]] \in V /\ step[<<k, f[pre[k]]>>] \in V
    BY <2>1, <2>2 DEF Follows
  <2>4. g \in [0..k -> V]
    BY <2>1, <2>3 DEF Follows
  <2>5. \A m \in 0..(k - 1) : g[m] = f[m]
    OBVIOUS
  <2>6. ASSUME NEW m \in 1..k PROVE g[m] = step[<<m, g[pre[m]]>>]
    <3>1. pre[m] \in 0..(m - 1) /\ pre[m] \in 0..(k - 1)
      OBVIOUS
    <3>2. g[pre[m]] = f[pre[m]]
      BY <2>5, <3>1
    <3>3. CASE m = k
      <4>1. g[k] = step[<<k, f[pre[k]]>>]
        OBVIOUS
      <4> HIDE DEF g
      <4>2. QED
        BY <3>2, <3>3, <4>1
    <3>4. CASE m \in 1..(k - 1)
      BY <2>1, <2>5, <3>2, <3>4 DEF Follows
    <3>5. QED
      BY <3>3, <3>4
  <2>7. g[0] = v0
    BY <2>1, <2>5 DEF Follows
  <2>8. Follows(g, k, V, v0, step, pre)
    <3> HIDE DEF g
    <3>1. QED
      BY <2>4, <2>6, <2>7 DEF Follows
  <2>9. QED
    BY <2>8
<1>3. \A k \in 0..n : k \in G
  <2>1. ASSUME NEW k \in 0..n, \A j \in 0..(k - 1) : j \in G
        PROVE  k \in G
    <3>1. CASE k = 0
      BY <1>1, <3>1
    <3>2. CASE k \in 1..n
      <4>1. Good(k - 1)
        <5>1. k - 1 \in 0..(k - 1)
          BY <3>2
        <5>2. QED
          BY <2>1, <5>1
      <4>2. Good(k)
        BY <1>2, <3>2, <4>1
      <4>3. QED
        BY <4>2
    <3>3. QED
      BY <3>1, <3>2
  <2> HIDE DEF G
  <2>2. QED
    BY <2>1, Induction
<1>4. n \in 0..n
  OBVIOUS
<1>5. QED
  BY <1>3, <1>4

-----------------------------------------------------------------------------
(***************************************************************************)
(* The digit loop.                                                         *)
(***************************************************************************)
LEMMA AccumulatedSteps ==
  ASSUME NEW seg \in Seq(Nat)
  PROVE  /\ Accumulated(seg)[0] = 0
         /\ \A i \in 0..Len(seg) : Accumulated(seg)[i] \in Nat
         /\ \A i \in 1..Len(seg) : Accumulated(seg)[i] = Accumulated(seg)[i - 1] * 10 + seg[i]
<1> DEFINE n == Len(seg)
           A == Accumulated(seg)
           step == [p \in (1..n) \X Nat |-> p[2] * 10 + seg[p[1]]]
           pre == [m \in 1..n |-> m - 1]
<1>1. n \in Nat /\ \A i \in 1..n : seg[i] \in Nat
  BY LenProperties, ElementOfSeq
<1>2. PICK f : Follows(f, n, Nat, 0, step, pre)
  <2>1. step \in [(1..n) \X Nat -> Nat]
    BY <1>1
  <2>2. pre \in [1..n -> Nat] /\ \A m \in 1..n : pre[m] < m
    BY <1>1
  <2> HIDE DEF step, pre, n
  <2>3. QED
    BY <1>1, <2>1, <2>2, RecursionExists
<1>3. f = [i \in 0..n |-> IF i = 0 THEN 0 ELSE f[i - 1] * 10 + seg[i]]
  <2>1. \A i \in 1..n : f[i] = f[i - 1] * 10 + seg[i]
    <3>1. \A i \in 1..n : f[i - 1] \in Nat /\ pre[i] = i - 1
      BY <1>1, <1>2 DEF Follows
    <3>2. \A i \in 1..n : f[i] = step[<<i, f[i - 1]>>]
      BY <1>2, <3>1 DEF Follows
    <3>3. QED
      BY <3>1, <3>2
  <2>2. QED
    BY <1>2, <2>1 DEF Follows
<1>4. A = [i \in 0..n |-> IF i = 0 THEN 0 ELSE A[i - 1] * 10 + seg[i]]
  BY <1>3, Zenon DEF Accumulated
<1> HIDE DEF A, n
<1>5. A[0] = 0 /\ \A i \in 1..n : A[i] = A[i - 1] * 10 + seg[i]
  BY <1>1, <1>4
<1>6. \A i \in 0..n : A[i] \in Nat
  <2> DEFINE G == {i \in 0..n : A[i] \in Nat}
  <2>1. ASSUME NEW k \in 0..n, \A j \in 0..(k - 1) : j \in G
        PROVE  k \in G
    <3>1. CASE k = 0
      BY <1>5, <3>1
    <3>2. CASE k \in 1..n
      <4>1. A[k - 1] \in Nat
        BY <2>1, <3>2
      <4>2. A[k] = A[k - 1] * 10 + seg[k] /\ seg[k] \in Nat
        BY <1>1, <1>5, <3>2
      <4>3. QED
        BY <4>1, <4>2
    <3>3. QED
      BY <3>1, <3>2
  <2>2. \A i \in 0..n : i \in G
    <3> HIDE DEF G
    <3>1. QED
      BY <1>1, <2>1, Induction
  <2>3. QED
    BY <2>2
<1>7. QED
  BY <1>5, <1>6 DEF A, n

\* The loop over the first characters does not depend on those that follow.
LEMMA AccumulatedPrefix ==
  ASSUME NEW s \in Seq(Nat), NEW t \in Seq(Nat), Len(t) <= Len(s),
         \A i \in 1..Len(t) : s[i] = t[i]
  PROVE  \A i \in 0..Len(t) : Accumulated(s)[i] = Accumulated(t)[i]
<1> DEFINE n == Len(t)
           A == Accumulated(s)
           B == Accumulated(t)
           G == {i \in 0..n : A[i] = B[i]}
<1>1. n \in Nat /\ Len(s) \in Nat /\ \A i \in 1..n : i \in 1..Len(s)
  BY LenProperties
<1>2. /\ A[0] = 0 /\ B[0] = 0
      /\ \A i \in 1..n : A[i] = A[i - 1] * 10 + s[i]
      /\ \A i \in 1..n : B[i] = B[i - 1] * 10 + t[i]
  BY <1>1, AccumulatedSteps
<1> HIDE DEF A, B
<1>3. ASSUME NEW k \in 0..n, \A j \in 0..(k - 1) : j \in G
      PROVE  k \in G
  <2>1. CASE k = 0
    BY <1>2, <2>1
  <2>2. CASE k \in 1..n
    <3>1. k - 1 \in 0..(k - 1)
      BY <2>2
    <3>2. k - 1 \in G
      BY <1>3, <3>1
    <3>3. A[k - 1] = B[k - 1]
      BY <3>2
    <3>4. A[k] = A[k - 1] * 10 + s[k] /\ B[k] = B[k - 1] * 10 + t[k] /\ s[k] = t[k]
      BY <1>2, <2>2
    <3>5. QED
      BY <3>3, <3>4
  <2>3. QED
    BY <2>1, <2>2
<1>4. \A i \in 0..n : i \in G
  <2> HIDE DEF G, n
  <2>1. QED
    BY <1>1, <1>3, Induction
<1>5. QED
  BY <1>4 DEF A, B

-----------------------------------------------------------------------------
(***************************************************************************)
(* Printing.                                                               *)
(***************************************************************************)
Digits(n) == LET d[m \in 0..n] == IF m < 10 THEN <<m>> ELSE Append(d[m \div 10], m % 10)
             IN  d

LEMMA DigitsFollow ==
  ASSUME NEW n \in Nat
  PROVE  \A m \in 0..n : Digits(n)[m] = IF m < 10 THEN <<m>> ELSE Append(Digits(n)[m \div 10], m % 10)
<1> DEFINE D == Digits(n)
           V == Seq(0..9)
           step == [p \in (1..n) \X V |-> IF p[1] < 10 THEN <<p[1]>> ELSE Append(p[2], p[1] % 10)]
           pre == [m \in 1..n |-> m \div 10]
<1>1. \A m \in 0..9 : <<m>> \in V
  OBVIOUS
<1>2. PICK f : Follows(f, n, V, <<0>>, step, pre)
  <2>1. step \in [(1..n) \X V -> V]
    <3>1. ASSUME NEW m \in 1..n, NEW t \in V
          PROVE  (IF m < 10 THEN <<m>> ELSE Append(t, m % 10)) \in V
      <4>1. m < 10 => <<m>> \in V
        BY <1>1
      <4>2. m % 10 \in 0..9
        OBVIOUS
      <4>3. Append(t, m % 10) \in V
        BY <4>2, AppendProperties
      <4>4. QED
        BY <4>1, <4>3
    <3> HIDE DEF V
    <3>2. QED
      BY <3>1
  <2>2. pre \in [1..n -> Nat] /\ \A m \in 1..n : pre[m] < m
    OBVIOUS
  <2>3. <<0>> \in V
    BY <1>1
  <2> HIDE DEF step, pre, V
  <2>4. QED
    BY <2>1, <2>2, <2>3, RecursionExists
<1>3. f = [m \in 0..n |-> IF m < 10 THEN <<m>> ELSE Append(f[m \div 10], m % 10)]
  <2>1. ASSUME NEW m \in 1..n
        PROVE  f[m] = IF m < 10 THEN <<m>> ELSE Append(f[m \div 10], m % 10)
    <3>1. m \div 10 \in 0..n /\ pre[m] = m \div 10
      OBVIOUS
    <3>2. f[m \div 10] \in V
      BY <1>2, <3>1 DEF Follows
    <3>3. f[m] = step[<<m, f[m \div 10]>>]
      BY <1>2, <3>1 DEF Follows
    <3> HIDE DEF V
    <3>4. QED
      BY <3>2, <3>3
  <2>2. f[0] = <<0>> /\ DOMAIN f = 0..n
    BY <1>2 DEF Follows
  <2>3. \A m \in 0..n : f[m] = IF m < 10 THEN <<m>> ELSE Append(f[m \div 10], m % 10)
    <3>1. \A m \in 0..n : m = 0 \/ m \in 1..n
      OBVIOUS
    <3>2. ASSUME NEW m \in 0..n
          PROVE  f[m] = IF m < 10 THEN <<m>> ELSE Append(f[m \div 10], m % 10)
      <4>1. CASE m = 0
        <5>1. f[m] = <<m>> /\ m < 10
          BY <2>2, <4>1
        <5>2. QED
          BY <5>1, Zenon
      <4>2. CASE m \in 1..n
        BY <2>1, <4>2, Zenon
      <4>3. QED
        BY <3>1, <4>1, <4>2
    <3>3. QED
      BY <3>2, Zenon
  <2>4. f = [m \in 0..n |-> f[m]]
    BY <1>2 DEF Follows
  <2>5. QED
    BY <2>3, <2>4
<1>4. D = [m \in 0..n |-> IF m < 10 THEN <<m>> ELSE Append(D[m \div 10], m % 10)]
  BY <1>3 DEF Digits
<1> HIDE DEF D
<1>5. \A m \in 0..n : D[m] = IF m < 10 THEN <<m>> ELSE Append(D[m \div 10], m % 10)
  BY <1>4
<1>6. QED
  BY <1>5 DEF D

LEMMA DigitsAgree ==
  ASSUME NEW n \in Nat, NEW k \in 0..n
  PROVE  Digits(n)[k] = Digits(k)[k]
<1> DEFINE D == Digits(n)
           E == Digits(k)
           G == {m \in 0..k : D[m] = E[m]}
<1>1. /\ \A m \in 0..k : D[m] = IF m < 10 THEN <<m>> ELSE Append(D[m \div 10], m % 10)
      /\ \A m \in 0..k : E[m] = IF m < 10 THEN <<m>> ELSE Append(E[m \div 10], m % 10)
  <2>1. k \in Nat /\ \A m \in 0..k : m \in 0..n
    OBVIOUS
  <2>2. QED
    BY <2>1, DigitsFollow
<1> HIDE DEF D, E
<1>2. ASSUME NEW m \in 0..k, \A j \in 0..(m - 1) : j \in G
      PROVE  m \in G
  <2>1. CASE m < 10
    <3>1. D[m] = <<m>> /\ E[m] = <<m>>
      BY <1>1, <2>1
    <3>2. QED
      BY <3>1
  <2>2. CASE ~(m < 10)
    <3>1. m \div 10 \in 0..(m - 1)
      BY <2>2
    <3>2. D[m \div 10] = E[m \div 10]
      BY <1>2, <3>1
    <3>3. QED
      BY <1>1, <2>2, <3>2
  <2>3. QED
    BY <2>1, <2>2
<1>3. \A m \in 0..k : m \in G
  <2> HIDE DEF G
  <2>1. k \in Nat
    OBVIOUS
  <2>2. QED
    BY <1>2, <2>1, Induction
<1>4. k \in 0..k
  OBVIOUS
<1>5. QED
  BY <1>3, <1>4 DEF D, E

LEMMA DecimalSteps ==
  ASSUME NEW n \in Nat
  PROVE  /\ n < 10 => Decimal(n) = <<n>>
         /\ n >= 10 => Decimal(n) = Append(Decimal(n \div 10), n % 10)
<1>1. \A m \in Nat : Decimal(m) = Digits(m)[m]
  BY DEF Decimal, Digits
<1>2. n \in 0..n /\ n \div 10 \in 0..n /\ n \div 10 \in Nat
  OBVIOUS
<1>3. Digits(n)[n] = IF n < 10 THEN <<n>> ELSE Append(Digits(n)[n \div 10], n % 10)
  BY <1>2, DigitsFollow
<1>4. Digits(n)[n \div 10] = Digits(n \div 10)[n \div 10]
  BY <1>2, DigitsAgree
<1>5. Decimal(n) = Digits(n)[n] /\ Decimal(n \div 10) = Digits(n \div 10)[n \div 10]
  BY <1>1, <1>2
<1>6. CASE n < 10
  <2>1. Digits(n)[n] = <<n>>
    BY <1>3, <1>6
  <2>2. QED
    BY <1>5, <1>6, <2>1
<1>7. CASE n >= 10
  <2>1. ~(n < 10)
    BY <1>7
  <2>2. Digits(n)[n] = Append(Digits(n)[n \div 10], n % 10)
    BY <1>3, <2>1
  <2>3. Decimal(n) = Append(Decimal(n \div 10), n % 10)
    BY <1>4, <1>5, <2>2
  <2>4. QED
    BY <2>1, <2>3
<1>8. QED
  BY <1>6, <1>7

LEMMA DecimalType ==
  ASSUME NEW n \in Nat
  PROVE  Decimal(n) \in Seq(0..9)
<1> DEFINE G == {k \in 0..n : Decimal(k) \in Seq(0..9)}
<1>1. ASSUME NEW k \in 0..n, \A j \in 0..(k - 1) : j \in G
      PROVE  k \in G
  <2>1. CASE k < 10
    <3>1. <<k>> \in Seq(0..9) /\ Decimal(k) = <<k>>
      BY <2>1, DecimalSteps
    <3>2. QED
      BY <3>1
  <2>2. CASE k >= 10
    <3>1. k \div 10 \in 0..(k - 1) /\ k % 10 \in 0..9
      BY <2>2
    <3>2. Decimal(k \div 10) \in Seq(0..9)
      BY <1>1, <3>1
    <3>3. Append(Decimal(k \div 10), k % 10) \in Seq(0..9)
      BY <3>1, <3>2, AppendProperties
    <3>4. k \in Nat
      OBVIOUS
    <3>5. Decimal(k) = Append(Decimal(k \div 10), k % 10)
      BY <2>2, <3>4, DecimalSteps
    <3>6. QED
      BY <3>3, <3>5
  <2>3. QED
    BY <2>1, <2>2
<1>2. \A k \in 0..n : k \in G
  <2> HIDE DEF G
  <2>1. QED
    BY <1>1, Induction
<1>3. n \in 0..n
  OBVIOUS
<1>4. QED
  BY <1>2, <1>3

\* What the loop makes of a text without a leading zero is printed as the text.
LEMMA AccumulatedIsPrinted ==
  ASSUME NEW seg \in Seq(0..9), seg # <<>>, seg[1] # 0 \/ Len(seg) = 1
  PROVE  Decimal(Accumulated(seg)[Len(seg)]) = seg
<1> DEFINE n == Len(seg)
           A == Accumulated(seg)
           G == {i \in 0..n : i >= 1 => /\ Decimal(A[i]) = SubSeq(seg, 1, i)
                                        /\ n > 1 => A[i] >= 1}
<1>1. n \in Nat \ {0} /\ \A i \in 1..n : seg[i] \in 0..9
  BY EmptySeq, ElementOfSeq
<1>2. /\ A[0] = 0 /\ \A i \in 0..n : A[i] \in Nat
      /\ \A i \in 1..n : A[i] = A[i - 1] * 10 + seg[i]
  <2>1. seg \in Seq(Nat)
    BY SeqMonotonic
  <2>2. QED
    BY <2>1, AccumulatedSteps
<1> HIDE DEF A
<1>3. ASSUME NEW k \in 0..n, \A j \in 0..(k - 1) : j \in G
      PROVE  k \in G
  <2>1. CASE k = 0
    BY <2>1
  <2>2. CASE k = 1
    <3>1. A[1] = seg[1] /\ seg[1] \in 0..9
      BY <1>1, <1>2
    <3>2. Decimal(A[1]) = <<seg[1]>>
      BY <3>1, DecimalSteps
    <3>3. SubSeq(seg, 1, 1) = <<seg[1]>>
      <4>1. /\ SubSeq(seg, 1, 1) \in Seq(0..9)
            /\ Len(SubSeq(seg, 1, 1)) = 1
            /\ SubSeq(seg, 1, 1)[1] = seg[1]
        BY <1>1, SubSeqProperties
      <4>2. <<seg[1]>> \in Seq(0..9) /\ Len(<<seg[1]>>) = 1 /\ <<seg[1]>>[1] = seg[1]
        BY <3>1
      <4> DEFINE u == SubSeq(seg, 1, 1)
                 w == <<seg[1]>>
      <4>3. u \in Seq(0..9) /\ w \in Seq(0..9) /\ Len(u) = Len(w)
        BY <4>1, <4>2
      <4>4. \A i \in 1..Len(u) : u[i] = w[i]
        BY <4>1, <4>2
      <4> HIDE DEF u, w
      <4>5. u = w
        BY <4>3, <4>4, SeqEqual
      <4>6. QED
        BY <4>5 DEF u, w
    <3>4. n > 1 => A[1] >= 1
      <4>1. n > 1 => seg[1] # 0
        <5>1. seg[1] # 0 \/ n = 1
          OBVIOUS
        <5> HIDE DEF n
        <5>2. QED
          BY <5>1
      <4> HIDE DEF n
      <4>2. QED
        BY <3>1, <4>1
    <3>5. QED
      BY <2>2, <3>2, <3>3, <3>4
  <2>3. CASE k \in 2..n
    <3>1. /\ Decimal(A[k - 1]) = SubSeq(seg, 1, k - 1) /\ A[k - 1] >= 1
      BY <1>3, <2>3
    <3>2. A[k] = A[k - 1] * 10 + seg[k] /\ A[k - 1] \in Nat /\ seg[k] \in 0..9
      BY <1>1, <1>2, <2>3
    <3>3. A[k] >= 10 /\ A[k] \div 10 = A[k - 1] /\ A[k] % 10 = seg[k] /\ A[k] \in Nat
      <4>1. \A a \in Nat, c \in 0..9 :
               a >= 1 => /\ a * 10 + c >= 10 /\ (a * 10 + c) \div 10 = a
                         /\ (a * 10 + c) % 10 = c /\ a * 10 + c \in Nat
        OBVIOUS
      <4>2. QED
        BY <3>1, <3>2, <4>1
    <3>4. Decimal(A[k]) = Append(SubSeq(seg, 1, k - 1), seg[k])
      BY <3>1, <3>3, DecimalSteps
    <3>5. SubSeq(seg, 1, k - 1) \in Seq(0..9)
      BY <1>1, <2>3, SubSeqProperties
    <3>6. SubSeq(seg, 1, k) = SubSeq(seg, 1, k - 1) \o <<seg[k]>>
      BY <2>3, SubSeqRecursiveSecond
    <3>7. Decimal(A[k]) = SubSeq(seg, 1, k)
      BY <3>2, <3>4, <3>5, <3>6, AppendIsConcat
    <3>8. QED
      BY <3>3, <3>7
  <2>4. QED
    BY <2>1, <2>2, <2>3
<1>4. \A k \in 0..n : k \in G
  <2> HIDE DEF G, n
  <2>1. QED
    BY <1>1, <1>3, Induction
<1>5. Decimal(A[n]) = SubSeq(seg, 1, n)
  BY <1>1, <1>4
<1>6. QED
  BY <1>5, SubSeqFull DEF A

\* What is printed is read again: digits, no leading zero, and the loop ends
\* with the number and never exceeds it.
Reads(s, v) ==
  /\ s \in Seq(0..9) /\ s # <<>> /\ (s[1] = 0 => Len(s) = 1)
  /\ Accumulated(s)[Len(s)] = v
  /\ \A i \in 1..Len(s) : Accumulated(s)[i] <= v

LEMMA DigitIsRead ==
  ASSUME NEW k \in 0..9
  PROVE  Reads(<<k>>, k)
<1> DEFINE s == <<k>>
<1>1. s \in Seq(0..9) /\ s \in Seq(Nat) /\ s # <<>> /\ Len(s) = 1 /\ s[1] = k
  OBVIOUS
<1> HIDE DEF s
<1>2. Accumulated(s)[0] = 0 /\ \A i \in 1..Len(s) : Accumulated(s)[i] = Accumulated(s)[i - 1] * 10 + s[i]
  BY <1>1, AccumulatedSteps
<1>3. 1 \in 1..Len(s) /\ 1 - 1 = 0
  BY <1>1
<1>4. Accumulated(s)[1] = Accumulated(s)[0] * 10 + s[1]
  BY <1>2, <1>3
<1>5. Accumulated(s)[1] = k
  BY <1>1, <1>2, <1>4
<1>6. Reads(s, k)
  BY <1>1, <1>5 DEF Reads
<1>7. QED
  BY <1>6 DEF s

LEMMA NextDigitIsRead ==
  ASSUME NEW t, NEW d \in Nat, d >= 1, NEW c \in 0..9, Reads(t, d)
  PROVE  Reads(Append(t, c), d * 10 + c)
<1> DEFINE s == Append(t, c)
           n == Len(t)
           k == d * 10 + c
<1>1. t \in Seq(0..9) /\ t # <<>> /\ 0..9 \subseteq Nat
  BY DEF Reads
<1>2. t \in Seq(Nat) /\ n \in Nat \ {0}
  BY <1>1, EmptySeq, SeqMonotonic
<1>3. /\ s \in Seq(0..9) /\ s # <<>> /\ Len(s) = n + 1 /\ s[n + 1] = c
      /\ \A i \in 1..n : s[i] = t[i]
  BY <1>1, AppendProperties
<1> HIDE DEF s
<1>4. s \in Seq(Nat)
  BY <1>1, <1>3, SeqMonotonic
<1>5. \A i \in 0..n : Accumulated(s)[i] = Accumulated(t)[i]
  <2>1. Len(t) <= Len(s) /\ \A i \in 1..Len(t) : s[i] = t[i]
    BY <1>2, <1>3
  <2>2. QED
    BY <1>2, <1>4, <2>1, AccumulatedPrefix
<1>6. Accumulated(s)[n + 1] = Accumulated(s)[n] * 10 + c
  <2>1. \A i \in 1..Len(s) : Accumulated(s)[i] = Accumulated(s)[i - 1] * 10 + s[i]
    BY <1>4, AccumulatedSteps
  <2> HIDE DEF n
  <2>2. n + 1 \in 1..Len(s) /\ (n + 1) - 1 = n
    BY <1>2, <1>3
  <2>3. QED
    BY <1>3, <2>1, <2>2
<1>7. Accumulated(t)[n] = d /\ \A i \in 1..n : Accumulated(t)[i] <= d
  BY DEF Reads
<1>8. \A i \in 0..n : Accumulated(t)[i] \in Nat
  BY <1>2, AccumulatedSteps
<1>9. Accumulated(s)[n + 1] = k
  <2>1. Accumulated(s)[n] = d
    BY <1>2, <1>5, <1>7
  <2>2. QED
    BY <1>6, <2>1
<1>10. s[1] # 0
  <2>1. t[1] = 0 => n = 1
    BY DEF Reads
  <2>2. Accumulated(t)[0] = 0 /\ \A i \in 1..n : Accumulated(t)[i] = Accumulated(t)[i - 1] * 10 + t[i]
    BY <1>2, AccumulatedSteps
  <2>3. 1 \in 1..n /\ 1 - 1 = 0 /\ t[1] \in 0..9
    BY <1>1, <1>2, ElementOfSeq
  <2>4. Accumulated(t)[1] = t[1]
    <3>1. Accumulated(t)[1] = Accumulated(t)[0] * 10 + t[1]
      BY <2>2, <2>3
    <3>2. QED
      BY <2>2, <2>3, <3>1
  <2> HIDE DEF n
  <2>5. t[1] # 0
    BY <1>7, <2>1, <2>4
  <2>6. QED
    BY <1>3, <2>3, <2>5
<1>11. ASSUME NEW i \in 1..(n + 1) PROVE Accumulated(s)[i] <= k
  <2>1. CASE i = n + 1
    BY <1>9, <2>1
  <2>2. CASE i \in 1..n
    <3>1. Accumulated(s)[i] = Accumulated(t)[i]
      BY <1>5, <2>2
    <3>2. Accumulated(t)[i] \in Nat /\ Accumulated(t)[i] <= d
      BY <1>7, <1>8, <2>2
    <3>3. QED
      BY <3>1, <3>2
  <2>3. QED
    BY <1>2, <2>1, <2>2
<1>12. Reads(s, k)
  <2> HIDE DEF n, k
  <2>1. QED
    BY <1>3, <1>9, <1>10, <1>11 DEF Reads
<1>13. QED
  BY <1>12 DEF s

LEMMA PrintedIsAccumulated ==
  ASSUME NEW v \in Nat
  PROVE  Reads(Decimal(v), v)
<1> DEFINE G == {k \in 0..v : Reads(Decimal(k), k)}
<1>1. ASSUME NEW k \in 0..v, \A j \in 0..(k - 1) : j \in G
      PROVE  k \in G
  <2>1. k \in Nat
    OBVIOUS
  <2>2. CASE k < 10
    <3>1. k \in 0..9 /\ Decimal(k) = <<k>>
      BY <2>1, <2>2, DecimalSteps
    <3>2. QED
      BY <3>1, DigitIsRead
  <2>3. CASE k >= 10
    <3> DEFINE d == k \div 10
               c == k % 10
    <3>1. d \in 0..(k - 1) /\ d \in Nat /\ d >= 1 /\ c \in 0..9 /\ k = d * 10 + c
      BY <2>3
    <3>2. Decimal(k) = Append(Decimal(d), c)
      BY <2>1, <2>3, DecimalSteps
    <3>3. Reads(Decimal(d), d)
      BY <1>1, <3>1
    <3> HIDE DEF d, c
    <3>4. Reads(Append(Decimal(d), c), d * 10 + c)
      BY <3>1, <3>3, NextDigitIsRead
    <3>5. Reads(Decimal(k), k)
      BY <3>1, <3>2, <3>4
    <3>6. QED
      BY <3>5
  <2>4. QED
    BY <2>1, <2>2, <2>3
<1>2. \A k \in 0..v : k \in G
  <2> HIDE DEF G
  <2>1. QED
    BY <1>1, Induction
<1>3. v \in 0..v
  OBVIOUS
<1>4. QED
  BY <1>2, <1>3

-----------------------------------------------------------------------------
(***************************************************************************)
(* One component.                                                          *)
(***************************************************************************)
Character == 0..11

LEMMA CharactersAccumulate ==
  ASSUME NEW seg \in Seq(Character)
  PROVE  /\ seg \in Seq(Nat) /\ Len(seg) \in Nat
         /\ \A i \in 0..Len(seg) : Accumulated(seg)[i] \in Nat
<1>1. Character \subseteq Nat
  BY DEF Character
<1>2. seg \in Seq(Nat)
  BY <1>1, SeqMonotonic
<1>3. QED
  BY <1>2, AccumulatedSteps, LenProperties

\* Where the loop leaves.
Stop(seg, i) == seg[i] \notin Digit \/ Accumulated(seg)[i] > MaxComponent

LEMMA LoopRunsThrough ==
  ASSUME NEW seg \in Seq(Character), seg # <<>>, seg[1] = 0 => Len(seg) = 1,
         \A i \in 1..Len(seg) : ~Stop(seg, i)
  PROVE  ParseComponent(seg) = Parsed(Accumulated(seg)[Len(seg)])
<1>1. {i \in 1..Len(seg) : \/ seg[i] \notin Digit
                           \/ Accumulated(seg)[i] > MaxComponent} = {}
  BY DEF Stop
<1>2. ~(seg[1] = 0 /\ Len(seg) # 1)
  OBVIOUS
<1>3. QED
  BY <1>1, <1>2, Zenon DEF ParseComponent

LEMMA LoopStops ==
  ASSUME NEW seg \in Seq(Character), seg # <<>>, seg[1] = 0 => Len(seg) = 1,
         NEW k \in 1..Len(seg), Stop(seg, k)
  PROVE  \E i \in 1..Len(seg) :
           /\ Stop(seg, i)
           /\ ParseComponent(seg) = IF seg[i] \notin Digit THEN Invalid ELSE OutOfRange
<1> DEFINE stops == {i \in 1..Len(seg) : \/ seg[i] \notin Digit
                                         \/ Accumulated(seg)[i] > MaxComponent}
           first == CHOOSE i \in stops : \A j \in stops : i <= j
<1>1. k \in stops
  BY DEF Stop
<1>2. stops \in SUBSET Nat
  BY LenProperties
<1>3. first \in stops
  <2>1. stops # {}
    BY <1>1
  <2> HIDE DEF stops
  <2>2. \E i \in stops : \A j \in stops : i <= j
    BY <1>2, <2>1, FirstExists
  <2>3. QED
    BY <2>2, Zenon
<1>4. ~(seg[1] = 0 /\ Len(seg) # 1)
  OBVIOUS
<1>5. ParseComponent(seg) = IF stops = {} THEN Parsed(Accumulated(seg)[Len(seg)])
                            ELSE IF seg[first] \notin Digit THEN Invalid ELSE OutOfRange
  BY <1>4, Zenon DEF ParseComponent
<1>6. Stop(seg, first) /\ first \in 1..Len(seg)
  <2> HIDE DEF first
  <2>1. QED
    BY <1>3 DEF Stop
<1> HIDE DEF first
<1>7. ParseComponent(seg) = IF seg[first] \notin Digit THEN Invalid ELSE OutOfRange
  BY <1>1, <1>5, Zenon
<1>8. QED
  BY <1>6, <1>7, Zenon

LEMMA RefusedAtOnce ==
  ASSUME NEW seg, ~(seg # <<>> /\ (seg[1] = 0 => Len(seg) = 1))
  PROVE  ParseComponent(seg) = Invalid
<1>1. CASE seg = <<>>
  BY <1>1 DEF ParseComponent
<1>2. CASE seg # <<>>
  BY <1>2 DEF ParseComponent
<1>3. QED
  BY <1>1, <1>2

\* What is accepted is printed as it was written.
LEMMA AcceptedComponent ==
  ASSUME NEW seg \in Seq(Character), ParseComponent(seg).result = "ok"
  PROVE  \E v \in Component : ParseComponent(seg) = Parsed(v) /\ seg = Decimal(v)
<1>1. Invalid.result # "ok" /\ OutOfRange.result # "ok"
  BY DEF Invalid, OutOfRange
<1>2. seg # <<>> /\ (seg[1] = 0 => Len(seg) = 1)
  BY <1>1, RefusedAtOnce
<1>3. \A i \in 1..Len(seg) : ~Stop(seg, i)
  BY <1>1, <1>2, LoopStops
<1> DEFINE v == Accumulated(seg)[Len(seg)]
<1>4. ParseComponent(seg) = Parsed(v)
  BY <1>2, <1>3, LoopRunsThrough
<1>5. Len(seg) \in 1..Len(seg) /\ Len(seg) \in 0..Len(seg) /\ Len(seg) \in Nat
  BY <1>2, EmptySeq
<1>6. v \in Component
  <2>1. v \in Nat
    BY <1>5, CharactersAccumulate
  <2>2. ~(v > MaxComponent)
    BY <1>3, <1>5 DEF Stop
  <2>3. QED
    BY <2>1, <2>2, MaxComponentAssumption DEF Component
<1>7. seg \in Seq(0..9)
  <2>1. \A i \in 1..Len(seg) : seg[i] \in 0..9
    BY <1>3 DEF Stop, Digit
  <2>2. seg \in [1..Len(seg) -> 0..9]
    BY <2>1, LenProperties
  <2>3. QED
    BY <1>5, <2>2, SeqDef
<1>8. Decimal(v) = seg
  <2>1. seg[1] # 0 \/ Len(seg) = 1
    BY <1>2
  <2>2. QED
    BY <1>2, <1>7, <2>1, AccumulatedIsPrinted
<1>9. QED
  BY <1>4, <1>6, <1>8

\* What is printed is accepted.
LEMMA PrintedComponent ==
  ASSUME NEW v \in Component
  PROVE  /\ ParseComponent(Decimal(v)) = Parsed(v)
         /\ Decimal(v) \in Seq(Digit)
<1> DEFINE s == Decimal(v)
<1>1. v \in Nat /\ v <= MaxComponent
  BY MaxComponentAssumption DEF Component
<1>2. Reads(s, v)
  BY <1>1, PrintedIsAccumulated
<1> HIDE DEF s
<1>3. s \in Seq(Character)
  <2>1. 0..9 \subseteq Character
    BY DEF Character
  <2>2. s \in Seq(0..9)
    BY <1>2 DEF Reads
  <2>3. QED
    BY <2>1, <2>2, SeqMonotonic
<1>4. \A i \in 1..Len(s) : ~Stop(s, i)
  <2>1. SUFFICES ASSUME NEW i \in 1..Len(s) PROVE ~Stop(s, i)
    OBVIOUS
  <2>2. s[i] \in Digit
    BY <1>2, ElementOfSeq DEF Reads, Digit
  <2>3. Accumulated(s)[i] \in Nat
    BY <1>3, CharactersAccumulate
  <2>4. Accumulated(s)[i] <= v
    BY <1>2 DEF Reads
  <2>5. QED
    BY <1>1, <2>2, <2>3, <2>4, MaxComponentAssumption DEF Stop
<1>5. ParseComponent(s) = Parsed(v)
  BY <1>2, <1>3, <1>4, LoopRunsThrough DEF Reads
<1>6. s \in Seq(Digit)
  BY <1>2 DEF Reads, Digit
<1>7. QED
  BY <1>5, <1>6 DEF s

\* What is in the grammar is not called malformed.
LEMMA GrammaticalComponent ==
  ASSUME NEW seg \in Seq(Character), IsComponent(seg)
  PROVE  ParseComponent(seg) # Invalid
<1>1. OutOfRange # Invalid /\ \A v : Parsed(v) # Invalid
  <2>1. OutOfRange.result = "out_of_range" /\ Invalid.result = "invalid_argument"
    BY DEF OutOfRange, Invalid
  <2>2. \A v : Parsed(v).result = "ok"
    BY DEF Parsed
  <2>3. QED
    BY <2>1, <2>2
<1>2. CASE \A i \in 1..Len(seg) : ~Stop(seg, i)
  BY <1>1, <1>2, LoopRunsThrough DEF IsComponent
<1>3. CASE \E i \in 1..Len(seg) : Stop(seg, i)
  <2>1. PICK i \in 1..Len(seg) :
           ParseComponent(seg) = IF seg[i] \notin Digit THEN Invalid ELSE OutOfRange
    BY <1>3, LoopStops DEF IsComponent
  <2>2. seg[i] \in Digit
    BY DEF IsComponent
  <2>3. QED
    BY <1>1, <2>1, <2>2
<1>4. QED
  BY <1>2, <1>3

-----------------------------------------------------------------------------
(***************************************************************************)
(* Three components.                                                       *)
(***************************************************************************)
\* What from_string makes of the three parts.
Outcomes(part) ==
  LET thrown == {part[i] : i \in {k \in 1..3 : part[k].result # "ok"}}
  IN  IF thrown # {} THEN thrown
      ELSE {Parsed(<<part[1].value, part[2].value, part[3].value>>)}

Parts(s, i, j) ==
  << ParseComponent(SubSeq(s, 1, i - 1)),
     ParseComponent(SubSeq(s, i + 1, j - 1)),
     ParseComponent(SubSeq(s, j + 1, Len(s))) >>

LEMMA PairHasTwo ==
  ASSUME NEW a, NEW b, a # b
  PROVE  Cardinality({a, b}) = 2
<1>1. IsFiniteSet({a}) /\ Cardinality({a}) = 1
  BY FS_Singleton
<1>2. b \notin {a} /\ {a} \cup {b} = {a, b}
  OBVIOUS
<1>3. Cardinality({a} \cup {b}) = Cardinality({a}) + 1
  BY ONLY <1>1, <1>2, FS_AddElement
<1>4. QED
  BY ONLY <1>1, <1>2, <1>3

LEMMA SplitAtDots ==
  ASSUME NEW s \in Seq(Character), NEW i \in 1..Len(s), NEW j \in 1..Len(s), i < j,
         s[i] = Dot, s[j] = Dot,
         \A k \in 1..Len(s) : k # i /\ k # j => s[k] # Dot
  PROVE  FromString(s) = Outcomes(Parts(s, i, j))
<1> DEFINE dots == {k \in 1..Len(s) : s[k] = Dot}
           d1 == CHOOSE k \in dots : \A l \in dots : k <= l
           d2 == CHOOSE k \in dots : \A l \in dots : k >= l
<1>1. dots = {i, j}
  OBVIOUS
<1>2. i \in Nat /\ j \in Nat
  BY LenProperties
<1>3. Cardinality(dots) = 2
  <2>1. Cardinality({i, j}) = 2
    BY <1>2, PairHasTwo, i # j
  <2>2. QED
    BY <1>1, <2>1
<1>4. d1 = i
  <2>1. i \in dots /\ \A l \in dots : i <= l
    BY <1>1, <1>2
  <2>2. \A k \in dots : (\A l \in dots : k <= l) => k = i
    BY <1>1, <1>2
  <2> HIDE DEF dots
  <2>3. QED
    BY <2>1, <2>2
<1>5. d2 = j
  <2>1. j \in dots /\ \A l \in dots : j >= l
    BY <1>1, <1>2
  <2>2. \A k \in dots : (\A l \in dots : k >= l) => k = j
    BY <1>1, <1>2
  <2> HIDE DEF dots
  <2>3. QED
    BY <2>1, <2>2
<1>6. FromString(s) = IF Cardinality(dots) # 2 THEN {Invalid}
                      ELSE Outcomes(Parts(s, d1, d2))
  BY DEF FromString, Outcomes, Parts
<1> HIDE DEF dots, d1, d2
<1>7. QED
  BY <1>3, <1>4, <1>5, <1>6

LEMMA NoTwoDots ==
  ASSUME NEW s \in Seq(Character), NEW o \in FromString(s), o.result = "ok"
  PROVE  \E i, j \in 1..Len(s) :
           /\ i < j /\ s[i] = Dot /\ s[j] = Dot
           /\ \A k \in 1..Len(s) : k # i /\ k # j => s[k] # Dot
<1> DEFINE dots == {k \in 1..Len(s) : s[k] = Dot}
<1>1. Cardinality(dots) = 2
  <2>1. Cardinality(dots) # 2 => FromString(s) = {Invalid}
    BY DEF FromString
  <2>2. Invalid.result # "ok"
    BY DEF Invalid
  <2>3. QED
    BY <2>1, <2>2
<1>2. IsFiniteSet(dots) /\ dots \subseteq Nat
  <2>1. IsFiniteSet(1..Len(s)) /\ 1..Len(s) \subseteq Nat
    BY FS_Interval, LenProperties
  <2>2. QED
    BY <2>1, FS_Subset
<1>3. PICK a \in dots : TRUE
  <2>1. dots # {}
    <3>1. IsFiniteSet({}) /\ Cardinality({}) = 0
      BY FS_EmptySet
    <3>2. dots = {} => Cardinality(dots) = 0
      BY <3>1, Zenon
    <3> HIDE DEF dots
    <3>3. QED
      BY <1>1, <3>2
  <2>2. QED
    BY <2>1
<1>4. PICK b \in dots \ {a} : dots \ {a, b} = {}
  <2>1. IsFiniteSet(dots \ {a}) /\ Cardinality(dots \ {a}) = 1
    <3> HIDE DEF dots
    <3>1. Cardinality(dots \ {a}) = Cardinality(dots) - 1 /\ IsFiniteSet(dots \ {a})
      BY <1>2, <1>3, FS_RemoveElement
    <3>2. QED
      BY <1>1, <3>1
  <2>2. PICK b : dots \ {a} = {b}
    BY <2>1, FS_Singleton
  <2>3. QED
    BY <2>2
<1>5. a # b /\ a \in Nat /\ b \in Nat /\ a \in 1..Len(s) /\ b \in 1..Len(s) /\ s[a] = Dot /\ s[b] = Dot
  BY <1>2, <1>4
<1>6. \A k \in 1..Len(s) : k # a /\ k # b => s[k] # Dot
  BY <1>4
<1>7. CASE a < b
  BY <1>5, <1>6, <1>7
<1>8. CASE b < a
  BY <1>5, <1>6, <1>8
<1>9. QED
  BY <1>5, <1>7, <1>8

\* A text is what lies before, between and after two of its places.
LEMMA Reassembled ==
  ASSUME NEW S, NEW s \in Seq(S), NEW i \in 1..Len(s), NEW j \in 1..Len(s), i < j
  PROVE  /\ s = SubSeq(s, 1, i - 1) \o <<s[i]>> \o SubSeq(s, i + 1, j - 1)
                  \o <<s[j]>> \o SubSeq(s, j + 1, Len(s))
         /\ SubSeq(s, 1, i - 1) \in Seq(S) /\ SubSeq(s, i + 1, j - 1) \in Seq(S)
         /\ SubSeq(s, j + 1, Len(s)) \in Seq(S)
<1> DEFINE n == Len(s)
           a == SubSeq(s, 1, i - 1)
           b == SubSeq(s, i + 1, j - 1)
           c == SubSeq(s, j + 1, n)
<1>1. n \in Nat /\ i \in Nat /\ j \in Nat /\ \A k \in 1..n : s[k] \in S
  BY LenProperties, ElementOfSeq
<1>2. s = SubSeq(s, 1, n)
  BY SubSeqFull
<1>3. SubSeq(s, 1, n) = SubSeq(s, 1, j) \o c
  BY <1>1, ConcatAdjacentSubSeq
<1>4. SubSeq(s, 1, j) = SubSeq(s, 1, i) \o SubSeq(s, i + 1, j)
  BY <1>1, ConcatAdjacentSubSeq
<1>5. SubSeq(s, 1, i) = a \o <<s[i]>>
  BY <1>1, SubSeqRecursiveSecond
<1>6. SubSeq(s, i + 1, j) = b \o <<s[j]>>
  BY <1>1, SubSeqRecursiveSecond
<1>7. a \in Seq(S)
  BY <1>1, SubSeqProperties
<1>8. b \in Seq(S)
  BY <1>1, SubSeqProperties
<1>9. c \in Seq(S)
  BY <1>1, SubSeqProperties
<1>10. a \o <<s[i]>> \in Seq(S) /\ <<s[j]>> \in Seq(S)
  <2>1. <<s[i]>> \in Seq(S) /\ <<s[j]>> \in Seq(S)
    BY <1>1
  <2> HIDE DEF a
  <2>2. QED
    BY <1>7, <2>1, ConcatProperties
<1>11. s = ((a \o <<s[i]>>) \o (b \o <<s[j]>>)) \o c
  BY <1>2, <1>3, <1>4, <1>5, <1>6, Zenon
<1> HIDE DEF a, b, c
<1>12. (a \o <<s[i]>>) \o (b \o <<s[j]>>) = ((a \o <<s[i]>>) \o b) \o <<s[j]>>
  BY <1>8, <1>10, ConcatAssociative
<1>13. s = (((a \o <<s[i]>>) \o b) \o <<s[j]>>) \o c
  BY <1>11, <1>12, Zenon
<1>14. QED
  BY <1>7, <1>8, <1>9, <1>13 DEF a, b, c

LEMMA ConcatAt ==
  ASSUME NEW S, NEW s \in Seq(S), NEW t \in Seq(S)
  PROVE  /\ s \o t \in Seq(S) /\ Len(s \o t) = Len(s) + Len(t)
         /\ \A k \in 1..Len(s) : (s \o t)[k] = s[k]
         /\ \A k \in 1..Len(t) : (s \o t)[Len(s) + k] = t[k]
<1>1. Len(s) \in Nat /\ Len(t) \in Nat
  BY LenProperties
<1>2. /\ s \o t \in Seq(S) /\ Len(s \o t) = Len(s) + Len(t)
      /\ \A k \in 1..(Len(s) + Len(t)) : (s \o t)[k] = IF k <= Len(s) THEN s[k] ELSE t[k - Len(s)]
  BY ConcatProperties
<1>3. ASSUME NEW k \in 1..Len(s) PROVE (s \o t)[k] = s[k]
  BY <1>1, <1>2
<1>4. ASSUME NEW k \in 1..Len(t) PROVE (s \o t)[Len(s) + k] = t[k]
  <2>1. /\ Len(s) + k \in 1..(Len(s) + Len(t)) /\ ~(Len(s) + k <= Len(s))
        /\ (Len(s) + k) - Len(s) = k
    BY <1>1
  <2>2. QED
    BY <1>2, <2>1
<1>5. QED
  BY <1>2, <1>3, <1>4

LEMMA SubSeqAt ==
  ASSUME NEW S, NEW s \in Seq(S), NEW a \in Seq(S), NEW m \in Nat,
         m + Len(a) <= Len(s), \A k \in 1..Len(a) : s[m + k] = a[k]
  PROVE  SubSeq(s, m + 1, m + Len(a)) = a
<1> DEFINE t == SubSeq(s, m + 1, m + Len(a))
<1>1. Len(a) \in Nat /\ Len(s) \in Nat
  BY LenProperties
<1>2. \A k \in (m + 1)..(m + Len(a)) : s[k] \in S
  BY <1>1, ElementOfSeq
<1>3. /\ t \in Seq(S)
      /\ Len(t) = IF m + 1 <= m + Len(a) THEN m + Len(a) - (m + 1) + 1 ELSE 0
      /\ \A k \in 1..(m + Len(a) - (m + 1) + 1) : t[k] = s[m + 1 + k - 1]
  BY <1>1, <1>2, SubSeqProperties
<1> HIDE DEF t
<1>4. Len(t) = Len(a)
  BY <1>1, <1>3
<1>5. ASSUME NEW k \in 1..Len(t) PROVE t[k] = a[k]
  <2>1. k \in 1..(m + Len(a) - (m + 1) + 1) /\ m + 1 + k - 1 = m + k /\ k \in 1..Len(a)
    BY <1>1, <1>4
  <2>2. QED
    BY <1>3, <2>1
<1>6. t = a
  BY <1>3, <1>4, <1>5, SeqEqual
<1>7. QED
  BY <1>6 DEF t

\* The parts of s before, between and after i and j, where an x stands.
IsSplit(s, i, j, x, a, b, c) ==
  /\ i < j /\ s[i] = x /\ s[j] = x
  /\ \A k \in 1..Len(s) : k # i /\ k # j =>
       \/ \E l \in 1..Len(a) : s[k] = a[l]
       \/ \E l \in 1..Len(b) : s[k] = b[l]
       \/ \E l \in 1..Len(c) : s[k] = c[l]
  /\ SubSeq(s, 1, i - 1) = a /\ SubSeq(s, i + 1, j - 1) = b
  /\ SubSeq(s, j + 1, Len(s)) = c

LEMMA ThreeParts ==
  ASSUME NEW S, NEW a \in Seq(S), NEW b \in Seq(S), NEW c \in Seq(S), NEW x \in S,
         NEW s, s = a \o <<x>> \o b \o <<x>> \o c
  PROVE  /\ s \in Seq(S)
         /\ \E i, j \in 1..Len(s) : IsSplit(s, i, j, x, a, b, c)
<1> DEFINE la == Len(a)
           lb == Len(b)
           lc == Len(c)
           i == la + 1
           j == la + lb + 2
<1>1. la \in Nat /\ lb \in Nat /\ lc \in Nat
  BY LenProperties
<1>2. <<x>> \in Seq(S) /\ Len(<<x>>) = 1 /\ <<x>>[1] = x
  OBVIOUS
<1> DEFINE p1 == a \o <<x>>
           p2 == p1 \o b
           p3 == p2 \o <<x>>
<1>3. /\ p1 \in Seq(S) /\ Len(p1) = la + 1 /\ p1[la + 1] = x
      /\ \A k \in 1..la : p1[k] = a[k]
  <2>1. /\ p1 \in Seq(S) /\ Len(p1) = la + Len(<<x>>)
        /\ \A k \in 1..la : p1[k] = a[k]
        /\ \A k \in 1..Len(<<x>>) : p1[la + k] = <<x>>[k]
    BY <1>2, ConcatAt
  <2>2. QED
    BY <1>2, <2>1
<1>4. /\ p2 \in Seq(S) /\ Len(p2) = la + 1 + lb
      /\ \A k \in 1..(la + 1) : p2[k] = p1[k]
      /\ \A k \in 1..lb : p2[la + 1 + k] = b[k]
  <2> HIDE DEF p1, la, lb
  <2>1. /\ p2 \in Seq(S) /\ Len(p2) = Len(p1) + Len(b)
        /\ \A k \in 1..Len(p1) : p2[k] = p1[k]
        /\ \A k \in 1..Len(b) : p2[Len(p1) + k] = b[k]
    <3>1. p1 \in Seq(S) /\ b \in Seq(S)
      BY <1>3
    <3>2. QED
      BY <3>1, ConcatAt
  <2> HIDE DEF p2
  <2>2. QED
    BY <1>3, <2>1 DEF lb
<1>5. /\ p3 \in Seq(S) /\ Len(p3) = la + 1 + lb + 1 /\ p3[la + 1 + lb + 1] = x
      /\ \A k \in 1..(la + 1 + lb) : p3[k] = p2[k]
  <2> HIDE DEF p2
  <2>1. /\ p3 \in Seq(S) /\ Len(p3) = Len(p2) + Len(<<x>>)
        /\ \A k \in 1..Len(p2) : p3[k] = p2[k]
        /\ \A k \in 1..Len(<<x>>) : p3[Len(p2) + k] = <<x>>[k]
    <3>1. p2 \in Seq(S) /\ <<x>> \in Seq(S)
      BY <1>2, <1>4
    <3>2. QED
      BY <3>1, ConcatAt
  <2> HIDE DEF p3, la, lb
  <2>2. QED
    BY <1>2, <1>4, <2>1
<1>6. /\ s \in Seq(S) /\ Len(s) = la + 1 + lb + 1 + lc
      /\ \A k \in 1..(la + 1 + lb + 1) : s[k] = p3[k]
      /\ \A k \in 1..lc : s[la + 1 + lb + 1 + k] = c[k]
  <2>1. s = p3 \o c
    OBVIOUS
  <2> HIDE DEF p3, la, lb, lc
  <2>2. /\ s \in Seq(S) /\ Len(s) = Len(p3) + Len(c)
        /\ \A k \in 1..Len(p3) : s[k] = p3[k]
        /\ \A k \in 1..Len(c) : s[Len(p3) + k] = c[k]
    <3>1. p3 \in Seq(S) /\ c \in Seq(S)
      BY <1>5
    <3>2. /\ p3 \o c \in Seq(S) /\ Len(p3 \o c) = Len(p3) + Len(c)
          /\ \A k \in 1..Len(p3) : (p3 \o c)[k] = p3[k]
          /\ \A k \in 1..Len(c) : (p3 \o c)[Len(p3) + k] = c[k]
      BY <3>1, ConcatAt
    <3>3. QED
      BY <2>1, <3>2, Zenon
  <2>3. QED
    BY <1>5, <2>2 DEF lc
<1> HIDE DEF p1, p2, p3, la, lb, lc
<1>7. /\ \A k \in 1..la : s[k] = a[k]
      /\ s[i] = x /\ s[j] = x
      /\ \A k \in 1..lb : s[i + k] = b[k]
      /\ \A k \in 1..lc : s[j + k] = c[k]
  <2>1. ASSUME NEW k \in 1..la PROVE s[k] = a[k]
    BY <1>1, <1>3, <1>4, <1>5, <1>6
  <2>2. s[i] = x
    <3>1. /\ la + 1 \in 1..(la + 1) /\ la + 1 \in 1..(la + 1 + lb)
          /\ la + 1 \in 1..(la + 1 + lb + 1)
      BY <1>1
    <3>2. s[la + 1] = x
      BY <1>3, <1>4, <1>5, <1>6, <3>1
    <3>3. QED
      BY <3>2
  <2>3. s[j] = x
    <3>1. la + 1 + lb + 1 = j /\ j \in 1..(la + 1 + lb + 1)
      BY <1>1
    <3> HIDE DEF j
    <3>2. QED
      BY <1>5, <1>6, <3>1
  <2>4. ASSUME NEW k \in 1..lb PROVE s[i + k] = b[k]
    <3>1. /\ la + 1 + k = i + k /\ i + k \in 1..(la + 1 + lb)
          /\ i + k \in 1..(la + 1 + lb + 1)
      BY <1>1
    <3> HIDE DEF i
    <3>2. QED
      BY <1>4, <1>5, <1>6, <3>1
  <2>5. ASSUME NEW k \in 1..lc PROVE s[j + k] = c[k]
    <3>1. la + 1 + lb + 1 + k = j + k
      BY <1>1
    <3> HIDE DEF j
    <3>2. QED
      BY <1>6, <3>1
  <2>6. QED
    BY <2>1, <2>2, <2>3, <2>4, <2>5
<1>8. /\ i \in 1..Len(s) /\ j \in 1..Len(s) /\ i < j
      /\ i = la + 1 /\ j = i + lb + 1 /\ Len(s) = j + lc
  BY <1>1, <1>6
<1> HIDE DEF i, j
<1>9. ASSUME NEW k \in 1..Len(s), k # i, k # j
      PROVE  \/ \E l \in 1..Len(a) : s[k] = a[l]
             \/ \E l \in 1..Len(b) : s[k] = b[l]
             \/ \E l \in 1..Len(c) : s[k] = c[l]
  <2>1. CASE k < i
    <3>1. k \in 1..la
      BY <1>1, <1>8, <2>1
    <3>2. QED
      BY <1>7, <3>1 DEF la
  <2>2. CASE k > i /\ k < j
    <3>1. k - i \in 1..lb /\ i + (k - i) = k
      BY <1>1, <1>8, <2>2
    <3>2. s[k] = b[k - i]
      BY <1>7, <3>1
    <3>3. QED
      BY <3>1, <3>2 DEF lb
  <2>3. CASE k > j
    <3>1. k - j \in 1..lc /\ j + (k - j) = k
      BY <1>1, <1>8, <2>3
    <3>2. s[k] = c[k - j]
      BY <1>7, <3>1
    <3>3. QED
      BY <3>1, <3>2 DEF lc
  <2>4. k < i \/ (k > i /\ k < j) \/ k > j
    <3>1. i \in Nat /\ j \in Nat /\ k \in Nat
      BY <1>1, <1>8
    <3>2. QED
      BY <1>9, <3>1
  <2>5. QED
    BY <2>1, <2>2, <2>3, <2>4
<1>10. SubSeq(s, 1, i - 1) = a
  <2>1. 0 + Len(a) <= Len(s) /\ \A k \in 1..Len(a) : s[0 + k] = a[k]
    BY <1>1, <1>7, <1>8 DEF la
  <2>2. SubSeq(s, 0 + 1, 0 + Len(a)) = a
    BY <1>6, <2>1, SubSeqAt
  <2>3. 0 + 1 = 1 /\ 0 + Len(a) = i - 1
    BY <1>1, <1>8 DEF la
  <2>4. QED
    BY <2>2, <2>3
<1>11. SubSeq(s, i + 1, j - 1) = b
  <2>1. i \in Nat /\ i + Len(b) <= Len(s)
    <3>1. i \in Nat /\ i + lb <= Len(s)
      BY <1>1, <1>8
    <3>2. QED
      BY <3>1 DEF lb
  <2>0. \A k \in 1..Len(b) : s[i + k] = b[k]
    BY <1>7 DEF lb
  <2>2. SubSeq(s, i + 1, i + Len(b)) = b
    BY <1>6, <2>0, <2>1, SubSeqAt
  <2>3. i + Len(b) = j - 1
    BY <1>1, <1>8 DEF lb
  <2>4. QED
    BY <2>2, <2>3
<1>12. SubSeq(s, j + 1, Len(s)) = c
  <2>1. j \in Nat /\ j + Len(c) <= Len(s) /\ \A k \in 1..Len(c) : s[j + k] = c[k]
    BY <1>1, <1>7, <1>8 DEF lc
  <2>2. SubSeq(s, j + 1, j + Len(c)) = c
    BY <1>6, <2>1, SubSeqAt
  <2>3. j + Len(c) = Len(s)
    BY <1>1, <1>8 DEF lc
  <2>4. QED
    BY <2>2, <2>3
<1>13. IsSplit(s, i, j, x, a, b, c)
  BY <1>7, <1>8, <1>9, <1>10, <1>11, <1>12 DEF IsSplit
<1>14. QED
  BY <1>6, <1>8, <1>13

-----------------------------------------------------------------------------
\* The parser accepts a text only as the version whose printed form it is,
THEOREM AcceptedIsPrinted ==
  ASSUME NEW s \in Seq(Character), NEW o \in FromString(s), o.result = "ok"
  PROVE  o.value \in Version /\ VersionText(o.value) = s
<1>1. PICK i, j \in 1..Len(s) :
         /\ i < j /\ s[i] = Dot /\ s[j] = Dot
         /\ \A k \in 1..Len(s) : k # i /\ k # j => s[k] # Dot
  BY NoTwoDots
<1> DEFINE a == SubSeq(s, 1, i - 1)
           b == SubSeq(s, i + 1, j - 1)
           c == SubSeq(s, j + 1, Len(s))
           part == Parts(s, i, j)
<1>2. /\ s = a \o <<s[i]>> \o b \o <<s[j]>> \o c
      /\ a \in Seq(Character) /\ b \in Seq(Character) /\ c \in Seq(Character)
  BY <1>1, Reassembled
<1>3. FromString(s) = Outcomes(part)
  BY <1>1, SplitAtDots
<1>4. part = <<ParseComponent(a), ParseComponent(b), ParseComponent(c)>>
  BY DEF Parts
<1> HIDE DEF a, b, c, part
<1>5. /\ part[1].result = "ok" /\ part[2].result = "ok" /\ part[3].result = "ok"
      /\ o = Parsed(<<part[1].value, part[2].value, part[3].value>>)
  <2> DEFINE thrown == {part[k] : k \in {l \in 1..3 : part[l].result # "ok"}}
  <2>1. \A t \in thrown : t.result # "ok"
    OBVIOUS
  <2>2. o \in IF thrown # {} THEN thrown
              ELSE {Parsed(<<part[1].value, part[2].value, part[3].value>>)}
    BY <1>3 DEF Outcomes
  <2>3. thrown = {}
    <3> HIDE DEF thrown
    <3>1. QED
      BY <2>1, <2>2
  <2>4. \A l \in 1..3 : part[l].result = "ok"
    BY <2>3
  <2>5. o = Parsed(<<part[1].value, part[2].value, part[3].value>>)
    <3> HIDE DEF thrown
    <3>1. QED
      BY <2>2, <2>3
  <2>6. 1 \in 1..3 /\ 2 \in 1..3 /\ 3 \in 1..3
    OBVIOUS
  <2> HIDE DEF thrown
  <2>7. QED
    BY <2>4, <2>5, <2>6
<1>6. PICK x \in Component : ParseComponent(a) = Parsed(x) /\ a = Decimal(x)
  <2>1. ParseComponent(a).result = "ok"
    BY <1>4, <1>5
  <2>2. QED
    BY <1>2, <2>1, AcceptedComponent
<1>7. PICK y \in Component : ParseComponent(b) = Parsed(y) /\ b = Decimal(y)
  <2>1. ParseComponent(b).result = "ok"
    BY <1>4, <1>5
  <2>2. QED
    BY <1>2, <2>1, AcceptedComponent
<1>8. PICK z \in Component : ParseComponent(c) = Parsed(z) /\ c = Decimal(z)
  <2>1. ParseComponent(c).result = "ok"
    BY <1>4, <1>5
  <2>2. QED
    BY <1>2, <2>1, AcceptedComponent
<1>9. \A v : Parsed(v).value = v
  BY DEF Parsed
<1>10. o.value = <<x, y, z>>
  <2>1. part[1].value = x /\ part[2].value = y /\ part[3].value = z
    BY <1>4, <1>6, <1>7, <1>8, <1>9
  <2>2. QED
    BY <1>5, <1>9, <2>1
<1>11. o.value \in Version
  BY <1>10 DEF Version
<1>12. VersionText(<<x, y, z>>) = a \o <<Dot>> \o b \o <<Dot>> \o c
  BY <1>6, <1>7, <1>8 DEF VersionText
<1>13. QED
  BY <1>1, <1>2, <1>10, <1>11, <1>12

\* Three printed numbers are taken apart again.
LEMMA PrintedIsSplit ==
  ASSUME NEW x \in Nat, NEW y \in Nat, NEW z \in Nat
  PROVE  /\ VersionText(<<x, y, z>>) \in Seq(Character)
         /\ FromString(VersionText(<<x, y, z>>)) =
              Outcomes(<<ParseComponent(Decimal(x)), ParseComponent(Decimal(y)), ParseComponent(Decimal(z))>>)
<1> DEFINE a == Decimal(x)
           b == Decimal(y)
           c == Decimal(z)
           s == VersionText(<<x, y, z>>)
<1>1. a \in Seq(Digit) /\ b \in Seq(Digit) /\ c \in Seq(Digit)
  BY DecimalType DEF Digit
<1>2. s = a \o <<Dot>> \o b \o <<Dot>> \o c
  BY DEF VersionText
<1> HIDE DEF a, b, c, s
<1>3. a \in Seq(Character) /\ b \in Seq(Character) /\ c \in Seq(Character) /\ Dot \in Character
  <2>1. Digit \subseteq Character /\ Dot \in Character
    BY DEF Digit, Character, Dot
  <2>2. QED
    BY <1>1, <2>1, SeqMonotonic
<1>4. /\ s \in Seq(Character)
      /\ \E i, j \in 1..Len(s) : IsSplit(s, i, j, Dot, a, b, c)
  BY <1>2, <1>3, ThreeParts
<1>5. PICK i, j \in 1..Len(s) :
           /\ i < j /\ s[i] = Dot /\ s[j] = Dot
           /\ \A k \in 1..Len(s) : k # i /\ k # j =>
                \/ \E l \in 1..Len(a) : s[k] = a[l]
                \/ \E l \in 1..Len(b) : s[k] = b[l]
                \/ \E l \in 1..Len(c) : s[k] = c[l]
           /\ SubSeq(s, 1, i - 1) = a /\ SubSeq(s, i + 1, j - 1) = b
           /\ SubSeq(s, j + 1, Len(s)) = c
  BY <1>4 DEF IsSplit
<1>6. \A k \in 1..Len(s) : k # i /\ k # j => s[k] # Dot
  <2>1. /\ \A l \in 1..Len(a) : a[l] \in Digit
        /\ \A l \in 1..Len(b) : b[l] \in Digit
        /\ \A l \in 1..Len(c) : c[l] \in Digit
    BY <1>1, ElementOfSeq
  <2>2. Dot \notin Digit
    BY DEF Dot, Digit
  <2>3. QED
    BY <1>5, <2>1, <2>2
<1>7. FromString(s) = Outcomes(Parts(s, i, j))
  BY <1>4, <1>5, <1>6, SplitAtDots
<1>8. Parts(s, i, j) = <<ParseComponent(a), ParseComponent(b), ParseComponent(c)>>
  BY <1>5 DEF Parts
<1>9. QED
  BY <1>4, <1>7, <1>8 DEF a, b, c, s

\* and accepts the printed form of every version.
THEOREM PrintedIsAccepted ==
  ASSUME NEW v \in Version
  PROVE  /\ VersionText(v) \in Seq(Character)
         /\ FromString(VersionText(v)) = {Parsed(v)}
<1>1. PICK x \in Component, y \in Component, z \in Component : v = <<x, y, z>>
  BY DEF Version
<1>2. x \in Nat /\ y \in Nat /\ z \in Nat
  BY MaxComponentAssumption DEF Component
<1> DEFINE part == <<Parsed(x), Parsed(y), Parsed(z)>>
           thrown == {part[k] : k \in {l \in 1..3 : part[l].result # "ok"}}
<1>3. FromString(VersionText(v)) = Outcomes(part) /\ VersionText(v) \in Seq(Character)
  <2>1. /\ ParseComponent(Decimal(x)) = Parsed(x) /\ ParseComponent(Decimal(y)) = Parsed(y)
        /\ ParseComponent(Decimal(z)) = Parsed(z)
    BY PrintedComponent
  <2>2. QED
    BY <1>1, <1>2, <2>1, PrintedIsSplit
<1>4. \A w : Parsed(w).result = "ok" /\ Parsed(w).value = w
  BY DEF Parsed
<1>5. part[1] = Parsed(x) /\ part[2] = Parsed(y) /\ part[3] = Parsed(z)
  OBVIOUS
<1>6. Outcomes(part) = IF thrown # {} THEN thrown
                       ELSE {Parsed(<<part[1].value, part[2].value, part[3].value>>)}
  BY DEF Outcomes
<1> HIDE DEF part
<1>7. \A l \in 1..3 : part[l].result = "ok"
  <2>1. \A l \in 1..3 : l = 1 \/ l = 2 \/ l = 3
    OBVIOUS
  <2>2. QED
    BY <1>4, <1>5, <2>1
<1>8. thrown = {}
  BY <1>7
<1> HIDE DEF thrown
<1>9. Outcomes(part) = {Parsed(<<x, y, z>>)}
  BY <1>4, <1>5, <1>6, <1>8
<1>10. QED
  BY <1>1, <1>3, <1>9

\* What is one past the limit or more is out of range.
LEMMA PrintedTooLarge ==
  ASSUME NEW v \in Nat, v > MaxComponent
  PROVE  ParseComponent(Decimal(v)) = OutOfRange
<1> DEFINE s == Decimal(v)
<1>1. Reads(s, v)
  BY PrintedIsAccumulated
<1> HIDE DEF s
<1>2. s \in Seq(Character) /\ \A i \in 1..Len(s) : s[i] \in Digit
  <2>1. 0..9 \subseteq Character
    BY DEF Character
  <2>2. s \in Seq(0..9)
    BY <1>1 DEF Reads
  <2>3. QED
    BY <2>1, <2>2, SeqMonotonic, ElementOfSeq DEF Digit
<1>3. Len(s) \in 1..Len(s)
  BY <1>1, EmptySeq DEF Reads
<1>4. Stop(s, Len(s))
  BY <1>1 DEF Reads, Stop
<1>5. \E i \in 1..Len(s) :
         /\ Stop(s, i)
         /\ ParseComponent(s) = IF s[i] \notin Digit THEN Invalid ELSE OutOfRange
  <2>1. s # <<>> /\ (s[1] = 0 => Len(s) = 1)
    BY <1>1 DEF Reads
  <2>2. QED
    BY <1>2, <1>3, <1>4, <2>1, LoopStops
<1>6. ParseComponent(s) = OutOfRange
  BY <1>2, <1>5
<1>7. QED
  BY <1>6 DEF s

\* and so is a version whose major number is.
LEMMA MajorTooLarge ==
  ASSUME NEW x \in Nat, x > MaxComponent, NEW y \in Component, NEW z \in Component
  PROVE  FromString(VersionText(<<x, y, z>>)) = {OutOfRange}
<1> DEFINE part == <<OutOfRange, Parsed(y), Parsed(z)>>
           thrown == {part[k] : k \in {l \in 1..3 : part[l].result # "ok"}}
<1>1. FromString(VersionText(<<x, y, z>>)) = Outcomes(part)
  <2>1. y \in Nat /\ z \in Nat
    BY MaxComponentAssumption DEF Component
  <2>2. /\ ParseComponent(Decimal(x)) = OutOfRange /\ ParseComponent(Decimal(y)) = Parsed(y)
        /\ ParseComponent(Decimal(z)) = Parsed(z)
    BY PrintedComponent, PrintedTooLarge
  <2>3. QED
    BY <2>1, <2>2, PrintedIsSplit
<1>2. part[1] = OutOfRange /\ part[2] = Parsed(y) /\ part[3] = Parsed(z)
  OBVIOUS
<1>3. OutOfRange.result # "ok" /\ \A w : Parsed(w).result = "ok"
  BY DEF OutOfRange, Parsed
<1>4. Outcomes(part) = IF thrown # {} THEN thrown
                       ELSE {Parsed(<<part[1].value, part[2].value, part[3].value>>)}
  BY DEF Outcomes
<1> HIDE DEF part
<1>5. {l \in 1..3 : part[l].result # "ok"} = {1}
  <2>1. \A l \in 1..3 : l = 1 \/ l = 2 \/ l = 3
    OBVIOUS
  <2>2. part[1].result # "ok" /\ part[2].result = "ok" /\ part[3].result = "ok" /\ 1 \in 1..3
    BY <1>2, <1>3
  <2>3. QED
    BY <2>1, <2>2
<1>6. thrown = {OutOfRange}
  BY <1>2, <1>5
<1> HIDE DEF thrown
<1>7. QED
  BY <1>1, <1>4, <1>6

\* A text in the grammar is never called malformed.
LEMMA GrammaticalText ==
  ASSUME NEW s \in Seq(Character), InGrammar(s)
  PROVE  Invalid \notin FromString(s)
<1>1. PICK i, j \in 1..Len(s) :
    /\ i < j /\ s[i] = Dot /\ s[j] = Dot
    /\ IsComponent(SubSeq(s, 1, i - 1))
    /\ IsComponent(SubSeq(s, i + 1, j - 1))
    /\ IsComponent(SubSeq(s, j + 1, Len(s)))
  BY DEF InGrammar
<1> DEFINE a == SubSeq(s, 1, i - 1)
           b == SubSeq(s, i + 1, j - 1)
           c == SubSeq(s, j + 1, Len(s))
           part == Parts(s, i, j)
<1>2. /\ s = a \o <<s[i]>> \o b \o <<s[j]>> \o c
      /\ a \in Seq(Character) /\ b \in Seq(Character) /\ c \in Seq(Character)
  BY <1>1, Reassembled
<1>3. part = <<ParseComponent(a), ParseComponent(b), ParseComponent(c)>>
  BY DEF Parts
<1>4. IsComponent(a) /\ IsComponent(b) /\ IsComponent(c)
  BY <1>1
<1>5. \A k \in 1..Len(s) : k # i /\ k # j => s[k] # Dot
  <2>1. SUFFICES ASSUME NEW k \in 1..Len(s), k # i, k # j PROVE s[k] # Dot
    OBVIOUS
  <2>2. /\ \A l \in 1..Len(a) : a[l] \in Digit
        /\ \A l \in 1..Len(b) : b[l] \in Digit
        /\ \A l \in 1..Len(c) : c[l] \in Digit
    BY <1>4 DEF IsComponent
  <2>3. Dot \notin Digit
    BY DEF Dot, Digit
  <2>4. Len(s) \in Nat /\ i \in Nat /\ j \in Nat /\ k \in Nat /\ \A l \in 1..Len(s) : s[l] \in Character
    BY LenProperties, ElementOfSeq
  <2>5. CASE k < i
    <3>1. /\ Len(a) = IF 1 <= i - 1 THEN (i - 1) - 1 + 1 ELSE 0
          /\ \A l \in 1..((i - 1) - 1 + 1) : a[l] = s[1 + l - 1]
      BY <2>4, SubSeqProperties
    <3> HIDE DEF a
    <3>2. k \in 1..((i - 1) - 1 + 1) /\ 1 + k - 1 = k /\ k \in 1..Len(a)
      BY <2>4, <2>5, <3>1
    <3>3. QED
      BY <2>2, <2>3, <3>1, <3>2
  <2>6. CASE i < k /\ k < j
    <3>1. /\ Len(b) = IF i + 1 <= j - 1 THEN (j - 1) - (i + 1) + 1 ELSE 0
          /\ \A l \in 1..((j - 1) - (i + 1) + 1) : b[l] = s[i + 1 + l - 1]
      BY <2>4, SubSeqProperties
    <3> HIDE DEF b
    <3>2. /\ k - i \in 1..((j - 1) - (i + 1) + 1) /\ i + 1 + (k - i) - 1 = k
          /\ k - i \in 1..Len(b)
      BY <2>4, <2>6, <3>1
    <3>3. QED
      BY <2>2, <2>3, <3>1, <3>2
  <2>7. CASE j < k
    <3>1. /\ Len(c) = IF j + 1 <= Len(s) THEN Len(s) - (j + 1) + 1 ELSE 0
          /\ \A l \in 1..(Len(s) - (j + 1) + 1) : c[l] = s[j + 1 + l - 1]
      BY <2>4, SubSeqProperties
    <3> HIDE DEF c
    <3>2. /\ k - j \in 1..(Len(s) - (j + 1) + 1) /\ j + 1 + (k - j) - 1 = k
          /\ k - j \in 1..Len(c)
      BY <2>4, <2>7, <3>1
    <3>3. QED
      BY <2>2, <2>3, <3>1, <3>2
  <2>8. k < i \/ (i < k /\ k < j) \/ j < k
    BY <2>1, <2>4
  <2>9. QED
    BY <2>5, <2>6, <2>7, <2>8
<1>6. FromString(s) = Outcomes(part)
  BY <1>1, <1>5, SplitAtDots
<1>7. ParseComponent(a) # Invalid /\ ParseComponent(b) # Invalid /\ ParseComponent(c) # Invalid
  BY <1>2, <1>4, GrammaticalComponent
<1> HIDE DEF a, b, c, part
<1>8. \A k \in 1..3 : part[k] # Invalid
  <2>1. part[1] # Invalid /\ part[2] # Invalid /\ part[3] # Invalid
    BY <1>3, <1>7
  <2>2. \A l \in 1..3 : l = 1 \/ l = 2 \/ l = 3
    OBVIOUS
  <2>3. QED
    BY <2>1, <2>2
<1>9. \A w : Parsed(w) # Invalid
  <2>1. Invalid.result = "invalid_argument" /\ \A w : Parsed(w).result = "ok"
    BY DEF Parsed, Invalid
  <2>2. QED
    BY <2>1
<1> DEFINE thrown == {part[k] : k \in {l \in 1..3 : part[l].result # "ok"}}
<1>10. FromString(s) = IF thrown # {} THEN thrown
                       ELSE {Parsed(<<part[1].value, part[2].value, part[3].value>>)}
  BY <1>6 DEF Outcomes
<1>11. Invalid \notin thrown
  BY <1>8
<1> HIDE DEF thrown
<1>12. QED
  BY <1>9, <1>10, <1>11

-----------------------------------------------------------------------------
IsText == text \in Seq(Character)

LEMMA Exactness ==
  ASSUME IsText
  PROVE  VersionTextsAreExact
<1>1. AcceptsExactlyPrintedVersions
  <2>1. SUFFICES ASSUME NEW o \in FromString(text)
                 PROVE  /\ o.result = "ok" => o.value \in Version /\ VersionText(o.value) = text
                        /\ o.result # "ok" => text \notin PrintedVersions
    BY DEF AcceptsExactlyPrintedVersions
  <2>2. ASSUME NEW v \in Version, text = VersionText(v) PROVE o.result = "ok"
    <3>1. o = Parsed(v)
      BY <2>2, PrintedIsAccepted
    <3>2. QED
      BY <3>1 DEF Parsed
  <2>3. QED
    BY <2>2, AcceptedIsPrinted DEF PrintedVersions, IsText
<1>2. OverflowIsNotMalformed
  BY GrammaticalText DEF OverflowIsNotMalformed, IsText
<1>3. QED
  BY <1>1, <1>2 DEF VersionTextsAreExact

\* Whatever text is put to the parser, over any of its characters and of any
\* length, it is accepted exactly if it prints a version, as that version, and
\* never called malformed for its size (SchemaVersion::from_string, to_string).
THEOREM VersionTextsAreExactHolds == TextSpec => []VersionTextsAreExact
<1>1. TextInit => IsText
  BY DEF TextInit, IsText
<1>2. IsText /\ [TextNext]_text => IsText'
  <2>1. SUFFICES ASSUME IsText, [TextNext]_text PROVE IsText'
    OBVIOUS
  <2>2. CASE UNCHANGED text
    BY <2>1, <2>2 DEF IsText
  <2>3. ASSUME NEW c \in Alphabet, Extend(c) PROVE IsText'
    <3>1. c \in Character
      BY AlphabetAssumption DEF Character, Digit, Dot, Other
    <3>2. QED
      BY <2>1, <2>3, <3>1, AppendProperties DEF Extend, IsText
  <2>4. QED
    BY <2>1, <2>2, <2>3 DEF TextNext
<1>3. IsText => VersionTextsAreExact
  BY Exactness
<1>4. QED
  BY <1>1, <1>2, <1>3, PTL DEF TextSpec

-----------------------------------------------------------------------------
(***************************************************************************)
(* Part 2: the registry.                                                   *)
(***************************************************************************)
\* What std::sort returns has the length and the elements of what it is given.
LEMMA EntriesSorted ==
  ASSUME NEW S, NEW s \in Seq(S), NEW t \in SortedArrangements(s, EntryLess)
  PROVE  t \in Seq(S) /\ Len(t) = Len(s)
  <1>1. PICK p \in [DOMAIN s -> DOMAIN s] : t = [i \in DOMAIN s |-> s[p[i]]]
    BY DEF SortedArrangements
  <1>2. DOMAIN s = 1..Len(s) /\ Len(s) \in Nat
    BY LenProperties
  <1>3. \A i \in 1..Len(s) : s[p[i]] \in S
    BY <1>2, ElementOfSeq
  <1>4. t \in [1..Len(s) -> S]
    BY <1>1, <1>2, <1>3
  <1>5. QED
    BY <1>2, <1>4, SeqDef, LenProperties

LEMMA RulesSorted ==
  ASSUME NEW S, NEW s \in Seq(S), NEW t \in SortedArrangements(s, RuleLess)
  PROVE  t \in Seq(S) /\ Len(t) = Len(s)
  <1>1. PICK p \in [DOMAIN s -> DOMAIN s] : t = [i \in DOMAIN s |-> s[p[i]]]
    BY DEF SortedArrangements
  <1>2. DOMAIN s = 1..Len(s) /\ Len(s) \in Nat
    BY LenProperties
  <1>3. \A i \in 1..Len(s) : s[p[i]] \in S
    BY <1>2, ElementOfSeq
  <1>4. t \in [1..Len(s) -> S]
    BY <1>1, <1>2, <1>3
  <1>5. QED
    BY <1>2, <1>4, SeqDef, LenProperties

LEMMA PoolSequences ==
  ASSUME TypeOK
  PROVE  entries \in Seq(Entry) /\ rules \in Seq(Rule)
  BY PoolsAssumption, SeqMonotonic DEF TypeOK

\* The builder's lists stay within their pools and the catalog last built is
\* a catalog, for all entries and rules (SchemaCatalogBuilder).
THEOREM TypeCorrect == Spec => []TypeOK
<1>1. Init => TypeOK
  <2>1. \A S : <<>> \in Seq(S)
    BY EmptySeq
  <2>2. Len(<<>>) = 0
    BY EmptySeq
  <2>3. QED
    BY <2>1, <2>2, PoolsAssumption DEF Init, TypeOK, Catalog
<1>2. TypeOK /\ [Next]_vars => TypeOK'
  <2> SUFFICES ASSUME TypeOK, [Next]_vars PROVE TypeOK'
    OBVIOUS
  <2>1. ASSUME NEW e \in Entries, AddEntry(e) PROVE TypeOK'
    <3>1. entries' \in Seq(Entries) /\ Len(entries') = Len(entries) + 1
      BY <2>1, AppendProperties DEF AddEntry, TypeOK
    <3>2. Len(entries) \in Nat /\ Len(entries) < MaxEntries
      BY <2>1, LenProperties DEF AddEntry, TypeOK
    <3>3. QED
      BY <2>1, <3>1, <3>2, PoolsAssumption DEF AddEntry, TypeOK
  <2>2. ASSUME NEW r \in Rules, AddRule(r) PROVE TypeOK'
    <3>1. rules' \in Seq(Rules) /\ Len(rules') = Len(rules) + 1
      BY <2>2, AppendProperties DEF AddRule, TypeOK
    <3>2. Len(rules) \in Nat /\ Len(rules) < MaxRules
      BY <2>2, LenProperties DEF AddRule, TypeOK
    <3>3. QED
      BY <2>2, <3>1, <3>2, PoolsAssumption DEF AddRule, TypeOK
  <2>3. CASE BuildCatalog
    <3>1. PICK es \in SortedArrangements(entries, EntryLess),
               rs \in SortedArrangements(rules, RuleLess) :
             built' = [entries |-> es, rules |-> rs]
      BY <2>3 DEF BuildCatalog, Build
    <3>2. es \in Seq(Entry) /\ rs \in Seq(Rule)
      BY PoolSequences, EntriesSorted, RulesSorted
    <3>3. built' \in Catalog
      BY <3>1, <3>2 DEF Catalog
    <3>4. QED
      BY <2>3, <3>3 DEF BuildCatalog, TypeOK
  <2>4. CASE UNCHANGED vars
    BY <2>4 DEF vars, TypeOK
  <2>5. QED
    BY <2>1, <2>2, <2>3, <2>4 DEF Next
<1>3. QED
  BY <1>1, <1>2, PTL DEF Spec

-----------------------------------------------------------------------------
\* What structural validation leaves of the entries: documentId repeats id and
\* version (validate_catalog).
LEMMA ValidEntries ==
  ASSUME NEW c \in Catalog, Valid(c), NEW i \in DOMAIN c.entries
  PROVE  /\ c.entries[i] \in Entry
         /\ c.entries[i].doc = [id |-> c.entries[i].id, ver |-> c.entries[i].ver]
  <1>1. c.entries[i] \in Entry
    BY ElementOfSeq, LenProperties DEF Catalog
  <1>2. EntryDiagnostics(c.entries) = {}
    BY DEF Valid, ValidateCatalog
  <1>3. Diagnostic("document-id-schema-id-mismatch", i) \notin EntryDiagnostics(c.entries)
    BY <1>2
  <1>4. Diagnostic("document-id-version-mismatch", i) \notin EntryDiagnostics(c.entries)
    BY <1>2
  <1>5. c.entries[i].doc.id = c.entries[i].id
    BY <1>3 DEF EntryDiagnostics
  <1>6. c.entries[i].doc.ver = c.entries[i].ver
    BY <1>4 DEF EntryDiagnostics
  <1>7. QED
    BY <1>1, <1>5, <1>6 DEF Entry, DocumentId

\* And of the rules: within one family, between registered documents.
LEMMA ValidRules ==
  ASSUME NEW c \in Catalog, Valid(c), NEW i \in DOMAIN c.rules
  PROVE  /\ c.rules[i] \in Rule
         /\ c.rules[i].from.id = c.rules[i].to.id
         /\ c.rules[i].from \in Registered(c.entries)
         /\ c.rules[i].to \in Registered(c.entries)
  <1>1. c.rules[i] \in Rule
    BY ElementOfSeq, LenProperties DEF Catalog
  <1>2. RuleDiagnostics(c.entries, c.rules) = {}
    BY DEF Valid, ValidateCatalog
  <1>3. Diagnostic("cross-schema-edge", i) \notin RuleDiagnostics(c.entries, c.rules)
    BY <1>2
  <1>4. Diagnostic("rule-target-unknown", i) \notin RuleDiagnostics(c.entries, c.rules)
    BY <1>2
  <1>5. c.rules[i].from.id = c.rules[i].to.id
    BY <1>3 DEF RuleDiagnostics
  <1>6. {c.rules[i].from, c.rules[i].to} \subseteq Registered(c.entries)
    BY <1>4 DEF RuleDiagnostics
  <1>7. QED
    BY <1>1, <1>5, <1>6

\* Two rules for one direction have one kind.
LEMMA ValidKinds ==
  ASSUME NEW c \in Catalog, Valid(c), NEW i \in DOMAIN c.rules, NEW j \in DOMAIN c.rules,
         c.rules[i].from = c.rules[j].from, c.rules[i].to = c.rules[j].to
  PROVE  c.rules[i].kind = c.rules[j].kind
  <1>1. RuleDiagnostics(c.entries, c.rules) = {}
    BY DEF Valid, ValidateCatalog
  <1>2. ASSUME NEW p \in Pairs(c.rules),
               c.rules[p[1]].from = c.rules[p[2]].from, c.rules[p[1]].to = c.rules[p[2]].to
        PROVE  c.rules[p[1]].kind = c.rules[p[2]].kind
    <2>1. Diagnostic("conflicting-rule", p) \notin RuleDiagnostics(c.entries, c.rules)
      BY <1>1
    <2>2. QED
      BY <1>2, <2>1 DEF RuleDiagnostics
  <1>3. i \in Nat /\ j \in Nat
    BY LenProperties DEF Catalog
  <1>4. CASE i < j
    <2>1. <<i, j>> \in Pairs(c.rules)
      BY <1>4 DEF Pairs
    <2>2. QED
      BY <1>2, <2>1
  <1>5. CASE j < i
    <2>1. <<j, i>> \in Pairs(c.rules)
      BY <1>5 DEF Pairs
    <2>2. QED
      BY <1>2, <2>1
  <1>6. QED
    BY <1>3, <1>4, <1>5

\* A registered document of a valid catalog is found by lookup_schema, and what
\* is found is that document.
LEMMA RegisteredIsFound ==
  ASSUME NEW c \in Catalog, Valid(c), NEW d \in Registered(c.entries)
  PROVE  /\ LookupSchema(c.entries, d.id, d.ver).found
         /\ LookupSchema(c.entries, d.id, d.ver).entry.doc = d
  <1> DEFINE es == c.entries
             matches == {i \in DOMAIN es : es[i].id = d.id /\ es[i].ver = d.ver}
             first == CHOOSE i \in matches : \A j \in matches : i <= j
  <1>1. PICK k \in DOMAIN es : es[k].doc = d
    BY DEF Registered
  <1>2. es[k].doc = [id |-> es[k].id, ver |-> es[k].ver]
    BY ValidEntries
  <1>3. d = [id |-> es[k].id, ver |-> es[k].ver] /\ k \in matches
    BY <1>1, <1>2
  <1>4. matches \in SUBSET Nat
    BY LenProperties DEF Catalog
  <1>5. \E i \in matches : \A j \in matches : i <= j
    BY <1>3, <1>4, FirstExists
  <1>6. first \in matches
    BY <1>5
  <1>7. es[first].doc = d
    <2>1. es[first].doc = [id |-> es[first].id, ver |-> es[first].ver]
      BY <1>6, ValidEntries
    <2>2. es[first].id = es[k].id /\ es[first].ver = es[k].ver
      BY <1>3, <1>6
    <2>3. QED
      BY <1>3, <2>1, <2>2
  <1>8. LookupSchema(es, d.id, d.ver) = Found(es[first])
    BY <1>3 DEF LookupSchema
  <1>9. QED
    BY <1>7, <1>8 DEF Found

\* The two registries of a valid catalog agree: no accepted rule leads to a
\* document that lookup_schema does not find (validate_catalog, lookup_schema).
THEOREM RuleEndpointsResolveHolds == Spec => []RuleEndpointsResolve
<1>1. TypeOK => RuleEndpointsResolve
  <2> SUFFICES ASSUME TypeOK, Valid(built), NEW i \in DOMAIN built.rules,
                      NEW d \in {built.rules[i].from, built.rules[i].to}
               PROVE  /\ LookupSchema(built.entries, d.id, d.ver).found
                      /\ LookupSchema(built.entries, d.id, d.ver).entry.doc = d
    BY DEF RuleEndpointsResolve
  <2>1. built \in Catalog
    BY DEF TypeOK
  <2>2. d \in Registered(built.entries)
    BY <2>1, ValidRules
  <2>3. QED
    BY <2>1, <2>2, RegisteredIsFound
<1>2. QED
  BY <1>1, TypeCorrect, PTL

\* What schema_compatibility answers behind its gates: the kind of a rule that
\* declares the direction.
LEMMA CompatibilityByRule ==
  ASSUME NEW c \in Catalog, Valid(c), NEW id, NEW from, NEW to, from # to,
         LookupSchema(c.entries, id, from).found, LookupSchema(c.entries, id, to).found,
         NEW i \in DOMAIN c.rules,
         c.rules[i].from = [id |-> id, ver |-> from], c.rules[i].to = [id |-> id, ver |-> to]
  PROVE  \E k \in DOMAIN c.rules :
           /\ c.rules[k].from = c.rules[i].from /\ c.rules[k].to = c.rules[i].to
           /\ SchemaCompatibility(c, id, from, to) =
                IF c.rules[k].kind = "readable" THEN Answer("readable", {})
                ELSE Answer("requires-migration", {})
  <1> DEFINE matches == {k \in DOMAIN c.rules :
                           /\ c.rules[k].from = [id |-> id, ver |-> from]
                           /\ c.rules[k].to   = [id |-> id, ver |-> to]}
             first == CHOOSE k \in matches : \A j \in matches : k <= j
  <1>1. i \in matches
    OBVIOUS
  <1>2. matches \in SUBSET Nat
    BY LenProperties DEF Catalog
  <1>3. \E k \in matches : \A j \in matches : k <= j
    BY <1>1, <1>2, FirstExists
  <1>4. first \in matches
    BY <1>3
  <1>5. SchemaCompatibility(c, id, from, to) =
          IF c.rules[first].kind = "readable" THEN Answer("readable", {})
          ELSE Answer("requires-migration", {})
    BY <1>1, Zenon DEF SchemaCompatibility
  <1>6. c.rules[first].from = c.rules[i].from /\ c.rules[first].to = c.rules[i].to
    BY <1>4
  <1>7. first \in DOMAIN c.rules
    BY <1>4
  <1> HIDE DEF first
  <1>8. QED
    BY <1>5, <1>6, <1>7

\* schema_compatibility honours every rule of a valid catalog with the rule's
\* own kind, whichever rule its loop meets first.
THEOREM DeclaredKindIsAnsweredHolds == Spec => []DeclaredKindIsAnswered
<1>1. ASSUME NEW c \in Catalog, Valid(c), NEW i \in DOMAIN c.rules,
             c.rules[i].from # c.rules[i].to
      PROVE  SchemaCompatibility(c, c.rules[i].from.id, c.rules[i].from.ver,
                                 c.rules[i].to.ver).value
               = IF c.rules[i].kind = "readable" THEN "readable" ELSE "requires-migration"
  <2> DEFINE r == c.rules[i]
             id == r.from.id
             from == r.from.ver
             to == r.to.ver
  <2>1. /\ r \in Rule /\ r.from.id = r.to.id
        /\ r.from \in Registered(c.entries) /\ r.to \in Registered(c.entries)
    BY <1>1, ValidRules
  <2>2. r.from = [id |-> id, ver |-> from] /\ r.to = [id |-> id, ver |-> to]
    BY <2>1 DEF Rule, DocumentId
  <2>3. from # to
    BY <1>1, <2>2
  <2>4. LookupSchema(c.entries, id, from).found
    BY <1>1, <2>1, RegisteredIsFound
  <2>5. LookupSchema(c.entries, id, to).found
    <3>1. LookupSchema(c.entries, r.to.id, r.to.ver).found
      BY <1>1, <2>1, RegisteredIsFound
    <3>2. QED
      BY <2>1, <3>1
  <2>6. PICK k \in DOMAIN c.rules :
          /\ c.rules[k].from = r.from /\ c.rules[k].to = r.to
          /\ SchemaCompatibility(c, id, from, to) =
               IF c.rules[k].kind = "readable" THEN Answer("readable", {})
               ELSE Answer("requires-migration", {})
    <3> HIDE DEF id, from, to
    <3>1. QED
      BY <1>1, <2>2, <2>3, <2>4, <2>5, CompatibilityByRule
  <2>7. c.rules[k].kind = r.kind
    BY <1>1, <2>6, ValidKinds
  <2>8. QED
    <3> HIDE DEF id, from, to
    <3>1. SchemaCompatibility(c, id, from, to).value
            = IF r.kind = "readable" THEN "readable" ELSE "requires-migration"
      BY <2>6, <2>7 DEF Answer
    <3>2. QED
      BY <3>1 DEF id, from, to
<1>2. TypeOK => DeclaredKindIsAnswered
  BY <1>1 DEF TypeOK, DeclaredKindIsAnswered
<1>3. QED
  BY <1>2, TypeCorrect, PTL

-----------------------------------------------------------------------------
(***************************************************************************)
(* Nothing depends on how std::sort leaves equal elements.                 *)
(***************************************************************************)
\* u has the elements of t, each as often as t: different positions of t have
\* different positions in u.
Rearranges(t, u) ==
  /\ DOMAIN u = DOMAIN t
  /\ \A i \in DOMAIN t : \E k \in DOMAIN u : u[k] = t[i]
  /\ \A i, j \in DOMAIN t : i # j =>
       \E k, l \in DOMAIN u : k # l /\ u[k] = t[i] /\ u[l] = t[j]

\* An injective function from a finite set to itself reaches every element.
LEMMA PermutationsReachAll ==
  ASSUME NEW n \in Nat, NEW p \in [1..n -> 1..n],
         \A i, j \in 1..n : i # j => p[i] # p[j]
  PROVE  \A k \in 1..n : \E i \in 1..n : p[i] = k
<1>1. p \in Injection(1..n, 1..n)
  BY DEF Injection, IsInjective
<1>2. IsFiniteSet(1..n)
  BY FS_Interval
<1>3. p \in Surjection(1..n, 1..n)
  BY <1>1, <1>2, FS_Injection
<1>4. QED
  BY <1>3 DEF Surjection

\* t is the sequence s of length n with its positions permuted by p.
Arranges(n, s, p, t) ==
  /\ p \in [1..n -> 1..n]
  /\ \A i, j \in 1..n : i # j => p[i] # p[j]
  /\ DOMAIN t = 1..n
  /\ \A i \in 1..n : t[i] = s[p[i]]

\* Two arrangements of one sequence rearrange each other.
LEMMA ArrangementsRearrange ==
  ASSUME NEW n \in Nat, NEW s, NEW t, NEW u, NEW p, NEW q,
         Arranges(n, s, p, t), Arranges(n, s, q, u)
  PROVE  Rearranges(t, u)
<1> USE DEF Arranges
<1>1. \A k \in 1..n : \E i \in 1..n : q[i] = k
  BY PermutationsReachAll
<1>2. \A i \in 1..n : p[i] \in 1..n
  OBVIOUS
<1>3. ASSUME NEW i \in DOMAIN t PROVE \E k \in DOMAIN u : u[k] = t[i]
  <2>1. PICK k \in 1..n : q[k] = p[i]
    BY <1>1, <1>2
  <2>2. u[k] = s[q[k]] /\ t[i] = s[p[i]]
    OBVIOUS
  <2>3. QED
    BY <2>1, <2>2
<1>4. ASSUME NEW i \in DOMAIN t, NEW j \in DOMAIN t, i # j
      PROVE  \E k, l \in DOMAIN u : k # l /\ u[k] = t[i] /\ u[l] = t[j]
  <2>1. PICK k \in 1..n : q[k] = p[i]
    BY <1>1, <1>2
  <2>2. PICK l \in 1..n : q[l] = p[j]
    BY <1>1, <1>2
  <2>3. k # l
    BY <1>4, <2>1, <2>2
  <2>4. u[k] = s[q[k]] /\ t[i] = s[p[i]] /\ u[l] = s[q[l]] /\ t[j] = s[p[j]]
    OBVIOUS
  <2>5. u[k] = t[i] /\ u[l] = t[j]
    BY <2>1, <2>2, <2>4
  <2>6. k \in DOMAIN u /\ l \in DOMAIN u
    OBVIOUS
  <2>7. QED
    BY <2>3, <2>5, <2>6, Zenon
<1>5. DOMAIN u = DOMAIN t
  OBVIOUS
<1>6. QED
  BY <1>3, <1>4, <1>5, Zenon DEF Rearranges

\* Any two catalogs std::sort may leave rearrange each other, and each is in
\* order.
LEMMA BuildsRearrange ==
  ASSUME TypeOK, NEW c \in Build(entries, rules), NEW d \in Build(entries, rules)
  PROVE  /\ c \in Catalog
         /\ Rearranges(c.entries, d.entries) /\ Rearranges(c.rules, d.rules)
         /\ DOMAIN c.entries = 1..Len(entries) /\ DOMAIN c.rules = 1..Len(rules)
         /\ c = [entries |-> [i \in 1..Len(entries) |-> c.entries[i]],
                 rules   |-> [i \in 1..Len(rules) |-> c.rules[i]]]
         /\ \A i, j \in 1..Len(entries) : i < j => ~EntryLess(c.entries[j], c.entries[i])
         /\ \A i, j \in 1..Len(rules) : i < j => ~RuleLess(c.rules[j], c.rules[i])
<1> DEFINE n == Len(entries)
           m == Len(rules)
<1>1. /\ n \in Nat /\ DOMAIN entries = 1..n /\ m \in Nat /\ DOMAIN rules = 1..m
  BY LenProperties DEF TypeOK
<1>2. ASSUME NEW b \in Build(entries, rules)
      PROVE  /\ \E p \in [1..n -> 1..n] :
                  /\ \A i, j \in 1..n : i # j => p[i] # p[j]
                  /\ b.entries = [i \in 1..n |-> entries[p[i]]]
                  /\ \A i, j \in 1..n : i < j => ~EntryLess(b.entries[j], b.entries[i])
             /\ \E p \in [1..m -> 1..m] :
                  /\ \A i, j \in 1..m : i # j => p[i] # p[j]
                  /\ b.rules = [i \in 1..m |-> rules[p[i]]]
                  /\ \A i, j \in 1..m : i < j => ~RuleLess(b.rules[j], b.rules[i])
             /\ b = [entries |-> b.entries, rules |-> b.rules]
             /\ b \in Catalog
  <2>1. /\ b.entries \in SortedArrangements(entries, EntryLess)
        /\ b.rules \in SortedArrangements(rules, RuleLess)
        /\ b = [entries |-> b.entries, rules |-> b.rules]
    BY DEF Build
  <2>2. b.entries \in Seq(Entry) /\ b.rules \in Seq(Rule)
    BY <2>1, PoolSequences, EntriesSorted, RulesSorted
  <2> HIDE DEF n, m
  <2>3. \E p \in [1..n -> 1..n] :
          /\ \A i, j \in 1..n : i # j => p[i] # p[j]
          /\ b.entries = [i \in 1..n |-> entries[p[i]]]
          /\ \A i, j \in 1..n : i < j => ~EntryLess(b.entries[j], b.entries[i])
    <3>1. PICK p \in [1..n -> 1..n] :
            /\ \A i, j \in 1..n : i # j => p[i] # p[j]
            /\ b.entries = [i \in 1..n |-> entries[p[i]]]
            /\ \A i, j \in 1..n : i < j => ~EntryLess(entries[p[j]], entries[p[i]])
      BY <1>1, <2>1 DEF SortedArrangements
    <3>2. \A i \in 1..n : b.entries[i] = entries[p[i]]
      BY <3>1
    <3>3. QED
      BY <3>1, <3>2
  <2>4. \E p \in [1..m -> 1..m] :
          /\ \A i, j \in 1..m : i # j => p[i] # p[j]
          /\ b.rules = [i \in 1..m |-> rules[p[i]]]
          /\ \A i, j \in 1..m : i < j => ~RuleLess(b.rules[j], b.rules[i])
    <3>1. PICK p \in [1..m -> 1..m] :
            /\ \A i, j \in 1..m : i # j => p[i] # p[j]
            /\ b.rules = [i \in 1..m |-> rules[p[i]]]
            /\ \A i, j \in 1..m : i < j => ~RuleLess(rules[p[j]], rules[p[i]])
      BY <1>1, <2>1 DEF SortedArrangements
    <3>2. \A i \in 1..m : b.rules[i] = rules[p[i]]
      BY <3>1
    <3>3. QED
      BY <3>1, <3>2
  <2>5. QED
    BY <2>1, <2>2, <2>3, <2>4 DEF Catalog
<1> HIDE DEF n, m
<1>3. ASSUME NEW b \in Build(entries, rules)
      PROVE  /\ \E p : Arranges(n, entries, p, b.entries)
             /\ \E p : Arranges(m, rules, p, b.rules)
             /\ DOMAIN b.entries = 1..n /\ b.entries = [i \in 1..n |-> b.entries[i]]
             /\ DOMAIN b.rules = 1..m /\ b.rules = [i \in 1..m |-> b.rules[i]]
  <2>1. PICK p \in [1..n -> 1..n] :
          /\ \A i, j \in 1..n : i # j => p[i] # p[j]
          /\ b.entries = [i \in 1..n |-> entries[p[i]]]
    BY <1>2
  <2>2. PICK q \in [1..m -> 1..m] :
          /\ \A i, j \in 1..m : i # j => q[i] # q[j]
          /\ b.rules = [i \in 1..m |-> rules[q[i]]]
    BY <1>2
  <2>3. Arranges(n, entries, p, b.entries)
    BY <2>1 DEF Arranges
  <2>4. Arranges(m, rules, q, b.rules)
    BY <2>2 DEF Arranges
  <2>5. /\ DOMAIN b.entries = 1..n /\ b.entries = [i \in 1..n |-> b.entries[i]]
        /\ DOMAIN b.rules = 1..m /\ b.rules = [i \in 1..m |-> b.rules[i]]
    BY <2>1, <2>2
  <2>6. QED
    BY <2>3, <2>4, <2>5
<1>4. Rearranges(c.entries, d.entries) /\ Rearranges(c.rules, d.rules)
  BY <1>1, <1>3, ArrangementsRearrange
<1>5. QED
  BY <1>2, <1>3, <1>4 DEF n, m

\* Whatever code one arrangement is given, the other is given as well: every
\* check is about one element or about a pair of them in either order.
LEMMA SameEntryCodes ==
  ASSUME NEW es, NEW fs, Rearranges(es, fs), DOMAIN es \subseteq Nat,
         NEW x \in UNION {DuplicateDiagnostics(es), EntryDiagnostics(es)}
  PROVE  \E y \in UNION {DuplicateDiagnostics(fs), EntryDiagnostics(fs)} : y.code = x.code
<1>1. ASSUME NEW p \in Pairs(es)
      PROVE  \E q \in Pairs(fs) : \/ fs[q[1]] = es[p[1]] /\ fs[q[2]] = es[p[2]]
                                  \/ fs[q[1]] = es[p[2]] /\ fs[q[2]] = es[p[1]]
  <2>1. p[1] \in DOMAIN es /\ p[2] \in DOMAIN es /\ p[1] # p[2]
    BY DEF Pairs
  <2>2. PICK k \in DOMAIN fs, l \in DOMAIN fs : k # l /\ fs[k] = es[p[1]] /\ fs[l] = es[p[2]]
    BY <2>1 DEF Rearranges
  <2>3. k \in Nat /\ l \in Nat
    BY DEF Rearranges
  <2>4. CASE k < l
    <3>1. <<k, l>> \in Pairs(fs)
      BY <2>4 DEF Pairs
    <3>2. QED
      BY <2>2, <3>1
  <2>5. CASE l < k
    <3>1. <<l, k>> \in Pairs(fs)
      BY <2>5 DEF Pairs
    <3>2. QED
      BY <2>2, <3>1
  <2>6. QED
    BY <2>2, <2>3, <2>4, <2>5
<1>2. \A i \in DOMAIN es : \E k \in DOMAIN fs : fs[k] = es[i]
  BY DEF Rearranges
<1>3. CASE x \in DuplicateDiagnostics(es)
  <2>1. PICK p \in Pairs(es) :
          \/ /\ x.code = "duplicate-schema-entry"
             /\ es[p[1]].id = es[p[2]].id /\ es[p[1]].ver = es[p[2]].ver
          \/ x.code = "duplicate-document-id" /\ es[p[1]].doc = es[p[2]].doc
          \/ x.code = "duplicate-schema-path" /\ es[p[1]].path = es[p[2]].path
    BY <1>3 DEF DuplicateDiagnostics, Diagnostic
  <2>2. PICK q \in Pairs(fs) : \/ fs[q[1]] = es[p[1]] /\ fs[q[2]] = es[p[2]]
                               \/ fs[q[1]] = es[p[2]] /\ fs[q[2]] = es[p[1]]
    BY <1>1
  <2>3. Diagnostic(x.code, q) \in DuplicateDiagnostics(fs)
    BY <2>1, <2>2 DEF DuplicateDiagnostics
  <2>4. QED
    BY <2>3 DEF Diagnostic
<1>4. CASE x \in EntryDiagnostics(es)
  <2>1. PICK i \in DOMAIN es :
          \/ x.code = "document-id-schema-id-mismatch" /\ es[i].doc.id # es[i].id
          \/ x.code = "document-id-version-mismatch" /\ es[i].doc.ver # es[i].ver
          \/ x.code = "absolute-schema-path" /\ IsAbsolutePath(es[i].path)
          \/ x.code = "path-traversal" /\ (HasTraversal(es[i].path) \/ es[i].path.backslash)
    BY <1>4 DEF EntryDiagnostics, Diagnostic
  <2>2. PICK k \in DOMAIN fs : fs[k] = es[i]
    BY <1>2
  <2>3. Diagnostic(x.code, k) \in EntryDiagnostics(fs)
    BY <2>1, <2>2 DEF EntryDiagnostics
  <2>4. QED
    BY <2>3 DEF Diagnostic
<1>5. QED
  BY <1>3, <1>4

LEMMA SameRuleCodes ==
  ASSUME NEW es, NEW fs, Rearranges(fs, es),
         NEW rs, NEW qs, Rearranges(rs, qs), DOMAIN rs \subseteq Nat,
         NEW x \in RuleDiagnostics(es, rs)
  PROVE  \E y \in RuleDiagnostics(fs, qs) : y.code = x.code
<1>1. ASSUME NEW p \in Pairs(rs)
      PROVE  \E q \in Pairs(qs) : \/ qs[q[1]] = rs[p[1]] /\ qs[q[2]] = rs[p[2]]
                                  \/ qs[q[1]] = rs[p[2]] /\ qs[q[2]] = rs[p[1]]
  <2>1. p[1] \in DOMAIN rs /\ p[2] \in DOMAIN rs /\ p[1] # p[2]
    BY DEF Pairs
  <2>2. PICK k \in DOMAIN qs, l \in DOMAIN qs : k # l /\ qs[k] = rs[p[1]] /\ qs[l] = rs[p[2]]
    BY <2>1 DEF Rearranges
  <2>3. k \in Nat /\ l \in Nat
    BY DEF Rearranges
  <2>4. CASE k < l
    <3>1. <<k, l>> \in Pairs(qs)
      BY <2>4 DEF Pairs
    <3>2. QED
      BY <2>2, <3>1
  <2>5. CASE l < k
    <3>1. <<l, k>> \in Pairs(qs)
      BY <2>5 DEF Pairs
    <3>2. QED
      BY <2>2, <3>1
  <2>6. QED
    BY <2>2, <2>3, <2>4, <2>5
<1>2. \A i \in DOMAIN rs : \E k \in DOMAIN qs : qs[k] = rs[i]
  BY DEF Rearranges
<1>3. Registered(fs) \subseteq Registered(es)
  BY DEF Registered, Rearranges
<1>4. \/ \E i \in DOMAIN rs :
           \/ x.code = "cross-schema-edge" /\ rs[i].from.id # rs[i].to.id
           \/ /\ x.code = "rule-target-unknown"
              /\ ~({rs[i].from, rs[i].to} \subseteq Registered(es))
      \/ \E p \in Pairs(rs) :
           \/ x.code = "duplicate-rule" /\ rs[p[1]] = rs[p[2]]
           \/ /\ x.code = "conflicting-rule"
              /\ rs[p[1]].from = rs[p[2]].from /\ rs[p[1]].to = rs[p[2]].to
              /\ rs[p[1]].kind # rs[p[2]].kind
  BY DEF RuleDiagnostics, Diagnostic
<1>5. ASSUME NEW i \in DOMAIN rs,
             \/ x.code = "cross-schema-edge" /\ rs[i].from.id # rs[i].to.id
             \/ /\ x.code = "rule-target-unknown"
                /\ ~({rs[i].from, rs[i].to} \subseteq Registered(es))
      PROVE  \E k : Diagnostic(x.code, k) \in RuleDiagnostics(fs, qs)
  <2>1. PICK k \in DOMAIN qs : qs[k] = rs[i]
    BY <1>2
  <2>2. CASE x.code = "cross-schema-edge" /\ rs[i].from.id # rs[i].to.id
    <3>1. Diagnostic(x.code, k) \in RuleDiagnostics(fs, qs)
      BY <2>1, <2>2 DEF RuleDiagnostics
    <3>2. QED
      BY <3>1
  <2>3. CASE x.code = "rule-target-unknown" /\ ~({rs[i].from, rs[i].to} \subseteq Registered(es))
    <3>1. ~({qs[k].from, qs[k].to} \subseteq Registered(fs))
      BY <1>3, <2>1, <2>3
    <3>2. Diagnostic(x.code, k) \in RuleDiagnostics(fs, qs)
      BY <2>3, <3>1 DEF RuleDiagnostics
    <3>3. QED
      BY <3>2
  <2>4. QED
    BY <1>5, <2>2, <2>3
<1>6. ASSUME NEW p \in Pairs(rs),
             \/ x.code = "duplicate-rule" /\ rs[p[1]] = rs[p[2]]
             \/ /\ x.code = "conflicting-rule"
                /\ rs[p[1]].from = rs[p[2]].from /\ rs[p[1]].to = rs[p[2]].to
                /\ rs[p[1]].kind # rs[p[2]].kind
      PROVE  \E q : Diagnostic(x.code, q) \in RuleDiagnostics(fs, qs)
  <2>1. PICK q \in Pairs(qs) : \/ qs[q[1]] = rs[p[1]] /\ qs[q[2]] = rs[p[2]]
                               \/ qs[q[1]] = rs[p[2]] /\ qs[q[2]] = rs[p[1]]
    BY <1>1
  <2>2. Diagnostic(x.code, q) \in RuleDiagnostics(fs, qs)
    BY <1>6, <2>1 DEF RuleDiagnostics
  <2>3. QED
    BY <2>2
<1>7. \E k : Diagnostic(x.code, k) \in RuleDiagnostics(fs, qs)
  BY <1>4, <1>5, <1>6
<1>8. QED
  BY <1>7 DEF Diagnostic

\* Validation gives the codes of one arrangement to every other.
LEMMA SameCodes ==
  ASSUME TypeOK, NEW c \in Build(entries, rules), NEW d \in Build(entries, rules)
  PROVE  Codes(ValidateCatalog(c)) \subseteq Codes(ValidateCatalog(d))
<1>1. /\ Rearranges(c.entries, d.entries) /\ Rearranges(d.entries, c.entries)
      /\ Rearranges(c.rules, d.rules)
      /\ DOMAIN c.entries \subseteq Nat /\ DOMAIN c.rules \subseteq Nat
  <2>1. /\ DOMAIN c.entries = 1..Len(entries) /\ DOMAIN c.rules = 1..Len(rules)
        /\ Rearranges(c.entries, d.entries) /\ Rearranges(c.rules, d.rules)
        /\ Rearranges(d.entries, c.entries)
    BY BuildsRearrange
  <2>2. QED
    BY <2>1
<1> SUFFICES ASSUME NEW x \in ValidateCatalog(c)
             PROVE  \E y \in ValidateCatalog(d) : y.code = x.code
  BY DEF Codes
<1>2. CASE x \in UNION {DuplicateDiagnostics(c.entries), EntryDiagnostics(c.entries)}
  <2>1. PICK y \in UNION {DuplicateDiagnostics(d.entries), EntryDiagnostics(d.entries)} :
          y.code = x.code
    BY <1>1, <1>2, SameEntryCodes
  <2>2. y \in ValidateCatalog(d)
    BY DEF ValidateCatalog
  <2>3. QED
    BY <2>1, <2>2
<1>3. CASE x \in RuleDiagnostics(c.entries, c.rules)
  <2>1. PICK y \in RuleDiagnostics(d.entries, d.rules) : y.code = x.code
    BY <1>1, <1>3, SameRuleCodes
  <2>2. y \in ValidateCatalog(d)
    BY DEF ValidateCatalog
  <2>3. QED
    BY <2>1, <2>2
<1>4. QED
  BY <1>2, <1>3 DEF ValidateCatalog

Asymmetric(L) == \A a, b : ~(<<a, b>> \in L /\ <<b, a>> \in L)
Ascending(t, n, L) == \A i, j \in 1..n : i < j => <<t[i], t[j]>> \in L
Covers(u, t, n) == \A i \in 1..n : \E k \in 1..n : u[k] = t[i]

\* Two sequences that are strictly in order and have the same elements are one.
LEMMA StrictlySortedIsUnique ==
  ASSUME NEW n \in Nat, NEW t, NEW u, NEW L, Asymmetric(L),
         Ascending(t, n, L), Ascending(u, n, L), Covers(u, t, n), Covers(t, u, n)
  PROVE  \A i \in 1..n : t[i] = u[i]
<1> USE DEF Asymmetric, Ascending, Covers
<1> DEFINE D == {i \in 1..n : t[i] # u[i]}
<1> SUFFICES ASSUME D # {} PROVE FALSE
  OBVIOUS
<1>1. PICK i \in D : \A j \in D : i <= j
  <2>1. D \in SUBSET Nat
    OBVIOUS
  <2>2. QED
    BY <2>1, FirstExists
<1>2. i \in 1..n /\ t[i] # u[i] /\ \A j \in 1..n : j < i => t[j] = u[j]
  BY <1>1
<1> HIDE DEF D
<1>3. PICK k \in 1..n : u[k] = t[i]
  BY <1>2
<1>4. PICK l \in 1..n : t[l] = u[i]
  BY <1>2
<1>5. k # i /\ l # i
  BY <1>2, <1>3, <1>4
<1>6. ~(k < i)
  <2> SUFFICES ASSUME k < i PROVE FALSE
    OBVIOUS
  <2>1. t[k] = t[i]
    BY <1>2, <1>3
  <2>2. <<t[k], t[i]>> \in L
    BY <1>2
  <2>3. QED
    BY <2>1, <2>2
<1>7. ~(l < i)
  <2> SUFFICES ASSUME l < i PROVE FALSE
    OBVIOUS
  <2>1. u[l] = u[i]
    BY <1>2, <1>4
  <2>2. <<u[l], u[i]>> \in L
    BY <1>2
  <2>3. QED
    BY <2>1, <2>2
<1>8. i < k /\ i < l
  BY <1>2, <1>5, <1>6, <1>7
<1>9. <<u[i], t[i]>> \in L
  <2>1. <<u[i], u[k]>> \in L
    BY <1>2, <1>8
  <2>2. QED
    BY <1>3, <2>1
<1>10. <<t[i], u[i]>> \in L
  <2>1. <<t[i], t[l]>> \in L
    BY <1>2, <1>8
  <2>2. QED
    BY <1>4, <2>1
<1>11. QED
  BY <1>9, <1>10

\* A rearrangement has every element.
LEMMA RearrangedCovers ==
  ASSUME NEW n, NEW t, NEW u, Rearranges(t, u), DOMAIN t = 1..n, DOMAIN u = 1..n
  PROVE  Covers(u, t, n)
  BY Zenon DEF Rearranges, Covers

\* The sort keys are strict orders: never both ways, and one way if they differ.
LEMMA EntryKeys ==
  ASSUME NEW a \in Entry, NEW b \in Entry
  PROVE  /\ ~(EntryLess(a, b) /\ EntryLess(b, a))
         /\ (a.id = b.id /\ a.ver = b.ver) \/ EntryLess(a, b) \/ EntryLess(b, a)
<1>1. a.id \in SchemaId /\ b.id \in SchemaId /\ a.ver \in Version /\ b.ver \in Version
  BY VersionsAssumption DEF Entry
<1>2. /\ a.ver = <<a.ver[1], a.ver[2], a.ver[3]>> /\ b.ver = <<b.ver[1], b.ver[2], b.ver[3]>>
      /\ a.ver[1] \in Nat /\ a.ver[2] \in Nat /\ a.ver[3] \in Nat
      /\ b.ver[1] \in Nat /\ b.ver[2] \in Nat /\ b.ver[3] \in Nat
  BY <1>1 DEF Version, Component
<1>3. /\ ~(VersionLess(a.ver, b.ver) /\ VersionLess(b.ver, a.ver))
      /\ a.ver = b.ver \/ VersionLess(a.ver, b.ver) \/ VersionLess(b.ver, a.ver)
  BY <1>2 DEF VersionLess
<1>4. a.id # b.id => (IdTextLess(a.id, b.id) <=> ~IdTextLess(b.id, a.id))
  BY <1>1, TextOrderAssumption DEF StrictTotalOrderOn
<1>5. QED
  BY <1>3, <1>4 DEF EntryLess

LEMMA RuleKeys ==
  ASSUME NEW a \in Rule, NEW b \in Rule
  PROVE  /\ ~(RuleLess(a, b) /\ RuleLess(b, a))
         /\ a = b \/ RuleLess(a, b) \/ RuleLess(b, a)
<1>1. /\ a = [from |-> a.from, to |-> a.to, kind |-> a.kind]
      /\ b = [from |-> b.from, to |-> b.to, kind |-> b.kind]
      /\ a.from \in DocumentId /\ b.from \in DocumentId
      /\ a.to \in DocumentId /\ b.to \in DocumentId
      /\ a.kind \in Kinds /\ b.kind \in Kinds
  BY DEF Rule
<1>2. \A d, e \in DocumentId : d # e => (DocTextLess(d, e) <=> ~DocTextLess(e, d))
  BY TextOrderAssumption DEF StrictTotalOrderOn
<1>3. a = b <=> a.from = b.from /\ a.to = b.to /\ a.kind = b.kind
  BY <1>1
<1>4. /\ a.from # b.from => (DocTextLess(a.from, b.from) <=> ~DocTextLess(b.from, a.from))
      /\ a.to # b.to => (DocTextLess(a.to, b.to) <=> ~DocTextLess(b.to, a.to))
  BY <1>1, <1>2
<1>5. QED
  BY <1>1, <1>3, <1>4 DEF RuleLess, Kinds

\* The two lists of a valid catalog hold no key twice.
LEMMA ValidKeysDiffer ==
  ASSUME NEW c \in Catalog, Valid(c)
  PROVE  /\ \A i, j \in DOMAIN c.entries : i < j =>
              ~(c.entries[i].id = c.entries[j].id /\ c.entries[i].ver = c.entries[j].ver)
         /\ \A i, j \in DOMAIN c.rules : i < j => c.rules[i] # c.rules[j]
<1>1. DuplicateDiagnostics(c.entries) = {} /\ RuleDiagnostics(c.entries, c.rules) = {}
  BY DEF Valid, ValidateCatalog
<1>2. ASSUME NEW i \in DOMAIN c.entries, NEW j \in DOMAIN c.entries, i < j,
             c.entries[i].id = c.entries[j].id, c.entries[i].ver = c.entries[j].ver
      PROVE  FALSE
  <2>1. <<i, j>> \in Pairs(c.entries)
    BY <1>2 DEF Pairs
  <2>2. Diagnostic("duplicate-schema-entry", <<i, j>>) \in DuplicateDiagnostics(c.entries)
    BY <1>2, <2>1 DEF DuplicateDiagnostics
  <2>3. QED
    BY <1>1, <2>2
<1>3. ASSUME NEW i \in DOMAIN c.rules, NEW j \in DOMAIN c.rules, i < j, c.rules[i] = c.rules[j]
      PROVE  FALSE
  <2>1. <<i, j>> \in Pairs(c.rules)
    BY <1>3 DEF Pairs
  <2>2. Diagnostic("duplicate-rule", <<i, j>>) \in RuleDiagnostics(c.entries, c.rules)
    BY <1>3, <2>1 DEF RuleDiagnostics
  <2>3. QED
    BY <1>1, <2>2
<1>4. QED
  BY <1>2, <1>3

\* If one catalog that can be built is valid there is no other.
LEMMA ValidBuildIsUnique ==
  ASSUME TypeOK, NEW c \in Build(entries, rules), NEW d \in Build(entries, rules), Valid(c)
  PROVE  c = d
<1> DEFINE n == Len(entries)
           m == Len(rules)
           EntryOrder == {p \in Entry \X Entry : EntryLess(p[1], p[2])}
           RuleOrder  == {p \in Rule \X Rule : RuleLess(p[1], p[2])}
<1>1. n \in Nat /\ m \in Nat
  BY LenProperties DEF TypeOK
<1>2. Codes(ValidateCatalog(d)) \subseteq Codes(ValidateCatalog(c))
  BY SameCodes
<1>3. Valid(d)
  BY <1>2 DEF Codes, Valid
<1>4. ASSUME NEW b \in {c, d}
      PROVE  /\ b \in Catalog /\ Valid(b)
             /\ DOMAIN b.entries = 1..n /\ DOMAIN b.rules = 1..m
             /\ b = [entries |-> [i \in 1..n |-> b.entries[i]],
                     rules   |-> [i \in 1..m |-> b.rules[i]]]
             /\ \A i, j \in 1..n : i < j => ~EntryLess(b.entries[j], b.entries[i])
             /\ \A i, j \in 1..m : i < j => ~RuleLess(b.rules[j], b.rules[i])
  BY <1>3, BuildsRearrange
<1>5. /\ Rearranges(c.entries, d.entries) /\ Rearranges(d.entries, c.entries)
      /\ Rearranges(c.rules, d.rules) /\ Rearranges(d.rules, c.rules)
  BY BuildsRearrange
<1> HIDE DEF n, m
<1>6. ASSUME NEW b \in {c, d}
      PROVE  /\ \A i \in 1..n : b.entries[i] \in Entry
             /\ \A i \in 1..m : b.rules[i] \in Rule
  <2>1. b.entries \in Seq(Entry) /\ b.rules \in Seq(Rule)
    BY <1>4 DEF Catalog
  <2>2. Len(b.entries) = n /\ Len(b.rules) = m
    BY <1>1, <1>4, <2>1, LenProperties
  <2>3. QED
    BY <2>1, <2>2, ElementOfSeq
<1>7. ASSUME NEW b \in {c, d}
      PROVE  Ascending(b.entries, n, EntryOrder) /\ Ascending(b.rules, m, RuleOrder)
  <2>1. ASSUME NEW i \in 1..n, NEW j \in 1..n, i < j
        PROVE  EntryLess(b.entries[i], b.entries[j])
    <3>1. b.entries[i] \in Entry /\ b.entries[j] \in Entry
      BY <1>6
    <3>2. ~(b.entries[i].id = b.entries[j].id /\ b.entries[i].ver = b.entries[j].ver)
      BY <1>4, <2>1, ValidKeysDiffer
    <3>3. ~EntryLess(b.entries[j], b.entries[i])
      BY <1>4, <2>1
    <3>4. QED
      BY <3>1, <3>2, <3>3, EntryKeys
  <2>2. ASSUME NEW i \in 1..m, NEW j \in 1..m, i < j
        PROVE  RuleLess(b.rules[i], b.rules[j])
    <3>1. b.rules[i] \in Rule /\ b.rules[j] \in Rule
      BY <1>6
    <3>2. b.rules[i] # b.rules[j]
      BY <1>4, <2>2, ValidKeysDiffer
    <3>3. ~RuleLess(b.rules[j], b.rules[i])
      BY <1>4, <2>2
    <3>4. QED
      BY <3>1, <3>2, <3>3, RuleKeys
  <2>3. QED
    BY <1>6, <2>1, <2>2 DEF Ascending
<1>8. Asymmetric(EntryOrder)
  BY EntryKeys DEF Asymmetric
<1>9. Asymmetric(RuleOrder)
  BY RuleKeys DEF Asymmetric
<1> HIDE DEF EntryOrder, RuleOrder
<1>10. \A i \in 1..n : c.entries[i] = d.entries[i]
  <2>1. DOMAIN c.entries = 1..n /\ DOMAIN d.entries = 1..n
    BY <1>4
  <2>2. Covers(d.entries, c.entries, n) /\ Covers(c.entries, d.entries, n)
    BY <1>5, <2>1, RearrangedCovers
  <2>3. Ascending(c.entries, n, EntryOrder) /\ Ascending(d.entries, n, EntryOrder)
    BY <1>7
  <2>4. QED
    BY <1>1, <1>8, <2>2, <2>3, StrictlySortedIsUnique
<1>11. \A i \in 1..m : c.rules[i] = d.rules[i]
  <2>1. DOMAIN c.rules = 1..m /\ DOMAIN d.rules = 1..m
    BY <1>4
  <2>2. Covers(d.rules, c.rules, m) /\ Covers(c.rules, d.rules, m)
    BY <1>5, <2>1, RearrangedCovers
  <2>3. Ascending(c.rules, m, RuleOrder) /\ Ascending(d.rules, m, RuleOrder)
    BY <1>7
  <2>4. QED
    BY <1>1, <1>9, <2>2, <2>3, StrictlySortedIsUnique
<1>12. [i \in 1..n |-> c.entries[i]] = [i \in 1..n |-> d.entries[i]]
  BY <1>10
<1>13. [i \in 1..m |-> c.rules[i]] = [i \in 1..m |-> d.rules[i]]
  BY <1>11
<1>14. QED
  BY <1>4, <1>12, <1>13

\* std::sort is unstable and entries and rules arrive in any order: validation
\* reports the same codes whatever order the sort leaves, and where it reports
\* none, build has only one catalog to return (build, validate_catalog).
THEOREM BuildIsDeterministicHolds == Spec => []BuildIsDeterministic
<1>1. TypeOK => BuildIsDeterministic
  <2> SUFFICES ASSUME TypeOK PROVE BuildIsDeterministic
    OBVIOUS
  <2>1. VerdictIgnoresSortOrder
    BY SameCodes DEF VerdictIgnoresSortOrder
  <2>2. BuildIsDeterministicWhenValid
    BY ValidBuildIsUnique DEF BuildIsDeterministicWhenValid
  <2>3. QED
    BY <2>1, <2>2 DEF BuildIsDeterministic
<1>2. QED
  BY <1>1, TypeCorrect, PTL

-----------------------------------------------------------------------------
(***************************************************************************)
(* Versions. The newest version of a family is a running maximum.          *)
(***************************************************************************)
LEMMA VersionOrder ==
  ASSUME NEW a \in Version, NEW b \in Version
  PROVE  /\ ~VersionLess(a, a)
         /\ VersionLess(a, b) \/ a = b \/ VersionLess(b, a)
         /\ \A c \in Version : VersionLess(a, b) /\ VersionLess(b, c) => VersionLess(a, c)
         /\ \A c \in Version : ~VersionLess(b, a) /\ VersionLess(b, c) => VersionLess(a, c)
         /\ ~VersionLess(a, <<0, 0, 0>>)
<1>1. \A v \in Version : /\ v[1] \in Nat /\ v[2] \in Nat /\ v[3] \in Nat
                         /\ v = <<v[1], v[2], v[3]>>
  BY MaxComponentAssumption DEF Version, Component
<1>2. \A c \in Version : VersionLess(a, b) /\ VersionLess(b, c) => VersionLess(a, c)
  BY <1>1 DEF VersionLess
<1>3. VersionLess(a, b) \/ a = b \/ VersionLess(b, a)
  <2>1. a[1] = b[1] /\ a[2] = b[2] /\ a[3] = b[3] => a = b
    BY <1>1
  <2>2. /\ a[1] \in Nat /\ a[2] \in Nat /\ a[3] \in Nat
        /\ b[1] \in Nat /\ b[2] \in Nat /\ b[3] \in Nat
    BY <1>1
  <2>3. QED
    BY <2>1, <2>2 DEF VersionLess
<1>4. ~VersionLess(a, a) /\ ~VersionLess(a, <<0, 0, 0>>)
  BY <1>1 DEF VersionLess
<1>5. \A c \in Version : ~VersionLess(b, a) /\ VersionLess(b, c) => VersionLess(a, c)
  BY <1>2, <1>3
<1>6. QED
  BY <1>2, <1>3, <1>4, <1>5

Running(es, id) ==
  LET m[i \in 0..Len(es)] ==
        IF i = 0 THEN <<0, 0, 0>>
        ELSE IF es[i].id = id /\ VersionLess(m[i - 1], es[i].ver)
             THEN es[i].ver ELSE m[i - 1]
  IN  m

LEMMA EntryVersions ==
  ASSUME NEW es \in Seq(Entry), NEW i \in 1..Len(es)
  PROVE  es[i].ver \in Version
<1>1. es[i] \in Entry
  BY ElementOfSeq
<1>2. es[i].ver \in Versions
  BY <1>1 DEF Entry
<1>3. QED
  BY <1>2, VersionsAssumption

LEMMA RunningSteps ==
  ASSUME NEW es \in Seq(Entry), NEW id
  PROVE  /\ Running(es, id)[0] = <<0, 0, 0>>
         /\ \A i \in 1..Len(es) : Running(es, id)[i] =
              IF es[i].id = id /\ VersionLess(Running(es, id)[i - 1], es[i].ver)
              THEN es[i].ver ELSE Running(es, id)[i - 1]
<1> DEFINE n == Len(es)
           M == Running(es, id)
           Next1(m, u) == IF es[m].id = id /\ VersionLess(u, es[m].ver) THEN es[m].ver ELSE u
           step == [p \in (1..n) \X Version |-> Next1(p[1], p[2])]
           pre == [m \in 1..n |-> m - 1]
<1>1. n \in Nat /\ \A i \in 1..n : es[i].ver \in Version
  BY LenProperties, EntryVersions
<1>2. <<0, 0, 0>> \in Version
  BY MaxComponentAssumption DEF Version, Component
<1>3. PICK f : Follows(f, n, Version, <<0, 0, 0>>, step, pre)
  <2>1. step \in [(1..n) \X Version -> Version]
    BY <1>1
  <2>2. pre \in [1..n -> Nat] /\ \A m \in 1..n : pre[m] < m
    BY <1>1
  <2> HIDE DEF step, pre, n
  <2>3. QED
    BY <1>1, <1>2, <2>1, <2>2, RecursionExists
<1>4. \A i \in 1..n : f[i] = Next1(i, f[i - 1])
  <2>1. \A i \in 1..n : f[i - 1] \in Version /\ pre[i] = i - 1
    BY <1>1, <1>3 DEF Follows
  <2>2. \A i \in 1..n : f[i] = step[<<i, f[i - 1]>>]
    BY <1>3, <2>1 DEF Follows
  <2> HIDE DEF Next1
  <2>3. QED
    BY <2>1, <2>2
<1>5. f = [i \in 0..n |-> IF i = 0 THEN <<0, 0, 0>> ELSE Next1(i, f[i - 1])]
  <2> HIDE DEF Next1
  <2>1. f[0] = <<0, 0, 0>> /\ DOMAIN f = 0..n /\ f = [i \in DOMAIN f |-> f[i]]
    BY <1>3 DEF Follows
  <2>2. \A i \in 0..n : i = 0 \/ i \in 1..n
    BY <1>1
  <2> HIDE DEF n
  <2>3. \A i \in 0..n : f[i] = IF i = 0 THEN <<0, 0, 0>> ELSE Next1(i, f[i - 1])
    BY <1>4, <2>1, <2>2
  <2>4. QED
    BY <2>1, <2>3
<1>6. M = [i \in 0..n |-> IF i = 0 THEN <<0, 0, 0>> ELSE Next1(i, M[i - 1])]
  BY <1>5 DEF Running
<1> HIDE DEF M, n, Next1
<1>7. M[0] = <<0, 0, 0>> /\ \A i \in 1..n : M[i] = Next1(i, M[i - 1])
  BY <1>1, <1>6
<1>8. QED
  BY <1>7 DEF M, n, Next1

\* u is the newest version of the family among the first k entries.
Newest(es, id, k, u) ==
  /\ u \in Version
  /\ \A i \in 1..k : es[i].id = id => ~VersionLess(u, es[i].ver)
  /\ u = <<0, 0, 0>> \/ \E i \in 1..k : es[i].id = id /\ es[i].ver = u

LEMMA MaxVersionIsNewest ==
  ASSUME NEW es \in Seq(Entry), NEW id
  PROVE  Newest(es, id, Len(es), MaxVersion(es, id))
<1> DEFINE n == Len(es)
           M == Running(es, id)
           G == {k \in 0..n : Newest(es, id, k, M[k])}
<1>1. n \in Nat /\ \A i \in 1..n : es[i].ver \in Version
  BY LenProperties, EntryVersions
<1>2. /\ M[0] = <<0, 0, 0>>
      /\ \A i \in 1..n : M[i] = IF es[i].id = id /\ VersionLess(M[i - 1], es[i].ver)
                                THEN es[i].ver ELSE M[i - 1]
  BY RunningSteps
<1> HIDE DEF M
<1>3. ASSUME NEW k \in 0..n, \A j \in 0..(k - 1) : j \in G
      PROVE  k \in G
  <2>1. CASE k = 0
    <3>1. <<0, 0, 0>> \in Version
      BY MaxComponentAssumption DEF Version, Component
    <3>2. Newest(es, id, 0, M[0])
      BY <1>2, <3>1 DEF Newest
    <3>3. QED
      BY <2>1, <3>2
  <2>2. CASE k \in 1..n
    <3>1. k - 1 \in 0..(k - 1) /\ k - 1 \in Nat /\ \A i \in 1..k : i \in 1..(k - 1) \/ i = k
      BY <2>2
    <3>2. Newest(es, id, k - 1, M[k - 1])
      BY <1>3, <3>1
    <3>3. es[k].ver \in Version
      BY <1>1, <2>2
    <3>4. CASE es[k].id = id /\ VersionLess(M[k - 1], es[k].ver)
      <4>1. M[k] = es[k].ver
        BY <1>2, <2>2, <3>4
      <4>2. ASSUME NEW i \in 1..k, es[i].id = id PROVE ~VersionLess(es[k].ver, es[i].ver)
        <5>1. CASE i = k
          BY <3>3, <5>1, VersionOrder
        <5>2. CASE i \in 1..(k - 1)
          <6>1. ~VersionLess(M[k - 1], es[i].ver) /\ M[k - 1] \in Version
            BY <3>2, <4>2, <5>2 DEF Newest
          <6>2. es[i].ver \in Version
            BY <1>1, <2>2, <5>2
          <6>3. VersionLess(es[k].ver, es[i].ver) => VersionLess(M[k - 1], es[i].ver)
            BY <3>3, <3>4, <6>1, <6>2, VersionOrder
          <6>4. QED
            BY <6>1, <6>3
        <5>3. QED
          BY <3>1, <5>1, <5>2
      <4>3. k \in 1..k
        BY <2>2
      <4>4. Newest(es, id, k, M[k])
        BY <3>3, <3>4, <4>1, <4>2, <4>3 DEF Newest
      <4>5. QED
        BY <4>4
    <3>5. CASE ~(es[k].id = id /\ VersionLess(M[k - 1], es[k].ver))
      <4>1. M[k] = M[k - 1]
        BY <1>2, <2>2, <3>5
      <4>2. \A i \in 1..(k - 1) : i \in 1..k
        BY <2>2
      <4>3. Newest(es, id, k, M[k - 1])
        BY <3>1, <3>2, <3>5, <4>2 DEF Newest
      <4>4. QED
        BY <4>1, <4>3
    <3>6. QED
      BY <3>4, <3>5
  <2>3. QED
    BY <2>1, <2>2
<1>4. \A k \in 0..n : k \in G
  <2> HIDE DEF G, n
  <2>1. QED
    BY <1>1, <1>3, Induction
<1>5. n \in 0..n
  BY <1>1
<1>6. MaxVersion(es, id) = M[n]
  BY DEF MaxVersion, Running, M
<1>7. QED
  BY <1>4, <1>5, <1>6

\* What lookup_schema answers.
LEMMA LookupAnswers ==
  ASSUME NEW es \in Seq(Entry), NEW id, NEW ver
  PROVE  LET r == LookupSchema(es, id, ver)
             mine == {es[i].ver : i \in {k \in DOMAIN es : es[k].id = id}}
         IN  /\ r.found <=> ver \in mine
             /\ r.code = IF ver \in mine THEN "none"
                         ELSE IF mine = {} THEN "unknown-schema"
                         ELSE IF VersionLess(MaxVersion(es, id), ver)
                              THEN "unsupported-future-version" ELSE "unknown-schema-version"
             /\ ver \notin mine => r = NotFound(r.code)
<1> DEFINE r == LookupSchema(es, id, ver)
           mine == {es[i].ver : i \in {k \in DOMAIN es : es[k].id = id}}
           matches == {i \in DOMAIN es : es[i].id = id /\ es[i].ver = ver}
           first == CHOOSE i \in matches : \A j \in matches : i <= j
           future == VersionLess(MaxVersion(es, id), ver)
<1>1. r = IF matches # {} THEN Found(es[first])
          ELSE IF \A i \in DOMAIN es : es[i].id # id THEN NotFound("unknown-schema")
          ELSE IF future THEN NotFound("unsupported-future-version")
          ELSE NotFound("unknown-schema-version")
  BY DEF LookupSchema
<1>2. matches # {} <=> ver \in mine
  OBVIOUS
<1>3. (\A i \in DOMAIN es : es[i].id # id) <=> mine = {}
  OBVIOUS
<1>4. /\ \A e : Found(e).found = TRUE /\ Found(e).code = "none"
      /\ \A why : NotFound(why).found = FALSE /\ NotFound(why).code = why
  BY DEF Found, NotFound
<1> HIDE DEF r, mine, matches, first, future
<1>5. CASE ver \in mine
  <2>1. r = Found(es[first])
    BY <1>1, <1>2, <1>5
  <2>2. QED
    BY <1>4, <1>5, <2>1 DEF r, mine
<1>6. CASE ver \notin mine
  <2>1. r = NotFound(IF mine = {} THEN "unknown-schema"
                     ELSE IF future THEN "unsupported-future-version"
                     ELSE "unknown-schema-version")
    BY <1>1, <1>2, <1>3, <1>6
  <2>2. QED
    BY <1>4, <1>6, <2>1 DEF r, mine, future
<1>7. QED
  BY <1>5, <1>6

\* A version is a future one exactly if it is newer than every registered one.
LEMMA FutureOfFamily ==
  ASSUME NEW es \in Seq(Entry), NEW id, NEW ver \in Version,
         NEW k \in DOMAIN es, es[k].id = id,
         \A i \in DOMAIN es : es[i].id = id => es[i].ver # ver
  PROVE  VersionLess(MaxVersion(es, id), ver) <=>
           \A i \in DOMAIN es : es[i].id = id => VersionLess(es[i].ver, ver)
<1> DEFINE M == MaxVersion(es, id)
<1>1. /\ M \in Version
      /\ \A i \in DOMAIN es : es[i].id = id => ~VersionLess(M, es[i].ver)
      /\ M = <<0, 0, 0>> \/ \E i \in DOMAIN es : es[i].id = id /\ es[i].ver = M
  BY MaxVersionIsNewest, LenProperties DEF Newest
<1>2. \A i \in DOMAIN es : es[i].ver \in Version
  BY LenProperties, EntryVersions
<1> HIDE DEF M
<1>3. ASSUME VersionLess(M, ver), NEW i \in DOMAIN es, es[i].id = id
      PROVE  VersionLess(es[i].ver, ver)
  BY <1>1, <1>2, <1>3, VersionOrder
<1>4. ASSUME \A i \in DOMAIN es : es[i].id = id => VersionLess(es[i].ver, ver)
      PROVE  VersionLess(M, ver)
  <2>1. CASE \E i \in DOMAIN es : es[i].id = id /\ es[i].ver = M
    BY <1>4, <2>1
  <2>2. CASE M = <<0, 0, 0>>
    <3>1. ~VersionLess(M, es[k].ver) /\ ~VersionLess(es[k].ver, M)
      BY <1>1, <1>2, <2>2, VersionOrder
    <3>2. es[k].ver = M
      BY <1>1, <1>2, <3>1, VersionOrder
    <3>3. QED
      BY <1>4, <3>2
  <2>3. QED
    BY <1>1, <2>1, <2>2
<1>5. QED
  BY <1>3, <1>4 DEF M

\* lookup_schema keeps its failures apart.
LEMMA LookupIsClassified ==
  ASSUME NEW es \in Seq(Entry), NEW id, NEW ver \in Version
  PROVE  LET r    == LookupSchema(es, id, ver)
             mine == {es[i].ver : i \in {k \in DOMAIN es : es[k].id = id}}
         IN  /\ r.found <=> ver \in mine
             /\ r.code = "unknown-schema" <=> mine = {}
             /\ r.code = "unsupported-future-version" <=>
                  mine # {} /\ \A v \in mine : VersionLess(v, ver)
<1> DEFINE r == LookupSchema(es, id, ver)
           mine == {es[i].ver : i \in {k \in DOMAIN es : es[k].id = id}}
           newer == VersionLess(MaxVersion(es, id), ver)
<1>1. /\ r.found <=> ver \in mine
      /\ r.code = IF ver \in mine THEN "none"
                  ELSE IF mine = {} THEN "unknown-schema"
                  ELSE IF newer THEN "unsupported-future-version" ELSE "unknown-schema-version"
  BY LookupAnswers
<1>2. ver \in mine => mine # {} /\ ~(\A v \in mine : VersionLess(v, ver))
  <2>1. ~VersionLess(ver, ver)
    BY VersionOrder
  <2> HIDE DEF mine
  <2>2. QED
    BY <2>1
<1>3. ASSUME ver \notin mine, mine # {}
      PROVE  newer <=> \A v \in mine : VersionLess(v, ver)
  <2>1. PICK k \in DOMAIN es : es[k].id = id
    BY <1>3
  <2>2. \A i \in DOMAIN es : es[i].id = id => es[i].ver # ver
    BY <1>3
  <2>3. newer <=> \A i \in DOMAIN es : es[i].id = id => VersionLess(es[i].ver, ver)
    BY <2>1, <2>2, FutureOfFamily
  <2>4. (\A v \in mine : VersionLess(v, ver)) <=>
          \A i \in DOMAIN es : es[i].id = id => VersionLess(es[i].ver, ver)
    OBVIOUS
  <2>5. QED
    BY <2>3, <2>4
<1> HIDE DEF r, mine, newer
<1>4. QED
  BY <1>1, <1>2, <1>3 DEF r, mine

\* A text of a version is answered as the version is.
LEMMA InspectedAsLookedUp ==
  ASSUME NEW es, NEW id, NEW w \in Version
  PROVE  InspectSchemaVersion(es, id, <<VersionText(w)>>) = {LookupSchema(es, id, w)}
<1> DEFINE answer(o) == CASE o.result = "invalid_argument" -> NotFound("malformed-schema-version")
                          [] o.result = "out_of_range" -> NotFound("schema-version-out-of-range")
                          [] OTHER -> LookupSchema(es, id, o.value)
           raw == <<VersionText(w)>>
<1>1. raw # <<>> /\ raw[1] = VersionText(w)
  OBVIOUS
<1>2. InspectSchemaVersion(es, id, raw) = {answer(o) : o \in FromString(raw[1])}
  <2> HIDE DEF raw
  <2>1. QED
    BY <1>1, Zenon DEF InspectSchemaVersion
<1>3. FromString(raw[1]) = {Parsed(w)}
  BY <1>1, PrintedIsAccepted
<1>4. answer(Parsed(w)) = LookupSchema(es, id, w)
  <2>1. Parsed(w).result = "ok" /\ Parsed(w).value = w
    BY DEF Parsed
  <2>2. Parsed(w).result # "invalid_argument" /\ Parsed(w).result # "out_of_range"
    BY <2>1
  <2>3. QED
    BY <2>1, <2>2, Zenon
<1> HIDE DEF raw, answer
<1>5. InspectSchemaVersion(es, id, raw) = {LookupSchema(es, id, w)}
  BY <1>2, <1>3, <1>4
<1>6. QED
  BY <1>5 DEF raw

\* and one whose major number is too large is out of range.
LEMMA InspectedTooLarge ==
  ASSUME NEW es, NEW id, NEW x \in Nat, x > MaxComponent, NEW y \in Component, NEW z \in Component
  PROVE  InspectSchemaVersion(es, id, <<VersionText(<<x, y, z>>)>>) =
           {NotFound("schema-version-out-of-range")}
<1> DEFINE answer(o) == CASE o.result = "invalid_argument" -> NotFound("malformed-schema-version")
                          [] o.result = "out_of_range" -> NotFound("schema-version-out-of-range")
                          [] OTHER -> LookupSchema(es, id, o.value)
           raw == <<VersionText(<<x, y, z>>)>>
<1>1. raw # <<>> /\ raw[1] = VersionText(<<x, y, z>>)
  OBVIOUS
<1>2. InspectSchemaVersion(es, id, raw) = {answer(o) : o \in FromString(raw[1])}
  <2> HIDE DEF raw
  <2>1. QED
    BY <1>1, Zenon DEF InspectSchemaVersion
<1>3. FromString(raw[1]) = {OutOfRange}
  BY <1>1, MajorTooLarge
<1>4. answer(OutOfRange) = NotFound("schema-version-out-of-range")
  <2>1. OutOfRange.result = "out_of_range"
    BY DEF OutOfRange
  <2>2. OutOfRange.result # "invalid_argument"
    BY <2>1
  <2>3. QED
    BY <2>1, <2>2, Zenon
<1> HIDE DEF raw, answer
<1>5. InspectSchemaVersion(es, id, raw) = {NotFound("schema-version-out-of-range")}
  BY <1>2, <1>3, <1>4
<1>6. QED
  BY <1>5 DEF raw

\* A version newer than every version there is is a future one of each family.
LEMMA FutureIsAnswered ==
  ASSUME NEW es \in Seq(Entry), NEW id, NEW w \in Version,
         NEW k \in DOMAIN es, es[k].id = id, \A u \in Versions : u[1] < w[1]
  PROVE  LookupSchema(es, id, w) = NotFound("unsupported-future-version")
<1> DEFINE mine == {es[i].ver : i \in {l \in DOMAIN es : es[l].id = id}}
           r == LookupSchema(es, id, w)
<1>1. \A i \in DOMAIN es : es[i].ver \in Versions
  <2>1. \A i \in 1..Len(es) : es[i] \in Entry
    BY ElementOfSeq
  <2>2. QED
    BY <2>1, LenProperties DEF Entry
<1>2. \A u \in Versions : VersionLess(u, w)
  BY DEF VersionLess
<1>3. mine # {} /\ \A v \in mine : VersionLess(v, w)
  BY <1>1, <1>2
<1>4. w \notin mine
  <2>1. ~VersionLess(w, w)
    BY VersionOrder
  <2> HIDE DEF mine
  <2>2. QED
    BY <1>3, <2>1
<1>5. r.code = "unsupported-future-version"
  BY <1>3, LookupIsClassified
<1>6. r = NotFound(r.code)
  BY <1>4, LookupAnswers
<1>7. QED
  BY <1>5, <1>6

\* Whatever is registered, in whatever versions: looking a version up and
\* inspecting its text tell an unknown family, a future version, a missing one
\* and one out of range apart, and agree (lookup_schema, inspect_schema_version).
THEOREM VersionsAreClassifiedHolds == Spec => []VersionsAreClassified
<1>1. TypeOK => VersionsAreClassified
  <2>1. SUFFICES ASSUME TypeOK PROVE LookupClassifies /\ FutureIsNeverMalformed
    BY DEF VersionsAreClassified
  <2> DEFINE es == built.entries
  <2>2. es \in Seq(Entry)
    BY <2>1 DEF TypeOK, Catalog
  <2>3. LookupClassifies
    BY <2>2, VersionsAssumption, LookupIsClassified DEF LookupClassifies
  <2>4. ASSUME NEW id \in SchemaId, NEW v \in Versions,
               NEW major \in {v[1], MaxComponent, MaxComponent + 1}
        PROVE  InspectSchemaVersion(es, id, <<VersionText(<<major, v[2], v[3]>>)>>) =
                 IF major > MaxComponent THEN {NotFound("schema-version-out-of-range")}
                 ELSE IF /\ \E i \in DOMAIN es : es[i].id = id
                         /\ \A u \in Versions : u[1] < major
                      THEN {NotFound("unsupported-future-version")}
                      ELSE {LookupSchema(es, id, <<major, v[2], v[3]>>)}
    <3> DEFINE w == <<major, v[2], v[3]>>
    <3>1. v[1] \in Component /\ v[2] \in Component /\ v[3] \in Component /\ major \in Nat
      BY VersionsAssumption, MaxComponentAssumption DEF Version, Component
    <3>2. CASE major > MaxComponent
      <4>1. InspectSchemaVersion(es, id, <<VersionText(w)>>) = {NotFound("schema-version-out-of-range")}
        BY <3>1, <3>2, InspectedTooLarge
      <4>2. QED
        BY <3>2, <4>1
    <3>3. CASE ~(major > MaxComponent)
      <4>1. w \in Version /\ w[1] = major
        BY <3>1, <3>3, MaxComponentAssumption DEF Version, Component
      <4> HIDE DEF w, es
      <4>2. InspectSchemaVersion(es, id, <<VersionText(w)>>) = {LookupSchema(es, id, w)}
        BY <4>1, InspectedAsLookedUp
      <4>3. ASSUME NEW k \in DOMAIN es, es[k].id = id, \A u \in Versions : u[1] < major
            PROVE  LookupSchema(es, id, w) = NotFound("unsupported-future-version")
        BY <2>2, <4>1, <4>3, FutureIsAnswered
      <4>4. InspectSchemaVersion(es, id, <<VersionText(w)>>) =
              IF /\ \E i \in DOMAIN es : es[i].id = id
                 /\ \A u \in Versions : u[1] < major
              THEN {NotFound("unsupported-future-version")} ELSE {LookupSchema(es, id, w)}
        BY <4>2, <4>3
      <4>5. QED
        BY <3>3, <4>4 DEF w
    <3>4. QED
      BY <3>2, <3>3
  <2>5. FutureIsNeverMalformed
    BY <2>4 DEF FutureIsNeverMalformed
  <2>6. QED
    BY <2>3, <2>5
<1>2. QED
  BY <1>1, TypeCorrect, PTL

-----------------------------------------------------------------------------
(***************************************************************************)
(* The loader. That the parser of versions is exact on every text is shown *)
(* in part 1.                                                              *)
(***************************************************************************)
Typed(s) == \A o \in FromString(s) : o.result = "ok" => o.value \in Versions

Exact(s) == \A o \in FromString(s) :
  IF o.result = "ok" THEN VersionText(o.value) = s ELSE s \notin PrintedVersions

LEMMA TextIsExact ==
  ASSUME NEW s \in Text
  PROVE  Exact(s)
<1>1. s \in Seq(Character)
  BY DEF Text, Character
<1>2. SUFFICES ASSUME NEW o \in FromString(s)
               PROVE  IF o.result = "ok" THEN VersionText(o.value) = s ELSE s \notin PrintedVersions
  BY DEF Exact
<1>3. ASSUME NEW v \in Version, s = VersionText(v) PROVE o.result = "ok"
  <2>1. o = Parsed(v)
    BY <1>3, PrintedIsAccepted
  <2>2. QED
    BY <2>1 DEF Parsed
<1>4. QED
  BY <1>1, <1>3, AcceptedIsPrinted DEF PrintedVersions

LEMMA ExactText ==
  ASSUME NEW s, Typed(s), Exact(s), NEW o \in FromString(s)
  PROVE  /\ o.result = "ok" <=> s \in PrintedVersions
         /\ o.result = "ok" => VersionText(o.value) = s
  BY VersionsAssumption DEF Typed, Exact, PrintedVersions

LEMMA DocumentIdType ==
  ASSUME NEW d \in DocText, Typed(d.ver), NEW x \in DocumentIdFromString(d), x.result = "ok"
  PROVE  x.value \in DocumentId /\ x.value.id = d.id /\ d.id \in SchemaId
<1>1. d.id # "malformed"
  BY DEF DocumentIdFromString, Invalid
<1>2. PICK o \in FromString(d.ver) :
         x = IF o.result = "ok" THEN Parsed([id |-> d.id, ver |-> o.value]) ELSE o
  BY <1>1 DEF DocumentIdFromString
<1>3. o.result = "ok"
  BY <1>2
<1>4. d.id \in SchemaId /\ o.value \in Versions
  BY <1>1, <1>3 DEF DocText, IdText, Typed
<1>5. x.value = [id |-> d.id, ver |-> o.value]
  BY <1>2, <1>3 DEF Parsed
<1>6. QED
  BY <1>4, <1>5 DEF DocumentId

LEMMA DocumentIdMeaning ==
  ASSUME "malformed" \notin SchemaId, NEW d \in DocText, Typed(d.ver), Exact(d.ver),
         NEW x \in DocumentIdFromString(d)
  PROVE  /\ x.result = "ok" <=> SoundDoc(d)
         /\ x.result = "ok" => VersionText(x.value.ver) = d.ver
<1>1. CASE d.id = "malformed"
  BY <1>1 DEF DocumentIdFromString, Invalid, SoundDoc
<1>2. CASE d.id # "malformed"
  <2>1. PICK o \in FromString(d.ver) :
           x = IF o.result = "ok" THEN Parsed([id |-> d.id, ver |-> o.value]) ELSE o
    BY <1>2 DEF DocumentIdFromString
  <2>2. d.id \in SchemaId
    BY <1>2 DEF DocText, IdText
  <2>3. o.result = "ok" <=> d.ver \in PrintedVersions
    BY ExactText
  <2>4. CASE o.result = "ok"
    <3>1. x.result = "ok" /\ x.value.ver = o.value
      BY <2>1, <2>4 DEF Parsed
    <3>2. QED
      BY <2>2, <2>3, <2>4, <3>1, ExactText DEF SoundDoc
  <2>5. CASE o.result # "ok"
    BY <2>1, <2>3, <2>5 DEF SoundDoc
  <2>6. QED
    BY <2>4, <2>5
<1>3. QED
  BY <1>1, <1>2

LEMMA CodesOfRefusals ==
  ASSUME NEW result, NEW code, code \in {VersionCode(result), DocumentCode(result)}
  PROVE  code # "none"
  BY DEF VersionCode, DocumentCode

\* Reading an entry, by the outcomes of the two texts in it.
LEMMA EntryOutcome ==
  ASSUME NEW e, NEW o \in EntryOutcomes(e), o.code = "none"
  PROVE  /\ e.shape = "strings" /\ e.id \in SchemaId /\ e.status # "unknown"
         /\ \E v \in FromString(e.ver), d \in DocumentIdFromString(e.doc) :
              /\ v.result = "ok" /\ d.result = "ok"
              /\ o.value = [id |-> e.id, ver |-> v.value, doc |-> d.value, path |-> e.path]
<1>1. e.shape = "strings" /\ e.id \in SchemaId
  BY DEF EntryOutcomes, Reject
<1>2. PICK v \in FromString(e.ver), d \in DocumentIdFromString(e.doc) :
        o = CASE v.result # "ok" -> Reject(VersionCode(v.result))
              [] v.result = "ok" /\ d.result # "ok" -> Reject(DocumentCode(d.result))
              [] v.result = "ok" /\ d.result = "ok" /\ e.status = "unknown" ->
                   Reject("malformed-catalog-json")
              [] OTHER -> Accept([id |-> e.id, ver |-> v.value, doc |-> d.value, path |-> e.path])
  BY <1>1 DEF EntryOutcomes
<1>3. v.result = "ok" /\ d.result = "ok" /\ e.status # "unknown"
  BY <1>2, CodesOfRefusals DEF Reject
<1>4. o.value = [id |-> e.id, ver |-> v.value, doc |-> d.value, path |-> e.path]
  BY <1>2, <1>3 DEF Accept
<1>5. QED
  BY <1>1, <1>3, <1>4

LEMMA EntryRefused ==
  ASSUME NEW e, NEW o \in EntryOutcomes(e), o.code # "none",
         e.shape = "strings", e.id \in SchemaId, e.status # "unknown"
  PROVE  \E v \in FromString(e.ver), d \in DocumentIdFromString(e.doc) :
           v.result # "ok" \/ d.result # "ok"
<1>1. PICK v \in FromString(e.ver), d \in DocumentIdFromString(e.doc) :
        o = CASE v.result # "ok" -> Reject(VersionCode(v.result))
              [] v.result = "ok" /\ d.result # "ok" -> Reject(DocumentCode(d.result))
              [] v.result = "ok" /\ d.result = "ok" /\ e.status = "unknown" ->
                   Reject("malformed-catalog-json")
              [] OTHER -> Accept([id |-> e.id, ver |-> v.value, doc |-> d.value, path |-> e.path])
  BY DEF EntryOutcomes
<1>2. QED
  BY <1>1 DEF Accept

\* What is reported of an entry, and what is kept of it.
LEMMA EntryProblems ==
  ASSUME "malformed" \notin SchemaId, NEW e \in EntryNode, NEW o \in EntryOutcomes(e), NEW at,
         Typed(e.ver), Exact(e.ver), Typed(e.doc.ver), Exact(e.doc.ver)
  PROVE  /\ \A d \in Problems(e, o, at) : d.at = at
         /\ Problems(e, o, at) = {} <=> SoundEntry(e)
         /\ Problems(e, o, at) = {} => o.code = "none" /\ SaysEntry(e, o.value)
<1>0. /\ e.doc \in DocText /\ e.status \in {"known", "unknown"} /\ e.extra \in BOOLEAN
      /\ e.id \in SchemaId \/ e.id = "malformed"
  BY DEF EntryNode, IdText
<1>1. \A d \in Problems(e, o, at) : d.at = at
  BY DEF Problems, Diagnostic, Malformed
<1>2. ASSUME o.code = "none"
      PROVE  /\ e.shape = "strings" /\ e.status = "known"
             /\ e.id \in SchemaId /\ e.ver \in PrintedVersions /\ SoundDoc(e.doc)
             /\ ~e.extra => SaysEntry(e, o.value)
  <2>1. e.shape = "strings" /\ e.id \in SchemaId /\ e.status = "known"
    BY <1>0, <1>2, EntryOutcome
  <2>2. PICK v \in FromString(e.ver), d \in DocumentIdFromString(e.doc) :
          /\ v.result = "ok" /\ d.result = "ok"
          /\ o.value = [id |-> e.id, ver |-> v.value, doc |-> d.value, path |-> e.path]
    BY <1>2, EntryOutcome
  <2>3. e.ver \in PrintedVersions /\ VersionText(v.value) = e.ver
    BY <2>2, ExactText
  <2>4. SoundDoc(e.doc) /\ VersionText(d.value.ver) = e.doc.ver
    BY <1>0, <2>2, DocumentIdMeaning
  <2>5. d.value.id = e.doc.id
    BY <1>0, <2>2, DocumentIdType
  <2>6. o.value.id = e.id /\ o.value.ver = v.value /\ o.value.doc = d.value /\ o.value.path = e.path
    BY <2>2
  <2>7. QED
    BY <2>1, <2>3, <2>4, <2>5, <2>6 DEF SaysEntry
<1>3. ASSUME o.code # "none"
      PROVE  ~SoundEntry(e)
  <2>1. SUFFICES ASSUME SoundEntry(e) PROVE FALSE
    OBVIOUS
  <2>2. PICK v \in FromString(e.ver), d \in DocumentIdFromString(e.doc) :
           v.result # "ok" \/ d.result # "ok"
    BY <1>3, <2>1, EntryRefused DEF SoundEntry
  <2>3. v.result = "ok"
    BY <2>1, ExactText DEF SoundEntry
  <2>4. d.result = "ok"
    BY <1>0, <2>1, DocumentIdMeaning DEF SoundEntry
  <2>5. QED
    BY <2>2, <2>3, <2>4
<1>4. Problems(e, o, at) = {} <=> o.code = "none" /\ ~(e.extra /\ e.shape # "other")
  BY DEF Problems
<1>5. QED
  BY <1>1, <1>2, <1>3, <1>4 DEF SoundEntry

LEMMA RuleOutcome ==
  ASSUME NEW r, NEW o \in RuleOutcomes(r), o.code = "none"
  PROVE  /\ r.shape = "strings" /\ r.kind # "unknown"
         /\ \E f \in DocumentIdFromString(r.from), t \in DocumentIdFromString(r.to) :
              /\ f.result = "ok" /\ t.result = "ok"
              /\ o.value = [from |-> f.value, to |-> t.value, kind |-> r.kind]
<1> DEFINE code(result) == IF result = "out_of_range" THEN "schema-version-out-of-range"
                           ELSE "malformed-catalog-json"
<1>1. r.shape = "strings"
  BY DEF RuleOutcomes, Reject
<1>2. PICK f \in DocumentIdFromString(r.from), t \in DocumentIdFromString(r.to) :
        o = CASE f.result # "ok" -> Reject(code(f.result))
              [] f.result = "ok" /\ t.result # "ok" -> Reject(code(t.result))
              [] f.result = "ok" /\ t.result = "ok" /\ r.kind = "unknown" ->
                   Reject("malformed-catalog-json")
              [] OTHER -> Accept([from |-> f.value, to |-> t.value, kind |-> r.kind])
  BY <1>1 DEF RuleOutcomes
<1>3. \A result : code(result) # "none"
  OBVIOUS
<1> HIDE DEF code
<1>4. f.result = "ok" /\ t.result = "ok" /\ r.kind # "unknown"
  BY <1>2, <1>3 DEF Reject
<1>5. o.value = [from |-> f.value, to |-> t.value, kind |-> r.kind]
  BY <1>2, <1>4 DEF Accept
<1>6. QED
  BY <1>1, <1>4, <1>5

LEMMA RuleRefused ==
  ASSUME NEW r, NEW o \in RuleOutcomes(r), o.code # "none",
         r.shape = "strings", r.kind # "unknown"
  PROVE  \E f \in DocumentIdFromString(r.from), t \in DocumentIdFromString(r.to) :
           f.result # "ok" \/ t.result # "ok"
<1> DEFINE code(result) == IF result = "out_of_range" THEN "schema-version-out-of-range"
                           ELSE "malformed-catalog-json"
<1>1. PICK f \in DocumentIdFromString(r.from), t \in DocumentIdFromString(r.to) :
        o = CASE f.result # "ok" -> Reject(code(f.result))
              [] f.result = "ok" /\ t.result # "ok" -> Reject(code(t.result))
              [] f.result = "ok" /\ t.result = "ok" /\ r.kind = "unknown" ->
                   Reject("malformed-catalog-json")
              [] OTHER -> Accept([from |-> f.value, to |-> t.value, kind |-> r.kind])
  BY DEF RuleOutcomes
<1> HIDE DEF code
<1>2. QED
  BY <1>1 DEF Accept

LEMMA RuleProblems ==
  ASSUME "malformed" \notin SchemaId, NEW r \in RuleNode, NEW o \in RuleOutcomes(r), NEW at,
         Typed(r.from.ver), Exact(r.from.ver), Typed(r.to.ver), Exact(r.to.ver)
  PROVE  /\ \A d \in Problems(r, o, at) : d.at = at
         /\ Problems(r, o, at) = {} <=> SoundRule(r)
         /\ Problems(r, o, at) = {} => o.code = "none" /\ SaysRule(r, o.value)
<1>0. /\ r.from \in DocText /\ r.to \in DocText /\ r.kind \in Kinds \cup {"unknown"}
      /\ r.extra \in BOOLEAN /\ "unknown" \notin Kinds
  BY DEF RuleNode, Kinds
<1>1. \A d \in Problems(r, o, at) : d.at = at
  BY DEF Problems, Diagnostic, Malformed
<1>2. ASSUME o.code = "none"
      PROVE  /\ r.shape = "strings" /\ r.kind \in Kinds /\ SoundDoc(r.from) /\ SoundDoc(r.to)
             /\ ~r.extra => SaysRule(r, o.value)
  <2>1. r.shape = "strings" /\ r.kind \in Kinds
    BY <1>0, <1>2, RuleOutcome
  <2>2. PICK f \in DocumentIdFromString(r.from), t \in DocumentIdFromString(r.to) :
          /\ f.result = "ok" /\ t.result = "ok"
          /\ o.value = [from |-> f.value, to |-> t.value, kind |-> r.kind]
    BY <1>2, RuleOutcome
  <2>3. SoundDoc(r.from) /\ VersionText(f.value.ver) = r.from.ver /\ f.value.id = r.from.id
    BY <1>0, <2>2, DocumentIdMeaning, DocumentIdType
  <2>4. SoundDoc(r.to) /\ VersionText(t.value.ver) = r.to.ver /\ t.value.id = r.to.id
    BY <1>0, <2>2, DocumentIdMeaning, DocumentIdType
  <2>5. o.value.from = f.value /\ o.value.to = t.value /\ o.value.kind = r.kind
    BY <2>2
  <2>6. QED
    BY <2>1, <2>3, <2>4, <2>5 DEF SaysRule
<1>3. ASSUME o.code # "none"
      PROVE  ~SoundRule(r)
  <2>1. SUFFICES ASSUME SoundRule(r) PROVE FALSE
    OBVIOUS
  <2>2. PICK f \in DocumentIdFromString(r.from), t \in DocumentIdFromString(r.to) :
           f.result # "ok" \/ t.result # "ok"
    BY <1>0, <1>3, <2>1, RuleRefused DEF SoundRule
  <2>3. f.result = "ok" /\ t.result = "ok"
    BY <1>0, <2>1, DocumentIdMeaning DEF SoundRule
  <2>4. QED
    BY <2>2, <2>3
<1>4. Problems(r, o, at) = {} <=> o.code = "none" /\ ~(r.extra /\ r.shape # "other")
  BY DEF Problems
<1>5. QED
  BY <1>1, <1>2, <1>3, <1>4 DEF SoundRule

\* What is kept is an entry or a rule, whatever the texts mean.
LEMMA EntryKept ==
  ASSUME NEW e \in EntryNode, NEW o \in EntryOutcomes(e), o.code = "none",
         Typed(e.ver), Typed(e.doc.ver)
  PROVE  o.value \in Entry
<1>1. PICK v \in FromString(e.ver), d \in DocumentIdFromString(e.doc) :
        /\ v.result = "ok" /\ d.result = "ok"
        /\ o.value = [id |-> e.id, ver |-> v.value, doc |-> d.value, path |-> e.path]
  BY EntryOutcome
<1>2. e.id \in SchemaId
  BY EntryOutcome
<1>3. v.value \in Versions
  BY <1>1 DEF Typed
<1>4. e.doc \in DocText /\ e.path \in Path
  BY DEF EntryNode
<1>5. d.value \in DocumentId
  BY <1>1, <1>4, DocumentIdType
<1>6. QED
  BY <1>1, <1>2, <1>3, <1>4, <1>5 DEF Entry

LEMMA RuleKept ==
  ASSUME NEW r \in RuleNode, NEW o \in RuleOutcomes(r), o.code = "none",
         Typed(r.from.ver), Typed(r.to.ver)
  PROVE  o.value \in Rule
<1>1. PICK f \in DocumentIdFromString(r.from), t \in DocumentIdFromString(r.to) :
        /\ f.result = "ok" /\ t.result = "ok"
        /\ o.value = [from |-> f.value, to |-> t.value, kind |-> r.kind]
  BY RuleOutcome
<1>2. r.kind \in Kinds
  BY RuleOutcome DEF RuleNode
<1>3. r.from \in DocText /\ r.to \in DocText
  BY DEF RuleNode
<1>4. f.value \in DocumentId /\ t.value \in DocumentId
  BY <1>1, <1>3, DocumentIdType
<1>5. QED
  BY <1>1, <1>2, <1>4 DEF Rule

-----------------------------------------------------------------------------
\* The texts of versions in an element are among those of the document.
LEMMA TextsOfElements ==
  ASSUME NEW doc
  PROVE  /\ \A k \in DOMAIN doc.entries :
              doc.entries[k].ver \in VersionTexts(doc) /\ doc.entries[k].doc.ver \in VersionTexts(doc)
         /\ \A k \in DOMAIN doc.rules :
              doc.rules[k].from.ver \in VersionTexts(doc) /\ doc.rules[k].to.ver \in VersionTexts(doc)
<1>1. ASSUME NEW k \in DOMAIN doc.entries, NEW s \in {doc.entries[k].ver, doc.entries[k].doc.ver}
      PROVE  s \in VersionTexts(doc)
  BY <1>1, Zenon DEF VersionTexts
<1>2. ASSUME NEW k \in DOMAIN doc.rules, NEW s \in {doc.rules[k].from.ver, doc.rules[k].to.ver}
      PROVE  s \in VersionTexts(doc)
  <2> DEFINE pairs == {{doc.rules[l].from.ver, doc.rules[l].to.ver} : l \in DOMAIN doc.rules}
  <2>1. {doc.rules[k].from.ver, doc.rules[k].to.ver} \in pairs
    OBVIOUS
  <2>2. UNION pairs \subseteq VersionTexts(doc)
    BY Zenon DEF VersionTexts
  <2>3. s \in UNION pairs
    <3> HIDE DEF pairs
    <3>1. QED
      BY <2>1
  <2>4. QED
    BY <2>2, <2>3
<1>3. QED
  BY <1>1, <1>2

\* The elements of a document.
LEMMA ElementsTyped ==
  ASSUME NEW doc \in Documents
  PROVE  /\ doc.entries \in Seq(EntryNode) /\ doc.rules \in Seq(RuleNode)
         /\ Len(doc.entries) \in Nat /\ DOMAIN doc.entries = 1..Len(doc.entries)
         /\ Len(doc.rules) \in Nat /\ DOMAIN doc.rules = 1..Len(doc.rules)
         /\ \A k \in DOMAIN doc.entries :
              doc.entries[k] \in EntryNode /\ Typed(doc.entries[k].ver) /\ Typed(doc.entries[k].doc.ver)
         /\ \A k \in DOMAIN doc.rules :
              doc.rules[k] \in RuleNode /\ Typed(doc.rules[k].from.ver) /\ Typed(doc.rules[k].to.ver)
<1>1. doc.entries \in Seq(EntryNode) /\ doc.rules \in Seq(RuleNode)
  BY DocumentsAssumption DEF JsonDocument
<1>2. /\ Len(doc.entries) \in Nat /\ DOMAIN doc.entries = 1..Len(doc.entries)
      /\ Len(doc.rules) \in Nat /\ DOMAIN doc.rules = 1..Len(doc.rules)
  BY <1>1, LenProperties
<1>3. \A s \in VersionTexts(doc) : Typed(s)
  BY DocumentsAssumption DEF Typed
<1>4. QED
  BY <1>1, <1>2, <1>3, TextsOfElements, ElementOfSeq

LEMMA ElementsExact ==
  ASSUME NEW doc \in Documents
  PROVE  /\ \A k \in DOMAIN doc.entries : Exact(doc.entries[k].ver) /\ Exact(doc.entries[k].doc.ver)
         /\ \A k \in DOMAIN doc.rules : Exact(doc.rules[k].from.ver) /\ Exact(doc.rules[k].to.ver)
<1>1. ASSUME NEW k \in DOMAIN doc.entries
      PROVE  Exact(doc.entries[k].ver) /\ Exact(doc.entries[k].doc.ver)
  BY ElementsTyped, TextIsExact DEF EntryNode, DocText
<1>2. ASSUME NEW k \in DOMAIN doc.rules
      PROVE  Exact(doc.rules[k].from.ver) /\ Exact(doc.rules[k].to.ver)
  BY ElementsTyped, TextIsExact DEF RuleNode, DocText
<1>3. QED
  BY <1>1, <1>2

LEMMA BuiltIsCatalog ==
  ASSUME NEW b \in Catalog, NEW c \in Build(b.entries, b.rules)
  PROVE  c \in Catalog
<1>1. b.entries \in Seq(Entry) /\ b.rules \in Seq(Rule)
  BY DEF Catalog
<1>2. PICK es \in SortedArrangements(b.entries, EntryLess),
           rs \in SortedArrangements(b.rules, RuleLess) : c = [entries |-> es, rules |-> rs]
  BY DEF Build
<1>3. es \in Seq(Entry) /\ rs \in Seq(Rule)
  BY <1>1, EntriesSorted, RulesSorted
<1>4. QED
  BY <1>2, <1>3 DEF Catalog

LEMMA AddedIsCatalog ==
  ASSUME NEW b \in Catalog
  PROVE  /\ \A e \in Entry : add_entry(b, e) \in Catalog
         /\ \A r \in Rule : add_rule(b, r) \in Catalog
<1>1. b.entries \in Seq(Entry) /\ b.rules \in Seq(Rule)
  BY DEF Catalog
<1>2. \A e \in Entry : Append(b.entries, e) \in Seq(Entry)
  BY <1>1, AppendProperties
<1>3. \A r \in Rule : Append(b.rules, r) \in Seq(Rule)
  BY <1>1, AppendProperties
<1>4. QED
  BY <1>1, <1>2, <1>3 DEF add_entry, add_rule, Catalog

LoaderTypes ==
  /\ LoaderTypeOK /\ root \in Documents
  /\ pc \in {"entry", "rule"} => element >= 1
  /\ pc # "done" => loaded = <<>>
  /\ CatalogOrDiagnostics

LEMMA LoaderTypesStep ==
  ASSUME LoaderTypes, LoaderNext
  PROVE  LoaderTypes'
<1> USE DEF LoaderTypes, LoaderTypeOK, CatalogOrDiagnostics
<1>1. CASE ReadRoot
  BY <1>1 DEF ReadRoot, Report
<1>2. CASE ReadHeader
  BY <1>2 DEF ReadHeader, Report
<1>3. CASE OpenEntries
  BY <1>3 DEF OpenEntries, Report
<1>4. CASE ReadEntry
  <2>1. PICK o \in EntryOutcomes(root.entries[element]) :
          builder' = IF o.code = "none" THEN add_entry(builder, o.value) ELSE builder
    BY <1>4 DEF ReadEntry
  <2>2. element \in DOMAIN root.entries
    BY <1>4, ElementsTyped DEF ReadEntry
  <2>3. o.code = "none" => o.value \in Entry
    BY <2>2, ElementsTyped, EntryKept
  <2>4. builder' \in Catalog
    BY <2>1, <2>3, AddedIsCatalog
  <2>5. QED
    BY <1>4, <2>4 DEF ReadEntry
<1>5. CASE OpenRules
  BY <1>5 DEF OpenRules, Report
<1>6. CASE ReadRule
  <2>1. PICK o \in RuleOutcomes(root.rules[element]) :
          builder' = IF o.code = "none" THEN add_rule(builder, o.value) ELSE builder
    BY <1>6 DEF ReadRule
  <2>2. element \in DOMAIN root.rules
    BY <1>6, ElementsTyped DEF ReadRule
  <2>3. o.code = "none" => o.value \in Rule
    BY <2>2, ElementsTyped, RuleKept
  <2>4. builder' \in Catalog
    BY <2>1, <2>3, AddedIsCatalog
  <2>5. QED
    BY <1>6, <2>4 DEF ReadRule
<1>7. CASE FinishLoad
  <2>1. CASE diagnostics = {}
    <3>1. PICK c \in Build(builder.entries, builder.rules) : loaded' = <<c>>
      BY <1>7, <2>1 DEF FinishLoad
    <3>2. c \in Catalog
      BY BuiltIsCatalog
    <3>3. Len(loaded') = 1 /\ loaded'[1] = c /\ loaded' # <<>>
      BY <3>1
    <3>4. QED
      BY <1>7, <2>1, <3>2, <3>3 DEF FinishLoad
  <2>2. CASE diagnostics # {}
    BY <1>7, <2>2 DEF FinishLoad
  <2>3. QED
    BY <2>1, <2>2
<1>8. QED
  BY <1>1, <1>2, <1>3, <1>4, <1>5, <1>6, <1>7 DEF LoaderNext

LEMMA LoaderTypesInit ==
  ASSUME LoaderInit PROVE LoaderTypes
<1>1. builder \in Catalog
  BY EmptySeq DEF LoaderInit, Catalog
<1>2. QED
  BY <1>1, DocumentsAssumption DEF LoaderInit, LoaderTypes, LoaderTypeOK, CatalogOrDiagnostics

LEMMA LoaderTypesStutter ==
  ASSUME LoaderTypes, UNCHANGED loader PROVE LoaderTypes'
  BY DEF loader, LoaderTypes, LoaderTypeOK, CatalogOrDiagnostics

\* The loader returns a catalog or diagnostics, never both and never neither,
\* whatever the document and the parser of versions (SchemaCatalog::from_json).
THEOREM CatalogOrDiagnosticsHolds == LoaderSpec => [](LoaderTypeOK /\ CatalogOrDiagnostics)
<1>1. LoaderInit => LoaderTypes
  BY LoaderTypesInit
<1>2. LoaderTypes /\ [LoaderNext]_loader => LoaderTypes'
  BY LoaderTypesStep, LoaderTypesStutter
<1>3. LoaderTypes => LoaderTypeOK /\ CatalogOrDiagnostics
  BY DEF LoaderTypes
<1>4. QED
  BY <1>1, <1>2, <1>3, PTL DEF LoaderSpec

-----------------------------------------------------------------------------
(***************************************************************************)
(* How far a document has been read: of its first n entries and m rules    *)
(* the faulty ones, and only they, have been reported, and as long as      *)
(* nothing has been reported the builder holds what they say, in order.    *)
(***************************************************************************)
FaultyIn(D, at) == \E d \in D : d.at = at

ReportedTo(doc, D, n, m) ==
  /\ \A k \in DOMAIN doc.entries :
       FaultyIn(D, At("entry", k)) <=> k <= n /\ ~SoundEntry(doc.entries[k])
  /\ \A k \in DOMAIN doc.rules :
       FaultyIn(D, At("rule", k)) <=> k <= m /\ ~SoundRule(doc.rules[k])

KeptTo(doc, b, n, m) ==
  /\ Len(b.entries) = n /\ \A k \in 1..n : SaysEntry(doc.entries[k], b.entries[k])
  /\ Len(b.rules) = m   /\ \A k \in 1..m : SaysRule(doc.rules[k], b.rules[k])

ReadTo(doc, D, b, n, m) ==
  ReportedTo(doc, D, n, m) /\ (D = {} => KeptTo(doc, b, n, m))

LEMMA Positions ==
  ASSUME NEW p, NEW q, NEW k, NEW l
  PROVE  At(p, k) = At(q, l) <=> p = q /\ k = l
  BY DEF At

LEMMA FaultyUnion ==
  ASSUME NEW D, NEW P, NEW at, \A d \in P : d.at = at, NEW x
  PROVE  FaultyIn(D \cup P, x) <=> FaultyIn(D, x) \/ (x = at /\ P # {})
  BY DEF FaultyIn

LEMMA NothingRead ==
  ASSUME NEW doc \in Documents
  PROVE  ReadTo(doc, {}, [entries |-> <<>>, rules |-> <<>>], 0, 0)
<1>1. ReportedTo(doc, {}, 0, 0)
  BY ElementsTyped DEF ReportedTo, FaultyIn
<1>2. KeptTo(doc, [entries |-> <<>>, rules |-> <<>>], 0, 0)
  BY EmptySeq DEF KeptTo
<1>3. QED
  BY <1>1, <1>2 DEF ReadTo

\* Appending keeps what was kept and adds what was said last.
LEMMA KeptEntry ==
  ASSUME NEW doc, NEW b \in Catalog, NEW n \in Nat, NEW m, KeptTo(doc, b, n, m),
         NEW e \in Entry, SaysEntry(doc.entries[n + 1], e)
  PROVE  KeptTo(doc, add_entry(b, e), n + 1, m)
<1>1. b.entries \in Seq(Entry) /\ Len(b.entries) = n
  BY DEF Catalog, KeptTo
<1>2. /\ Len(Append(b.entries, e)) = n + 1 /\ Append(b.entries, e)[n + 1] = e
      /\ \A k \in 1..n : Append(b.entries, e)[k] = b.entries[k]
  BY <1>1, AppendProperties
<1>3. \A k \in 1..(n + 1) : SaysEntry(doc.entries[k], Append(b.entries, e)[k])
  <2>1. SUFFICES ASSUME NEW k \in 1..(n + 1)
                 PROVE  SaysEntry(doc.entries[k], Append(b.entries, e)[k])
    OBVIOUS
  <2>2. CASE k = n + 1
    BY <1>2, <2>2
  <2>3. CASE k \in 1..n
    BY <1>2, <2>3 DEF KeptTo
  <2>4. k = n + 1 \/ k \in 1..n
    OBVIOUS
  <2>5. QED
    BY <2>2, <2>3, <2>4
<1>4. add_entry(b, e).entries = Append(b.entries, e) /\ add_entry(b, e).rules = b.rules
  BY DEF add_entry
<1>5. QED
  BY <1>2, <1>3, <1>4 DEF KeptTo

LEMMA KeptRule ==
  ASSUME NEW doc, NEW b \in Catalog, NEW n, NEW m \in Nat, KeptTo(doc, b, n, m),
         NEW r \in Rule, SaysRule(doc.rules[m + 1], r)
  PROVE  KeptTo(doc, add_rule(b, r), n, m + 1)
<1>1. b.rules \in Seq(Rule) /\ Len(b.rules) = m
  BY DEF Catalog, KeptTo
<1>2. /\ Len(Append(b.rules, r)) = m + 1 /\ Append(b.rules, r)[m + 1] = r
      /\ \A k \in 1..m : Append(b.rules, r)[k] = b.rules[k]
  BY <1>1, AppendProperties
<1>3. \A k \in 1..(m + 1) : SaysRule(doc.rules[k], Append(b.rules, r)[k])
  <2>1. SUFFICES ASSUME NEW k \in 1..(m + 1)
                 PROVE  SaysRule(doc.rules[k], Append(b.rules, r)[k])
    OBVIOUS
  <2>2. CASE k = m + 1
    BY <1>2, <2>2
  <2>3. CASE k \in 1..m
    BY <1>2, <2>3 DEF KeptTo
  <2>4. k = m + 1 \/ k \in 1..m
    OBVIOUS
  <2>5. QED
    BY <2>2, <2>3, <2>4
<1>4. add_rule(b, r).entries = b.entries /\ add_rule(b, r).rules = Append(b.rules, r)
  BY DEF add_rule
<1>5. QED
  BY <1>2, <1>3, <1>4 DEF KeptTo

\* One turn of each loop.
LEMMA EntryRead ==
  ASSUME NEW doc \in Documents, NEW D, NEW b \in Catalog,
         NEW n \in Nat, n + 1 \in DOMAIN doc.entries, ReadTo(doc, D, b, n, 0),
         NEW o \in EntryOutcomes(doc.entries[n + 1])
  PROVE  ReadTo(doc, D \cup Problems(doc.entries[n + 1], o, At("entry", n + 1)),
                IF o.code = "none" THEN add_entry(b, o.value) ELSE b, n + 1, 0)
<1> DEFINE e == doc.entries[n + 1]
           at == At("entry", n + 1)
           P == Problems(e, o, at)
<1>1. /\ e \in EntryNode /\ Typed(e.ver) /\ Exact(e.ver) /\ Typed(e.doc.ver) /\ Exact(e.doc.ver)
  BY ElementsTyped, ElementsExact
<1>2. /\ \A d \in P : d.at = at
      /\ P = {} <=> SoundEntry(e)
      /\ P = {} => o.code = "none" /\ SaysEntry(e, o.value)
  BY <1>1, EntryProblems, DocumentsAssumption
<1>3. o.code = "none" => o.value \in Entry
  BY <1>1, EntryKept
<1> HIDE DEF P, at
<1>4. \A x : FaultyIn(D \cup P, x) <=> FaultyIn(D, x) \/ (x = at /\ P # {})
  BY <1>2, FaultyUnion
<1>5. ASSUME NEW k \in DOMAIN doc.entries
      PROVE  FaultyIn(D \cup P, At("entry", k)) <=> k <= n + 1 /\ ~SoundEntry(doc.entries[k])
  <2>1. k \in Nat
    BY ElementsTyped
  <2>2. FaultyIn(D, At("entry", k)) <=> k <= n /\ ~SoundEntry(doc.entries[k])
    BY DEF ReadTo, ReportedTo
  <2>3. At("entry", k) = at <=> k = n + 1
    BY Positions DEF at
  <2>4. FaultyIn(D \cup P, At("entry", k)) <=>
          (k <= n \/ k = n + 1) /\ ~SoundEntry(doc.entries[k])
    BY <1>2, <1>4, <2>2, <2>3, Zenon
  <2>5. k <= n + 1 <=> k <= n \/ k = n + 1
    BY <2>1
  <2>6. QED
    BY <2>4, <2>5, Zenon
<1>6. ASSUME NEW k \in DOMAIN doc.rules
      PROVE  FaultyIn(D \cup P, At("rule", k)) <=> k <= 0 /\ ~SoundRule(doc.rules[k])
  <2>1. At("rule", k) # at
    BY Positions DEF at
  <2>2. QED
    BY <1>4, <2>1 DEF ReadTo, ReportedTo
<1>7. ReportedTo(doc, D \cup P, n + 1, 0)
  BY <1>5, <1>6 DEF ReportedTo
<1>8. ASSUME D \cup P = {}
      PROVE  KeptTo(doc, IF o.code = "none" THEN add_entry(b, o.value) ELSE b, n + 1, 0)
  <2>1. o.code = "none" /\ SaysEntry(e, o.value) /\ KeptTo(doc, b, n, 0)
    BY <1>2, <1>8 DEF ReadTo
  <2>2. QED
    BY <1>3, <2>1, KeptEntry
<1>9. QED
  BY <1>7, <1>8 DEF ReadTo, P, at

LEMMA RuleRead ==
  ASSUME NEW doc \in Documents, NEW D, NEW b \in Catalog, NEW n,
         NEW m \in Nat, m + 1 \in DOMAIN doc.rules, ReadTo(doc, D, b, n, m),
         NEW o \in RuleOutcomes(doc.rules[m + 1])
  PROVE  ReadTo(doc, D \cup Problems(doc.rules[m + 1], o, At("rule", m + 1)),
                IF o.code = "none" THEN add_rule(b, o.value) ELSE b, n, m + 1)
<1> DEFINE r == doc.rules[m + 1]
           at == At("rule", m + 1)
           P == Problems(r, o, at)
<1>1. /\ r \in RuleNode /\ Typed(r.from.ver) /\ Exact(r.from.ver)
      /\ Typed(r.to.ver) /\ Exact(r.to.ver)
  BY ElementsTyped, ElementsExact
<1>2. /\ \A d \in P : d.at = at
      /\ P = {} <=> SoundRule(r)
      /\ P = {} => o.code = "none" /\ SaysRule(r, o.value)
  BY <1>1, RuleProblems, DocumentsAssumption
<1>3. o.code = "none" => o.value \in Rule
  BY <1>1, RuleKept
<1> HIDE DEF P, at
<1>4. \A x : FaultyIn(D \cup P, x) <=> FaultyIn(D, x) \/ (x = at /\ P # {})
  BY <1>2, FaultyUnion
<1>5. ASSUME NEW k \in DOMAIN doc.rules
      PROVE  FaultyIn(D \cup P, At("rule", k)) <=> k <= m + 1 /\ ~SoundRule(doc.rules[k])
  <2>1. k \in Nat
    BY ElementsTyped
  <2>2. FaultyIn(D, At("rule", k)) <=> k <= m /\ ~SoundRule(doc.rules[k])
    BY DEF ReadTo, ReportedTo
  <2>3. At("rule", k) = at <=> k = m + 1
    BY Positions DEF at
  <2>4. FaultyIn(D \cup P, At("rule", k)) <=>
          (k <= m \/ k = m + 1) /\ ~SoundRule(doc.rules[k])
    BY <1>2, <1>4, <2>2, <2>3, Zenon
  <2>5. k <= m + 1 <=> k <= m \/ k = m + 1
    BY <2>1
  <2>6. QED
    BY <2>4, <2>5, Zenon
<1>6. ASSUME NEW k \in DOMAIN doc.entries
      PROVE  FaultyIn(D \cup P, At("entry", k)) <=> k <= n /\ ~SoundEntry(doc.entries[k])
  <2>1. At("entry", k) # at
    BY Positions DEF at
  <2>2. QED
    BY <1>4, <2>1 DEF ReadTo, ReportedTo
<1>7. ReportedTo(doc, D \cup P, n, m + 1)
  BY <1>5, <1>6 DEF ReportedTo
<1>8. ASSUME D \cup P = {}
      PROVE  KeptTo(doc, IF o.code = "none" THEN add_rule(b, o.value) ELSE b, n, m + 1)
  <2>1. o.code = "none" /\ SaysRule(r, o.value) /\ KeptTo(doc, b, n, m)
    BY <1>2, <1>8 DEF ReadTo
  <2>2. QED
    BY <1>3, <2>1, KeptRule
<1>9. QED
  BY <1>7, <1>8 DEF ReadTo, P, at

\* A problem of neither an entry nor a rule, here of the array of rules.
LEMMA RulesRefused ==
  ASSUME NEW doc, NEW D, NEW b, NEW n, NEW m, ReadTo(doc, D, b, n, m)
  PROVE  /\ ReadTo(doc, D \cup {Malformed(At("rules", 0))}, b, n, m)
         /\ D \cup {Malformed(At("rules", 0))} # {}
<1> DEFINE P == {Malformed(At("rules", 0))}
<1>1. \A d \in P : d.at = At("rules", 0)
  BY DEF Malformed, Diagnostic
<1>2. P # {}
  OBVIOUS
<1> HIDE DEF P
<1>3. \A x : FaultyIn(D \cup P, x) <=> FaultyIn(D, x) \/ (x = At("rules", 0) /\ P # {})
  BY <1>1, FaultyUnion
<1>4. \A k : At("entry", k) # At("rules", 0) /\ At("rule", k) # At("rules", 0)
  BY Positions
<1>5. ReportedTo(doc, D \cup P, n, m)
  BY <1>3, <1>4 DEF ReadTo, ReportedTo
<1>6. D \cup P # {}
  BY <1>2
<1>7. QED
  BY <1>5, <1>6 DEF ReadTo, P

-----------------------------------------------------------------------------
\* The rules a document lists.
Listed(doc) == IF doc.rulesKind = "array" THEN doc.rules ELSE <<>>

ReadFully ==
  /\ root.root = "object" /\ HeaderProblems = {}
  /\ ReadTo(root, diagnostics, builder, Len(root.entries), Len(Listed(root)))

\* What is known of the document and of the builder at each stage.
HowFar ==
  /\ pc \in {"root", "header", "entries"} =>
       diagnostics = {} /\ builder = [entries |-> <<>>, rules |-> <<>>]
  /\ pc \in {"header", "entries", "entry", "rule", "build"} => root.root = "object"
  /\ pc \in {"entries", "entry", "rule", "build"} => HeaderProblems = {}
  /\ pc = "entry" =>
       /\ element - 1 \in 0..Len(root.entries)
       /\ ReadTo(root, diagnostics, builder, element - 1, 0)
  /\ pc = "rule" =>
       /\ root.rulesKind = "array" /\ element - 1 \in 0..Len(root.rules)
       /\ ReadTo(root, diagnostics, builder, Len(root.entries), element - 1)
  /\ pc = "build" => root.rulesKind # "array" /\ ReadFully
  /\ pc = "done" => Faulty(Header) \/ Faulty(At("entries", 0)) \/ ReadFully
  /\ loaded # <<>> =>
       pc = "done" /\ diagnostics = {} /\ loaded[1] \in Build(builder.entries, builder.rules)

LoaderInv == LoaderTypes /\ HowFar

LEMMA MalformedIsFault ==
  ASSUME NEW D, NEW at
  PROVE  FaultyIn(D \cup {Malformed(at)}, at)
<1>1. Malformed(at).at = at /\ Malformed(at) \in D \cup {Malformed(at)}
  BY DEF Malformed, Diagnostic
<1>2. QED
  BY <1>1, Zenon DEF FaultyIn

LEMMA HeaderIsReported ==
  ASSUME HeaderProblems # {}, NEW D
  PROVE  FaultyIn(D \cup HeaderProblems, Header)
<1>1. \A d \in FormatProblems : d.at = Header
  BY DEF FormatProblems, Malformed, Diagnostic
<1>2. \A d \in HeaderProblems : d.at = Header
  BY <1>1 DEF HeaderProblems, Malformed, Diagnostic
<1>3. QED
  BY <1>2 DEF FaultyIn

LEMMA SoundHeader ==
  ASSUME HeaderProblems = {}
  PROVE  root.binding = "exact" /\ ~root.extra
<1> DEFINE A == IF root.extra THEN {Malformed(Header)} ELSE {}
           B == IF root.binding = "exact" THEN {} ELSE {Malformed(Header)}
           C == FormatProblems
<1>1. UNION {A, B, C} = {}
  BY DEF HeaderProblems
<1>2. A = {} /\ B = {}
  <2> HIDE DEF A, B, C
  <2>1. A \subseteq UNION {A, B, C} /\ B \subseteq UNION {A, B, C}
    OBVIOUS
  <2>2. QED
    BY <1>1, <2>1
<1>3. QED
  BY <1>2

LEMMA HowFarStep ==
  ASSUME LoaderInv, LoaderNext
  PROVE  HowFar'
<1> USE DEF LoaderInv, LoaderTypes
<1>0. root' = root /\ (pc # "done" => loaded = <<>>)
  BY DEF LoaderNext, ReadRoot, ReadHeader, OpenEntries, ReadEntry, OpenRules, ReadRule, FinishLoad
<1>H. HeaderProblems' = HeaderProblems
  BY <1>0 DEF HeaderProblems, FormatProblems
<1>1. CASE ReadRoot
  <2>1. root.root # "object" => Faulty(Header)'
    BY <1>1, MalformedIsFault DEF ReadRoot, Report, Faulty, FaultyIn
  <2>2. QED
    BY <1>0, <1>1, <2>1 DEF ReadRoot, Report, HowFar
<1>2. CASE ReadHeader
  <2>1. HeaderProblems # {} => Faulty(Header)'
    BY <1>2, HeaderIsReported DEF ReadHeader, Report, Faulty, FaultyIn
  <2>2. QED
    BY <1>0, <1>H, <1>2, <2>1 DEF ReadHeader, Report, HowFar
<1>3. CASE OpenEntries
  <2>1. pc' = "done" => Faulty(At("entries", 0))'
    BY <1>3, MalformedIsFault DEF OpenEntries, Report, Faulty, FaultyIn
  <2>2. pc' = "entry" => diagnostics' = {} /\ builder' = [entries |-> <<>>, rules |-> <<>>] /\ element' = 1
    BY <1>3 DEF OpenEntries, Report, HowFar
  <2>3. pc' = "entry" => ReadTo(root', diagnostics', builder', element' - 1, 0)
    <3>1. ReadTo(root, {}, [entries |-> <<>>, rules |-> <<>>], 0, 0) /\ 1 - 1 = 0
      BY NothingRead
    <3>2. QED
      BY <1>0, <2>2, <3>1
  <2>4. element' - 1 = 0 /\ 0 \in 0..Len(root.entries)
    BY <1>3, ElementsTyped DEF OpenEntries
  <2>5. QED
    BY <1>0, <1>H, <1>3, <2>1, <2>3, <2>4 DEF OpenEntries, HowFar
<1>4. CASE ReadEntry
  <2>1. PICK o \in EntryOutcomes(root.entries[element]) :
          /\ diagnostics' = diagnostics \cup Problems(root.entries[element], o, At("entry", element))
          /\ builder' = IF o.code = "none" THEN add_entry(builder, o.value) ELSE builder
    BY <1>4 DEF ReadEntry, Report
  <2>2. PICK n \in Nat : element = n + 1
    BY <1>4 DEF ReadEntry, LoaderTypeOK
  <2>3. n + 1 \in DOMAIN root.entries
    BY <1>4, <2>2, ElementsTyped DEF ReadEntry
  <2>4. ReadTo(root, diagnostics, builder, n, 0)
    BY <1>4, <2>2 DEF ReadEntry, HowFar
  <2>5. ReadTo(root, diagnostics', builder', n + 1, 0)
    BY <2>1, <2>2, <2>3, <2>4, EntryRead DEF LoaderTypeOK
  <2>6. element' - 1 = n + 1 /\ n + 1 \in 0..Len(root.entries)
    BY <1>4, <2>2, <2>3, ElementsTyped DEF ReadEntry
  <2>7. QED
    BY <1>0, <1>H, <1>4, <2>5, <2>6 DEF ReadEntry, HowFar
<1>5. CASE OpenRules
  <2>1. element - 1 = Len(root.entries)
    BY <1>5, ElementsTyped DEF OpenRules, HowFar, LoaderTypeOK
  <2>2. ReadTo(root, diagnostics, builder, Len(root.entries), 0)
    BY <1>5, <2>1 DEF OpenRules, HowFar
  <2>3. ReadTo(root, diagnostics', builder, Len(root.entries), 0)
    <3>1. CASE root.rulesKind = "other"
      BY <1>5, <2>2, <3>1, RulesRefused DEF OpenRules, Report
    <3>2. CASE root.rulesKind # "other"
      <4>1. diagnostics' = diagnostics
        BY <1>5, <3>2 DEF OpenRules, Report
      <4>2. QED
        BY <2>2, <4>1
    <3>3. QED
      BY <3>1, <3>2
  <2>4. element' - 1 = 0 /\ 0 \in 0..Len(root.rules)
    BY <1>5, ElementsTyped DEF OpenRules
  <2>5. root.rulesKind # "array" => Len(Listed(root)) = 0
    BY EmptySeq DEF Listed
  <2>6. QED
    BY <1>0, <1>H, <1>5, <2>3, <2>4, <2>5 DEF OpenRules, HowFar, ReadFully
<1>6. CASE ReadRule
  <2>1. PICK o \in RuleOutcomes(root.rules[element]) :
          /\ diagnostics' = diagnostics \cup Problems(root.rules[element], o, At("rule", element))
          /\ builder' = IF o.code = "none" THEN add_rule(builder, o.value) ELSE builder
    BY <1>6 DEF ReadRule, Report
  <2>2. PICK m \in Nat : element = m + 1
    BY <1>6 DEF ReadRule, LoaderTypeOK
  <2>3. m + 1 \in DOMAIN root.rules
    BY <1>6, <2>2, ElementsTyped DEF ReadRule
  <2>4. ReadTo(root, diagnostics, builder, Len(root.entries), m)
    BY <1>6, <2>2 DEF ReadRule, HowFar
  <2>5. ReadTo(root, diagnostics', builder', Len(root.entries), m + 1)
    BY <2>1, <2>2, <2>3, <2>4, RuleRead DEF LoaderTypeOK
  <2>6. element' - 1 = m + 1 /\ m + 1 \in 0..Len(root.rules)
    BY <1>6, <2>2, <2>3, ElementsTyped DEF ReadRule
  <2>7. QED
    BY <1>0, <1>H, <1>6, <2>5, <2>6 DEF ReadRule, HowFar
<1>7. CASE FinishLoad
  <2>1. ReadFully
    <3>1. CASE pc = "build"
      BY <3>1 DEF HowFar
    <3>2. CASE pc = "rule" /\ element > Len(root.rules)
      <4>1. root.rulesKind = "array" /\ element - 1 = Len(root.rules)
        BY <3>2, ElementsTyped DEF HowFar, LoaderTypeOK
      <4>2. Listed(root) = root.rules
        BY <4>1 DEF Listed
      <4>3. QED
        BY <3>2, <4>1, <4>2 DEF HowFar, ReadFully
    <3>3. QED
      BY <1>7, <3>1, <3>2 DEF FinishLoad
  <2>2. ReadFully'
    BY <1>0, <1>H, <1>7, <2>1 DEF FinishLoad, ReadFully
  <2>3. loaded' # <<>> => diagnostics = {} /\ loaded'[1] \in Build(builder.entries, builder.rules)
    BY <1>7, <1>0 DEF FinishLoad
  <2>4. QED
    BY <1>0, <1>H, <1>7, <2>2, <2>3 DEF FinishLoad, HowFar
<1>8. QED
  BY <1>1, <1>2, <1>3, <1>4, <1>5, <1>6, <1>7 DEF LoaderNext

LEMMA LoaderInvHolds == LoaderSpec => []LoaderInv
<1>1. LoaderInit => LoaderInv
  BY LoaderTypesInit DEF LoaderInit, LoaderInv, HowFar
<1>2. LoaderInv /\ [LoaderNext]_loader => LoaderInv'
  <2>1. ASSUME LoaderInv, UNCHANGED loader PROVE LoaderInv'
    <3>1. LoaderTypes'
      BY <2>1, LoaderTypesStutter DEF LoaderInv
    <3>2. HeaderProblems' = HeaderProblems
      BY <2>1 DEF loader, HeaderProblems, FormatProblems
    <3>3. HowFar'
      BY <2>1, <3>2 DEF loader, LoaderInv, HowFar, ReadFully, Faulty
    <3>4. QED
      BY <3>1, <3>3 DEF LoaderInv
  <2>2. ASSUME LoaderInv, LoaderNext PROVE LoaderInv'
    BY <2>2, LoaderTypesStep, HowFarStep DEF LoaderInv
  <2>3. QED
    BY <2>1, <2>2
<1>3. QED
  BY <1>1, <1>2, PTL DEF LoaderSpec

\* One pass reports every faulty entry and rule and no other, whatever the
\* document (the continue statements of SchemaCatalog::from_json).
THEOREM EveryFaultIsReportedHolds == LoaderSpec => []EveryFaultIsReported
<1>1. LoaderInv => EveryFaultIsReported
  <2>1. SUFFICES ASSUME LoaderInv, pc = "done", ~Faulty(Header), ~Faulty(At("entries", 0))
                 PROVE  /\ \A k \in DOMAIN root.entries :
                             Faulty(At("entry", k)) <=> ~SoundEntry(root.entries[k])
                        /\ root.rulesKind = "array" =>
                             \A k \in DOMAIN root.rules :
                               Faulty(At("rule", k)) <=> ~SoundRule(root.rules[k])
    BY DEF EveryFaultIsReported
  <2>2. ReadFully
    BY <2>1 DEF LoaderInv, HowFar
  <2>3. root \in Documents
    BY <2>1 DEF LoaderInv, LoaderTypes
  <2>4. \A at : Faulty(at) <=> FaultyIn(diagnostics, at)
    BY DEF Faulty, FaultyIn
  <2>5. \A k \in DOMAIN root.entries : k <= Len(root.entries)
    BY <2>3, ElementsTyped
  <2>6. \A k \in DOMAIN root.rules : root.rulesKind = "array" => k <= Len(Listed(root))
    BY <2>3, ElementsTyped DEF Listed
  <2>7. QED
    BY <2>2, <2>4, <2>5, <2>6 DEF ReadFully, ReadTo, ReportedTo
<1>2. QED
  BY <1>1, LoaderInvHolds, PTL

-----------------------------------------------------------------------------
\* What std::sort leaves has the elements of what it was given.
SameElements(s, t, n) ==
  /\ DOMAIN t = 1..n
  /\ \A i \in 1..n : \E k \in 1..n : t[i] = s[k]
  /\ \A k \in 1..n : \E i \in 1..n : t[i] = s[k]

LEMMA ArrangedSameElements ==
  ASSUME NEW n \in Nat, NEW s, NEW t, NEW p, Arranges(n, s, p, t)
  PROVE  SameElements(s, t, n)
<1>1. \A k \in 1..n : \E i \in 1..n : p[i] = k
  BY PermutationsReachAll DEF Arranges
<1>2. \A i \in 1..n : p[i] \in 1..n /\ t[i] = s[p[i]]
  BY DEF Arranges
<1>3. ASSUME NEW k \in 1..n PROVE \E i \in 1..n : t[i] = s[k]
  <2>1. PICK i \in 1..n : p[i] = k
    BY <1>1
  <2>2. t[i] = s[k]
    BY <1>2, <2>1
  <2>3. QED
    BY <2>2
<1>4. \A i \in 1..n : \E k \in 1..n : t[i] = s[k]
  BY <1>2, Zenon
<1>5. QED
  BY <1>3, <1>4, Zenon DEF Arranges, SameElements

LEMMA BuiltSameElements ==
  ASSUME NEW b \in Catalog, NEW c \in Build(b.entries, b.rules)
  PROVE  /\ SameElements(b.entries, c.entries, Len(b.entries))
         /\ SameElements(b.rules, c.rules, Len(b.rules))
         /\ Len(c.entries) = Len(b.entries) /\ Len(c.rules) = Len(b.rules)
<1> DEFINE n == Len(b.entries)
           m == Len(b.rules)
<1>1. b.entries \in Seq(Entry) /\ b.rules \in Seq(Rule)
  BY DEF Catalog
<1>2. /\ n \in Nat /\ DOMAIN b.entries = 1..n
      /\ m \in Nat /\ DOMAIN b.rules = 1..m
  BY <1>1, LenProperties
<1>3. /\ c.entries \in SortedArrangements(b.entries, EntryLess)
      /\ c.rules \in SortedArrangements(b.rules, RuleLess)
  BY DEF Build
<1>4. Len(c.entries) = n /\ Len(c.rules) = m
  BY <1>1, <1>3, EntriesSorted, RulesSorted
<1> HIDE DEF n, m
<1>5. PICK p \in [1..n -> 1..n] :
        /\ \A i, j \in 1..n : i # j => p[i] # p[j]
        /\ c.entries = [i \in 1..n |-> b.entries[p[i]]]
        /\ \A i, j \in 1..n : i < j => ~EntryLess(b.entries[p[j]], b.entries[p[i]])
  BY <1>2, <1>3 DEF SortedArrangements
<1>6. PICK q \in [1..m -> 1..m] :
        /\ \A i, j \in 1..m : i # j => q[i] # q[j]
        /\ c.rules = [i \in 1..m |-> b.rules[q[i]]]
        /\ \A i, j \in 1..m : i < j => ~RuleLess(b.rules[q[j]], b.rules[q[i]])
  BY <1>2, <1>3 DEF SortedArrangements
<1>7. Arranges(n, b.entries, p, c.entries)
  BY <1>5 DEF Arranges
<1>8. Arranges(m, b.rules, q, c.rules)
  BY <1>6 DEF Arranges
<1>9. QED
  BY <1>2, <1>4, <1>7, <1>8, ArrangedSameElements DEF n, m

-----------------------------------------------------------------------------
(***************************************************************************)
(* A later catalog has all elements of an earlier one, since the builder   *)
(* keeps what was added; and in a valid catalog an element is the only one *)
(* of its key.                                                             *)
(***************************************************************************)
Among(s, t) == \A i \in DOMAIN s : \E k \in DOMAIN t : t[k] = s[i]

\* The catalog has nothing that was not added.
AddedOnly == Among(built.entries, entries) /\ Among(built.rules, rules)

\* What is found among some entries is found among more, the same entry.
LEMMA FoundAmong ==
  ASSUME NEW c \in Catalog, NEW d \in Catalog, Valid(d), Among(c.entries, d.entries),
         NEW id, NEW ver, LookupSchema(c.entries, id, ver).found
  PROVE  LookupSchema(d.entries, id, ver) = LookupSchema(c.entries, id, ver)
<1> DEFINE Matches(es) == {i \in DOMAIN es : es[i].id = id /\ es[i].ver = ver}
           First(es) == CHOOSE i \in Matches(es) : \A j \in Matches(es) : i <= j
<1>1. /\ c.entries \in Seq(Entry) /\ d.entries \in Seq(Entry)
      /\ DOMAIN c.entries \subseteq Nat /\ DOMAIN d.entries \subseteq Nat
  BY LenProperties DEF Catalog
<1>2. Matches(c.entries) # {}
  BY <1>1, LookupAnswers
<1>3. ASSUME NEW es, DOMAIN es \subseteq Nat, Matches(es) # {}
      PROVE  First(es) \in Matches(es) /\ LookupSchema(es, id, ver) = Found(es[First(es)])
  <2>1. Matches(es) \in SUBSET Nat
    BY <1>3
  <2>2. \E i \in Matches(es) : \A j \in Matches(es) : i <= j
    BY <1>3, <2>1, FirstExists
  <2>3. LookupSchema(es, id, ver) = Found(es[First(es)])
    BY <1>3 DEF LookupSchema
  <2>4. QED
    BY <2>2, <2>3
<1>4. First(c.entries) \in Matches(c.entries)
  BY <1>1, <1>2, <1>3
<1>5. PICK k \in DOMAIN d.entries : d.entries[k] = c.entries[First(c.entries)]
  BY <1>4 DEF Among
<1>6. k \in Matches(d.entries)
  BY <1>4, <1>5
<1>7. First(d.entries) \in Matches(d.entries)
  BY <1>1, <1>3, <1>6
<1>8. First(d.entries) = k
  <2>1. \A i, j \in Matches(d.entries) : ~(i < j)
    BY ValidKeysDiffer
  <2>2. Matches(d.entries) \subseteq Nat
    BY <1>1
  <2> HIDE DEF Matches, First
  <2>3. QED
    BY <1>6, <1>7, <2>1, <2>2
<1>9. /\ LookupSchema(c.entries, id, ver) = Found(c.entries[First(c.entries)])
      /\ LookupSchema(d.entries, id, ver) = Found(d.entries[First(d.entries)])
  BY <1>1, <1>2, <1>3, <1>6
<1> HIDE DEF Matches, First
<1>10. QED
  BY <1>5, <1>8, <1>9

\* A pair that is answered in one valid catalog is answered in every one with
\* more in it, in the same way.
LEMMA AnsweredAmong ==
  ASSUME NEW c \in Catalog, NEW d \in Catalog, Valid(c), Valid(d),
         Among(c.entries, d.entries), Among(c.rules, d.rules),
         NEW id, NEW from, NEW to, SchemaCompatibility(c, id, from, to).value # "unsupported"
  PROVE  SchemaCompatibility(d, id, from, to) = SchemaCompatibility(c, id, from, to)
<1>1. LookupSchema(c.entries, id, from).found /\ LookupSchema(c.entries, id, to).found
  BY Zenon DEF SchemaCompatibility, Answer
<1>2. LookupSchema(d.entries, id, from).found /\ LookupSchema(d.entries, id, to).found
  BY <1>1, FoundAmong
<1>3. CASE from = to
  BY <1>1, <1>2, <1>3, Zenon DEF SchemaCompatibility
<1>4. CASE from # to
  <2>1. PICK i \in DOMAIN c.rules : /\ c.rules[i].from = [id |-> id, ver |-> from]
                                    /\ c.rules[i].to = [id |-> id, ver |-> to]
    BY <1>1, <1>4, Zenon DEF SchemaCompatibility, Answer
  <2>2. PICK k \in DOMAIN c.rules :
          /\ c.rules[k].from = c.rules[i].from /\ c.rules[k].to = c.rules[i].to
          /\ SchemaCompatibility(c, id, from, to) =
               IF c.rules[k].kind = "readable" THEN Answer("readable", {})
               ELSE Answer("requires-migration", {})
    BY <1>1, <1>4, <2>1, CompatibilityByRule
  <2>3. PICK j \in DOMAIN d.rules : d.rules[j] = c.rules[k]
    BY DEF Among
  <2>4. PICK l \in DOMAIN d.rules :
          /\ d.rules[l].from = d.rules[j].from /\ d.rules[l].to = d.rules[j].to
          /\ SchemaCompatibility(d, id, from, to) =
               IF d.rules[l].kind = "readable" THEN Answer("readable", {})
               ELSE Answer("requires-migration", {})
    BY <1>2, <1>4, <2>1, <2>2, <2>3, CompatibilityByRule
  <2>5. d.rules[l].kind = c.rules[k].kind
    BY <2>3, <2>4, ValidKinds
  <2>6. QED
    BY <2>2, <2>4, <2>5
<1>5. QED
  BY <1>3, <1>4

\* A rebuilt catalog has what the one before had, and nothing that was not added.
LEMMA RebuiltAmong ==
  ASSUME TypeOK, AddedOnly, BuildCatalog
  PROVE  /\ Among(built.entries, built'.entries) /\ Among(built.rules, built'.rules)
         /\ Among(built'.entries, entries) /\ Among(built'.rules, rules)
<1> DEFINE b == [entries |-> entries, rules |-> rules]
           c == built'
<1>1. b \in Catalog /\ c \in Build(b.entries, b.rules)
  BY PoolSequences DEF BuildCatalog, Catalog
<1> HIDE DEF c
<1>2. /\ SameElements(entries, c.entries, Len(entries))
      /\ SameElements(rules, c.rules, Len(rules))
  BY <1>1, BuiltSameElements
<1>3. DOMAIN entries = 1..Len(entries) /\ DOMAIN rules = 1..Len(rules)
  BY LenProperties DEF TypeOK
<1>4. Among(c.entries, entries) /\ Among(c.rules, rules)
  BY <1>2, <1>3, Zenon DEF SameElements, Among
<1>5. Among(entries, c.entries) /\ Among(rules, c.rules)
  BY <1>2, <1>3, Zenon DEF SameElements, Among
<1>6. Among(built.entries, c.entries) /\ Among(built.rules, c.rules)
  <2>1. ASSUME NEW r, NEW s, NEW t, Among(r, s), Among(s, t) PROVE Among(r, t)
    <3>1. SUFFICES ASSUME NEW i \in DOMAIN r PROVE \E k \in DOMAIN t : t[k] = r[i]
      BY DEF Among
    <3>2. PICK j \in DOMAIN s : s[j] = r[i]
      BY <2>1 DEF Among
    <3>3. PICK k \in DOMAIN t : t[k] = s[j]
      BY <2>1 DEF Among
    <3>4. QED
      BY <3>2, <3>3
  <2>2. QED
    BY <1>5, <2>1 DEF AddedOnly
<1>7. QED
  BY <1>4, <1>6 DEF c

\* No rebuild withdraws or changes an answer, for any number of additions and
\* rebuilds in any order (SchemaCatalogBuilder::build).
THEOREM RebuildKeepsAnswersHolds == Spec => RebuildKeepsAnswers
<1>1. Init => AddedOnly
  <2>1. DOMAIN <<>> = {}
    BY EmptySeq
  <2>2. QED
    BY <2>1 DEF Init, AddedOnly, Among
<1>2. TypeOK /\ AddedOnly /\ [Next]_vars => AddedOnly'
  <2> SUFFICES ASSUME TypeOK, AddedOnly, [Next]_vars PROVE AddedOnly'
    OBVIOUS
  <2>1. ASSUME NEW S, NEW s \in Seq(S), NEW x \in S, NEW r, Among(r, s)
        PROVE  Among(r, Append(s, x))
    <3>1. /\ DOMAIN s = 1..Len(s) /\ Len(s) \in Nat
          /\ DOMAIN Append(s, x) = 1..(Len(s) + 1)
          /\ \A k \in 1..Len(s) : Append(s, x)[k] = s[k]
      BY LenProperties, AppendProperties
    <3>2. \A k \in DOMAIN s : k \in DOMAIN Append(s, x) /\ Append(s, x)[k] = s[k]
      BY <3>1
    <3>3. QED
      BY <2>1, <3>2, Zenon DEF Among
  <2>2. ASSUME NEW e \in Entries, AddEntry(e) PROVE AddedOnly'
    BY <2>1, <2>2 DEF AddEntry, AddedOnly, TypeOK
  <2>3. ASSUME NEW r \in Rules, AddRule(r) PROVE AddedOnly'
    BY <2>1, <2>3 DEF AddRule, AddedOnly, TypeOK
  <2>4. CASE BuildCatalog
    BY <2>4, RebuiltAmong DEF BuildCatalog, AddedOnly
  <2>5. CASE UNCHANGED vars
    BY <2>5 DEF vars, AddedOnly
  <2>6. QED
    BY <2>2, <2>3, <2>4, <2>5 DEF Next
<1>3. ASSUME TypeOK, TypeOK', AddedOnly, [Next]_vars, Valid(built), Valid(built'),
             NEW id \in SchemaId, NEW from \in Versions, NEW to \in Versions
      PROVE  /\ LookupSchema(built.entries, id, from).found =>
                  LookupSchema(built'.entries, id, from) =
                    LookupSchema(built.entries, id, from)
             /\ SchemaCompatibility(built, id, from, to).value # "unsupported" =>
                  SchemaCompatibility(built', id, from, to) =
                    SchemaCompatibility(built, id, from, to)
  <2> DEFINE next == built'
  <2>1. CASE next = built
    BY <2>1
  <2>2. CASE BuildCatalog
    <3>1. /\ Among(built.entries, next.entries) /\ Among(built.rules, next.rules)
          /\ built \in Catalog /\ next \in Catalog /\ Valid(built) /\ Valid(next)
      BY <1>3, <2>2, RebuiltAmong DEF TypeOK
    <3> HIDE DEF next
    <3>2. LookupSchema(built.entries, id, from).found =>
            LookupSchema(next.entries, id, from) = LookupSchema(built.entries, id, from)
      BY <3>1, FoundAmong
    <3>3. SchemaCompatibility(built, id, from, to).value # "unsupported" =>
            SchemaCompatibility(next, id, from, to) = SchemaCompatibility(built, id, from, to)
      BY <3>1, AnsweredAmong
    <3>4. QED
      BY <3>2, <3>3 DEF next
  <2>3. QED
    BY <1>3, <2>1, <2>2 DEF Next, AddEntry, AddRule, vars
<1>4. TypeOK /\ TypeOK' /\ AddedOnly /\ [Next]_vars =>
        [Valid(built) /\ Valid(built') =>
           \A id \in SchemaId, from, to \in Versions :
             LET found  == LookupSchema(built.entries, id, from)
                 answer == SchemaCompatibility(built, id, from, to)
             IN  /\ found.found => LookupSchema(built'.entries, id, from) = found
                 /\ answer.value # "unsupported" =>
                      SchemaCompatibility(built', id, from, to) = answer]_vars
  BY <1>3, Zenon
<1>5. QED
  BY <1>1, <1>2, <1>4, TypeCorrect, PTL DEF Spec, RebuildKeepsAnswers

-----------------------------------------------------------------------------
\* The catalog that is loaded says what the document says, nothing less and
\* nothing else, whatever the document (SchemaCatalog::from_json).
THEOREM LoaderIsFaithfulHolds == LoaderSpec => []LoaderIsFaithful
<1>1. ASSUME LoaderInv, loaded # <<>>
      PROVE  LET c == loaded[1] IN
             /\ root.root = "object" /\ root.binding = "exact" /\ ~root.extra
             /\ Len(c.entries) = Len(root.entries) /\ Len(c.rules) = Len(Listed(root))
             /\ \A k \in DOMAIN root.entries :
                  \E e \in DOMAIN c.entries : SaysEntry(root.entries[k], c.entries[e])
             /\ \A e \in DOMAIN c.entries :
                  \E k \in DOMAIN root.entries : SaysEntry(root.entries[k], c.entries[e])
             /\ \A k \in DOMAIN Listed(root) :
                  \E r \in DOMAIN c.rules : SaysRule(Listed(root)[k], c.rules[r])
             /\ \A r \in DOMAIN c.rules :
                  \E k \in DOMAIN Listed(root) : SaysRule(Listed(root)[k], c.rules[r])
  <2> DEFINE c == loaded[1]
             n == Len(root.entries)
             m == Len(Listed(root))
  <2>1. /\ root \in Documents /\ builder \in Catalog
        /\ diagnostics = {} /\ c \in Build(builder.entries, builder.rules)
    BY <1>1 DEF LoaderInv, LoaderTypes, LoaderTypeOK, HowFar
  <2>2. ReadFully
    BY <1>1, <2>1 DEF LoaderInv, HowFar, Faulty
  <2>3. KeptTo(root, builder, n, m)
    BY <2>1, <2>2 DEF ReadFully, ReadTo
  <2>4. DOMAIN root.entries = 1..n /\ DOMAIN Listed(root) = 1..m
    <3>1. DOMAIN root.rules = 1..Len(root.rules) /\ DOMAIN root.entries = 1..n
      BY <2>1, ElementsTyped
    <3>2. DOMAIN <<>> = 1..Len(<<>>)
      OBVIOUS
    <3>3. QED
      BY <3>1, <3>2 DEF Listed
  <2>5. /\ SameElements(builder.entries, c.entries, n) /\ SameElements(builder.rules, c.rules, m)
        /\ Len(c.entries) = n /\ Len(c.rules) = m
    BY <2>1, <2>3, BuiltSameElements DEF KeptTo
  <2>6. root.binding = "exact" /\ ~root.extra
    BY <2>2, SoundHeader DEF ReadFully
  <2>7. root.root = "object"
    BY <2>2 DEF ReadFully
  <2>8. \A k \in 1..n : SaysEntry(root.entries[k], builder.entries[k])
    BY <2>3 DEF KeptTo
  <2>9. \A k \in 1..m : SaysRule(Listed(root)[k], builder.rules[k])
    <3>1. CASE root.rulesKind = "array"
      BY <2>3, <3>1 DEF KeptTo, Listed
    <3>2. CASE root.rulesKind # "array"
      BY <3>2, EmptySeq DEF Listed
    <3>3. QED
      BY <3>1, <3>2
  <2> HIDE DEF c, n, m
  <2>10. /\ \A k \in 1..n : \E e \in 1..n : SaysEntry(root.entries[k], c.entries[e])
         /\ \A e \in 1..n : \E k \in 1..n : SaysEntry(root.entries[k], c.entries[e])
         /\ DOMAIN c.entries = 1..n
    BY <2>5, <2>8, Zenon DEF SameElements
  <2>11. /\ \A k \in 1..m : \E r \in 1..m : SaysRule(Listed(root)[k], c.rules[r])
         /\ \A r \in 1..m : \E k \in 1..m : SaysRule(Listed(root)[k], c.rules[r])
         /\ DOMAIN c.rules = 1..m
    BY <2>5, <2>9, Zenon DEF SameElements
  <2>12. /\ Len(c.entries) = n /\ Len(c.rules) = m
    BY <2>5
  <2>13. QED
    BY <2>4, <2>6, <2>7, <2>10, <2>11, <2>12 DEF c, n, m
<1>2. LoaderInv => LoaderIsFaithful
  BY <1>1 DEF LoaderInv, LoaderTypes, LoaderIsFaithful, CatalogIsTheDocument, Listed
<1>3. QED
  BY <1>2, LoaderInvHolds, PTL
=============================================================================
