------------------------- MODULE Revisions_proofs ----------------------------
(***************************************************************************)
(* Proofs about revisions.                                                 *)
(*                                                                         *)
(* compare_project_revisions is a total order that is consistent with      *)
(* equality, for identities and summaries of any length. The bytes of an   *)
(* identity and the characters of a summary are compared lexicographically.*)
(* Both are read as functions on the natural numbers (0 past the end, one  *)
(* more than the byte or character before it); First says that a verdict   *)
(* is the one of the first place where two functions differ, and the laws  *)
(* of an order are proved once, for First. The four fields of a revision   *)
(* are then a case distinction.                                            *)
(*                                                                         *)
(* The scanner of the metadata (RevisionMetadata), for documents with any  *)
(* number of members and texts of any length, follows in the second part;  *)
(* the one text of an identity (Identity) in the third.                *)
(***************************************************************************)
EXTENDS RevisionHistory, RevisionMetadata, Identity, SequenceTheorems, WellFoundedInduction, TLAPS

Verdicts == {"less", "equal", "greater"}

\* v is the verdict of the first place where f and g differ.
First(f, g, v) ==
  \/ f = g /\ v = "equal"
  \/ \E l \in Nat : /\ f[l] # g[l]
                    /\ \A j \in Nat : j < l => f[j] = g[j]
                    /\ v = CompareNumbers(f[l], g[l])

-----------------------------------------------------------------------------
(***************************************************************************)
(* Numbers, and functions on them.                                         *)
(***************************************************************************)
\* A set of natural numbers that is not empty has a least element.
LEMMA Least ==
  ASSUME NEW S \in SUBSET Nat, S # {}
  PROVE  \E m \in S : \A n \in S : m <= n
<1>1. IsWellFoundedOn(OpToRel(<, Nat), Nat)
  BY NatLessThanWellFounded
<1>2. PICK m \in S : \A n \in S : ~(<<n, m>> \in OpToRel(<, Nat))
  BY <1>1, WFMin
<1>3. ASSUME NEW n \in S
      PROVE  ~(n < m)
  <2>1. ~(<<n, m>> \in OpToRel(<, Nat))
    BY <1>2, <1>3
  <2>2. ~(<<n, m>> \in {ss \in Nat \X Nat : ss[1] < ss[2]})
    BY <2>1, Zenon DEF OpToRel
  <2> QED
    BY <2>2
<1> QED
  BY <1>3

\* The laws of the comparison of numbers.
LEMMA NumberLaws ==
  ASSUME NEW m \in Nat, NEW n \in Nat
  PROVE  /\ CompareNumbers(m, n) \in Verdicts
         /\ CompareNumbers(n, m) = Flip(CompareNumbers(m, n))
         /\ CompareNumbers(m, n) = "equal" <=> m = n
         /\ CompareNumbers(m, n) = "less" <=> m < n
BY DEF CompareNumbers, Flip, Verdicts

\* Equal is identical.
LEMMA FirstEqual ==
  ASSUME NEW f \in [Nat -> Nat], NEW g \in [Nat -> Nat], NEW v, First(f, g, v)
  PROVE  v \in Verdicts /\ (v = "equal" <=> f = g)
<1>1. CASE f = g /\ v = "equal"
  BY <1>1 DEF Verdicts
<1>2. ASSUME NEW l \in Nat, f[l] # g[l], v = CompareNumbers(f[l], g[l])
      PROVE  v \in Verdicts /\ (v = "equal" <=> f = g)
  <2>1. f[l] \in Nat /\ g[l] \in Nat
    OBVIOUS
  <2>2. v \in Verdicts /\ v # "equal"
    BY <1>2, <2>1, NumberLaws
  <2> QED
    BY <1>2, <2>2
<1> QED
  BY <1>1, <1>2 DEF First

\* Seen from the other side the verdict is the opposite one.
LEMMA FirstOpposite ==
  ASSUME NEW f \in [Nat -> Nat], NEW g \in [Nat -> Nat],
         NEW v, NEW w, First(f, g, v), First(g, f, w)
  PROVE  w = Flip(v)
<1>1. CASE f = g
  BY <1>1, FirstEqual DEF Flip
<1>2. CASE f # g
  <2>1. PICK l \in Nat : /\ f[l] # g[l]
                         /\ \A k \in Nat : k < l => f[k] = g[k]
                         /\ v = CompareNumbers(f[l], g[l])
    BY <1>2 DEF First
  <2>2. PICK j \in Nat : /\ g[j] # f[j]
                         /\ \A k \in Nat : k < j => g[k] = f[k]
                         /\ w = CompareNumbers(g[j], f[j])
    BY <1>2 DEF First
  <2>3. l = j
    BY <2>1, <2>2
  <2>4. f[l] \in Nat /\ g[l] \in Nat
    OBVIOUS
  <2>5. CompareNumbers(g[l], f[l]) = Flip(CompareNumbers(f[l], g[l]))
    BY <2>4, NumberLaws
  <2> QED
    BY <2>1, <2>2, <2>3, <2>5
<1> QED
  BY <1>1, <1>2

\* Less is transitive.
LEMMA FirstTransitive ==
  ASSUME NEW f \in [Nat -> Nat], NEW g \in [Nat -> Nat], NEW h \in [Nat -> Nat],
         NEW v, First(f, g, "less"), First(g, h, "less"), First(f, h, v)
  PROVE  v = "less"
<1>1. PICK l \in Nat : /\ f[l] # g[l]
                       /\ \A k \in Nat : k < l => f[k] = g[k]
                       /\ "less" = CompareNumbers(f[l], g[l])
  BY DEF First
<1>2. PICK j \in Nat : /\ g[j] # h[j]
                       /\ \A k \in Nat : k < j => g[k] = h[k]
                       /\ "less" = CompareNumbers(g[j], h[j])
  BY DEF First
<1>3. \A k \in Nat : f[k] \in Nat /\ g[k] \in Nat /\ h[k] \in Nat
  OBVIOUS
<1>4. f[l] < g[l]
  <2>1. f[l] \in Nat /\ g[l] \in Nat
    BY <1>3
  <2> QED
    BY <1>1, <2>1, NumberLaws
<1>5. g[j] < h[j]
  <2>1. g[j] \in Nat /\ h[j] \in Nat
    BY <1>3
  <2> QED
    BY <1>2, <2>1, NumberLaws
<1>6. PICK m \in Nat : f[m] < h[m] /\ \A k \in Nat : k < m => f[k] = h[k]
  <2>1. CASE l < j
    BY <2>1, <1>1, <1>2, <1>4
  <2>2. CASE j < l
    BY <2>2, <1>1, <1>2, <1>5
  <2>3. CASE l = j
    BY <2>3, <1>1, <1>2, <1>3, <1>4, <1>5
  <2>4. l < j \/ j < l \/ l = j
    OBVIOUS
  <2> QED
    BY <2>1, <2>2, <2>3, <2>4, Zenon
<1>7. f[m] \in Nat /\ h[m] \in Nat
  BY <1>3
<1>8. f[m] # h[m]
  BY <1>6, <1>7
<1>9. PICK n \in Nat : /\ f[n] # h[n]
                       /\ \A k \in Nat : k < n => f[k] = h[k]
                       /\ v = CompareNumbers(f[n], h[n])
  BY <1>8 DEF First
<1>10. m = n
  BY <1>6, <1>8, <1>9
<1> QED
  BY <1>6, <1>7, <1>9, <1>10, NumberLaws

-----------------------------------------------------------------------------
(***************************************************************************)
(* Identities and summaries as functions on the natural numbers.           *)
(***************************************************************************)
NumbersOf(x) == [l \in Nat |-> IF l \in 1..IdLength THEN x[l] ELSE 0]

CharactersOf(s) == [l \in Nat |-> IF l \in 1..Len(s) THEN s[l] + 1 ELSE 0]

\* Identities are compared as their bytes are.
LEMMA BytesFirst ==
  ASSUME NEW x \in Id, NEW y \in Id
  PROVE  /\ NumbersOf(x) \in [Nat -> Nat]
         /\ NumbersOf(x) = NumbersOf(y) => x = y
         /\ First(NumbersOf(x), NumbersOf(y), CompareBytes(x, y))
<1>1. \A z \in Id : \A l \in 1..IdLength : z[l] \in Nat
  BY IdAssumption DEF Id
<1>2. NumbersOf(x) \in [Nat -> Nat]
  BY <1>1 DEF NumbersOf
<1>3. ASSUME \A l \in 1..IdLength : x[l] = y[l]
      PROVE  x = y
  <2>1. /\ x = [l \in 1..IdLength |-> x[l]]
        /\ y = [l \in 1..IdLength |-> y[l]]
    BY DEF Id
  <2> QED
    BY <2>1, <1>3, Zenon
<1>4. ASSUME NumbersOf(x) = NumbersOf(y)
      PROVE  x = y
  <2>1. ASSUME NEW l \in 1..IdLength
        PROVE  x[l] = y[l]
    <3>1. l \in Nat
      BY IdAssumption
    <3>2. NumbersOf(x)[l] = x[l] /\ NumbersOf(y)[l] = y[l]
      BY <3>1 DEF NumbersOf
    <3> QED
      BY <3>2, <1>4
  <2> QED
    BY <2>1, <1>3
<1>5. First(NumbersOf(x), NumbersOf(y), CompareBytes(x, y))
  <2>1. CASE x = y
    BY <2>1 DEF First, CompareBytes
  <2>2. CASE x # y
    <3> DEFINE first == CHOOSE l \in 1..IdLength :
                          x[l] # y[l] /\ \A j \in 1..(l - 1) : x[j] = y[j]
    <3>1. ~ \A l \in 1..IdLength : x[l] = y[l]
      BY <2>2, <1>3
    <3>2. CompareBytes(x, y) = CompareNumbers(x[first], y[first])
      BY <3>1, Zenon DEF CompareBytes
    <3>3. \E l \in 1..IdLength : x[l] # y[l] /\ \A j \in 1..(l - 1) : x[j] = y[j]
      <4> DEFINE S == {l \in 1..IdLength : x[l] # y[l]}
      <4>1. S # {} /\ S \in SUBSET Nat
        BY <3>1, IdAssumption
      <4>2. PICK m \in S : \A n \in S : m <= n
        BY <4>1, Least
      <4>3. \A j \in 1..(m - 1) : x[j] = y[j]
        BY <4>2, IdAssumption
      <4> QED
        BY <4>2, <4>3
    <3>4. /\ first \in 1..IdLength
          /\ x[first] # y[first]
          /\ \A j \in 1..(first - 1) : x[j] = y[j]
      BY <3>3, Zenon
    <3> HIDE DEF first
    <3>5. first \in Nat /\ NumbersOf(x)[first] = x[first] /\ NumbersOf(y)[first] = y[first]
      BY <3>4, IdAssumption DEF NumbersOf
    <3>6. \A j \in Nat : j < first => NumbersOf(x)[j] = NumbersOf(y)[j]
      BY <3>4, IdAssumption DEF NumbersOf
    <3> QED
      BY <3>2, <3>4, <3>5, <3>6 DEF First
  <2> QED
    BY <2>1, <2>2
<1> QED
  BY <1>2, <1>4, <1>5

\* Summaries are compared as their characters are; one that ends first is less.
LEMMA TextFirst ==
  ASSUME NEW s \in Seq(Nat), NEW t \in Seq(Nat)
  PROVE  /\ CharactersOf(s) \in [Nat -> Nat]
         /\ CharactersOf(s) = CharactersOf(t) => s = t
         /\ First(CharactersOf(s), CharactersOf(t), CompareText(s, t))
<1> DEFINE differs == {l \in DOMAIN s \cap DOMAIN t : s[l] # t[l]}
           first   == CHOOSE l \in differs : \A j \in differs : l <= j
<1>1. /\ \A l \in 1..Len(s) : s[l] \in Nat
      /\ \A l \in 1..Len(t) : t[l] \in Nat
      /\ Len(s) \in Nat /\ Len(t) \in Nat
      /\ DOMAIN s = 1..Len(s) /\ DOMAIN t = 1..Len(t)
  OBVIOUS
<1>0. Len(s) \in Nat /\ Len(t) \in Nat
  OBVIOUS
<1>2. CharactersOf(s) \in [Nat -> Nat] /\ CharactersOf(t) \in [Nat -> Nat]
  BY <1>1 DEF CharactersOf
<1>3. ASSUME Len(s) = Len(t), \A l \in 1..Len(s) : s[l] = t[l]
      PROVE  s = t
  BY <1>3, <1>1
<1>4. /\ \A l \in 1..Len(s) : CharactersOf(s)[l] = s[l] + 1
      /\ \A l \in 1..Len(t) : CharactersOf(t)[l] = t[l] + 1
      /\ \A l \in Nat : l \notin 1..Len(s) => CharactersOf(s)[l] = 0
      /\ \A l \in Nat : l \notin 1..Len(t) => CharactersOf(t)[l] = 0
  BY <1>1 DEF CharactersOf
<1>5. ASSUME differs = {}
      PROVE  First(CharactersOf(s), CharactersOf(t), CompareText(s, t))
  <2>1. CompareText(s, t) = CompareNumbers(Len(s), Len(t))
    BY <1>5, Zenon DEF CompareText
  <2>2. \A l \in (1..Len(s)) \cap (1..Len(t)) : s[l] = t[l]
    BY <1>5, <1>1
  <2>3. CASE Len(s) = Len(t)
    <3>1. s = t
      BY <2>2, <2>3, <1>3
    <3>2. CompareText(s, t) = "equal"
      BY <2>1, <2>3, <1>1, NumberLaws
    <3> QED
      BY <3>1, <3>2 DEF First
  <2>4. CASE Len(s) < Len(t)
    <3>1. Len(s) + 1 \in Nat /\ Len(s) + 1 \in 1..Len(t) /\ Len(s) + 1 \notin 1..Len(s)
      BY <2>4, <1>1
    <3>2. CharactersOf(s)[Len(s) + 1] = 0 /\ CharactersOf(t)[Len(s) + 1] > 0
      BY <3>1, <1>4, <1>1
    <3>3. ASSUME NEW j \in Nat, j < Len(s) + 1
          PROVE  CharactersOf(s)[j] = CharactersOf(t)[j]
      <4>1. CASE j = 0
        BY <4>1, <1>0, <1>4
      <4>2. CASE j # 0
        <5>1. j \in 1..Len(s) /\ j \in 1..Len(t)
          BY <4>2, <3>3, <2>4, <1>0
        <5> QED
          BY <5>1, <2>2, <1>4
      <4> QED
        BY <4>1, <4>2
    <3>4. CompareText(s, t) = CompareNumbers(CharactersOf(s)[Len(s) + 1], CharactersOf(t)[Len(s) + 1])
      BY <2>1, <2>4, <3>2, <1>1 DEF CompareNumbers
    <3>5. CharactersOf(s)[Len(s) + 1] # CharactersOf(t)[Len(s) + 1]
      BY <3>1, <3>2, <1>2
    <3> QED
      BY <3>1, <3>3, <3>4, <3>5 DEF First
  <2>5. CASE Len(t) < Len(s)
    <3>1. Len(t) + 1 \in Nat /\ Len(t) + 1 \in 1..Len(s) /\ Len(t) + 1 \notin 1..Len(t)
      BY <2>5, <1>1
    <3>2. CharactersOf(t)[Len(t) + 1] = 0 /\ CharactersOf(s)[Len(t) + 1] > 0
      BY <3>1, <1>4, <1>1
    <3>3. ASSUME NEW j \in Nat, j < Len(t) + 1
          PROVE  CharactersOf(s)[j] = CharactersOf(t)[j]
      <4>1. CASE j = 0
        BY <4>1, <1>0, <1>4
      <4>2. CASE j # 0
        <5>1. j \in 1..Len(s) /\ j \in 1..Len(t)
          BY <4>2, <3>3, <2>5, <1>0
        <5> QED
          BY <5>1, <2>2, <1>4
      <4> QED
        BY <4>1, <4>2
    <3>4. CompareText(s, t) = CompareNumbers(CharactersOf(s)[Len(t) + 1], CharactersOf(t)[Len(t) + 1])
      BY <2>1, <2>5, <3>1, <3>2, <1>1, <1>2 DEF CompareNumbers
    <3>5. CharactersOf(s)[Len(t) + 1] # CharactersOf(t)[Len(t) + 1]
      BY <3>1, <3>2, <1>2
    <3> QED
      BY <3>1, <3>3, <3>4, <3>5 DEF First
  <2> QED
    BY <2>3, <2>4, <2>5, <1>0
<1>6. ASSUME differs # {}
      PROVE  First(CharactersOf(s), CharactersOf(t), CompareText(s, t))
  <2>1. CompareText(s, t) = CompareNumbers(s[first], t[first])
    BY <1>6, Zenon DEF CompareText
  <2>2. \E l \in differs : \A j \in differs : l <= j
    <3>1. differs \in SUBSET Nat
      BY <1>1
    <3> QED
      BY <3>1, <1>6, Least
  <2>3. first \in differs /\ \A j \in differs : first <= j
    BY <2>2, Zenon
  <2> HIDE DEF first
  <2>4. /\ first \in 1..Len(s) /\ first \in 1..Len(t) /\ first \in Nat
        /\ s[first] \in Nat /\ t[first] \in Nat /\ s[first] # t[first]
    BY <2>3, <1>1
  <2>5. CharactersOf(s)[first] = s[first] + 1 /\ CharactersOf(t)[first] = t[first] + 1
    BY <2>4, <1>4
  <2>6. ASSUME NEW j \in Nat, j < first
        PROVE  CharactersOf(s)[j] = CharactersOf(t)[j]
    <3>1. CASE j = 0
      BY <3>1, <1>0, <1>4
    <3>2. CASE j # 0
      <4>1. j \in 1..Len(s) /\ j \in 1..Len(t)
        BY <3>2, <2>4, <2>6, <1>0
      <4>2. ~(first <= j)
        BY <2>4, <2>6
      <4>3. s[j] = t[j]
        BY <4>1, <4>2, <2>3, <1>1
      <4> QED
        BY <4>1, <4>3, <1>4
    <3> QED
      BY <3>1, <3>2
  <2>7. CompareText(s, t) = CompareNumbers(CharactersOf(s)[first], CharactersOf(t)[first])
    BY <2>1, <2>4, <2>5 DEF CompareNumbers
  <2>8. CharactersOf(s)[first] # CharactersOf(t)[first]
    BY <2>4, <2>5
  <2> QED
    BY <2>4, <2>6, <2>7, <2>8 DEF First
<1>7. ASSUME CharactersOf(s) = CharactersOf(t)
      PROVE  s = t
  <2>1. ASSUME NEW l \in Nat \ {0}
        PROVE  l \in 1..Len(s) <=> l \in 1..Len(t)
    <3>1. CharactersOf(s)[l] = CharactersOf(t)[l]
      BY <1>7
    <3>2. l \in 1..Len(s) => CharactersOf(s)[l] > 0
      BY <1>1, <1>4
    <3>3. l \in 1..Len(t) => CharactersOf(t)[l] > 0
      BY <1>1, <1>4
    <3>4. /\ l \notin 1..Len(s) => CharactersOf(s)[l] = 0
          /\ l \notin 1..Len(t) => CharactersOf(t)[l] = 0
      BY <1>4
    <3> QED
      BY <3>1, <3>2, <3>3, <3>4
  <2>2. Len(s) = Len(t)
    <3>1. ASSUME Len(s) < Len(t)
          PROVE  FALSE
      <4>1. Len(t) \in Nat \ {0} /\ Len(t) \in 1..Len(t) /\ Len(t) \notin 1..Len(s)
        BY <3>1, <1>0
      <4> QED
        BY <4>1, <2>1
    <3>2. ASSUME Len(t) < Len(s)
          PROVE  FALSE
      <4>1. Len(s) \in Nat \ {0} /\ Len(s) \in 1..Len(s) /\ Len(s) \notin 1..Len(t)
        BY <3>2, <1>0
      <4> QED
        BY <4>1, <2>1
    <3> QED
      BY <3>1, <3>2, <1>0
  <2>3. \A l \in 1..Len(s) : s[l] = t[l]
    BY <2>2, <1>1, <1>4, <1>7
  <2> QED
    BY <2>2, <2>3, <1>3
<1> QED
  BY <1>2, <1>5, <1>6, <1>7
-----------------------------------------------------------------------------
(***************************************************************************)
(* The fields of a revision. Each is compared by a verdict with the laws   *)
(* of an order.                                                            *)
(***************************************************************************)
\* The laws of the comparison of identities.
LEMMA BytesLaws ==
  ASSUME NEW x \in Id, NEW y \in Id
  PROVE  /\ CompareBytes(x, y) \in Verdicts
         /\ CompareBytes(y, x) = Flip(CompareBytes(x, y))
         /\ CompareBytes(x, y) = "equal" <=> x = y
<1>1. /\ NumbersOf(x) \in [Nat -> Nat] /\ NumbersOf(y) \in [Nat -> Nat]
      /\ NumbersOf(x) = NumbersOf(y) => x = y
      /\ First(NumbersOf(x), NumbersOf(y), CompareBytes(x, y))
      /\ First(NumbersOf(y), NumbersOf(x), CompareBytes(y, x))
  BY BytesFirst
<1> QED
  BY <1>1, FirstEqual, FirstOpposite

\* Less is transitive on identities.
LEMMA BytesTransitive ==
  ASSUME NEW x \in Id, NEW y \in Id, NEW z \in Id,
         CompareBytes(x, y) = "less", CompareBytes(y, z) = "less"
  PROVE  CompareBytes(x, z) = "less"
<1>1. /\ NumbersOf(x) \in [Nat -> Nat] /\ NumbersOf(y) \in [Nat -> Nat]
      /\ NumbersOf(z) \in [Nat -> Nat]
      /\ First(NumbersOf(x), NumbersOf(y), CompareBytes(x, y))
      /\ First(NumbersOf(y), NumbersOf(z), CompareBytes(y, z))
      /\ First(NumbersOf(x), NumbersOf(z), CompareBytes(x, z))
  BY BytesFirst
<1> QED
  BY <1>1, FirstTransitive

\* The laws of the comparison of summaries.
LEMMA TextLaws ==
  ASSUME NEW x \in Seq(Nat), NEW y \in Seq(Nat)
  PROVE  /\ CompareText(x, y) \in Verdicts
         /\ CompareText(y, x) = Flip(CompareText(x, y))
         /\ CompareText(x, y) = "equal" <=> x = y
<1>1. /\ CharactersOf(x) \in [Nat -> Nat] /\ CharactersOf(y) \in [Nat -> Nat]
      /\ CharactersOf(x) = CharactersOf(y) => x = y
      /\ First(CharactersOf(x), CharactersOf(y), CompareText(x, y))
      /\ First(CharactersOf(y), CharactersOf(x), CompareText(y, x))
  BY TextFirst
<1> QED
  BY <1>1, FirstEqual, FirstOpposite

\* Less is transitive on summaries.
LEMMA TextTransitive ==
  ASSUME NEW x \in Seq(Nat), NEW y \in Seq(Nat), NEW z \in Seq(Nat),
         CompareText(x, y) = "less", CompareText(y, z) = "less"
  PROVE  CompareText(x, z) = "less"
<1>1. /\ CharactersOf(x) \in [Nat -> Nat] /\ CharactersOf(y) \in [Nat -> Nat]
      /\ CharactersOf(z) \in [Nat -> Nat]
      /\ First(CharactersOf(x), CharactersOf(y), CompareText(x, y))
      /\ First(CharactersOf(y), CharactersOf(z), CompareText(y, z))
      /\ First(CharactersOf(x), CharactersOf(z), CompareText(x, z))
  BY TextFirst
<1> QED
  BY <1>1, FirstTransitive

Parents == {<<>>} \cup {<<id>> : id \in Id}

\* The laws of the comparison of optional parents.
LEMMA ParentLaws ==
  ASSUME NEW p \in Parents, NEW q \in Parents
  PROVE  /\ CompareParents(p, q) \in Verdicts
         /\ CompareParents(q, p) = Flip(CompareParents(p, q))
         /\ CompareParents(p, q) = "equal" <=> p = q
<1>1. CASE p = <<>> /\ q = <<>>
  BY <1>1 DEF CompareParents, Verdicts, Flip
<1>2. CASE p = <<>> /\ q # <<>>
  BY <1>2 DEF CompareParents, Verdicts, Flip
<1>3. CASE p # <<>> /\ q = <<>>
  BY <1>3 DEF CompareParents, Verdicts, Flip
<1>4. CASE p # <<>> /\ q # <<>>
  <2>1. PICK x \in Id : p = <<x>>
    BY <1>4 DEF Parents
  <2>2. PICK y \in Id : q = <<y>>
    BY <1>4 DEF Parents
  <2>3. /\ CompareParents(p, q) = CompareBytes(x, y)
        /\ CompareParents(q, p) = CompareBytes(y, x)
    BY <1>4, <2>1, <2>2 DEF CompareParents
  <2>4. p = q <=> x = y
    BY <2>1, <2>2
  <2> QED
    BY <2>3, <2>4, BytesLaws
<1> QED
  BY <1>1, <1>2, <1>3, <1>4

\* Less is transitive on optional parents.
LEMMA ParentTransitive ==
  ASSUME NEW p \in Parents, NEW q \in Parents, NEW r \in Parents,
         CompareParents(p, q) = "less", CompareParents(q, r) = "less"
  PROVE  CompareParents(p, r) = "less"
<1>1. q # <<>> /\ r # <<>>
  BY DEF CompareParents
<1>2. PICK y \in Id : q = <<y>>
  BY <1>1 DEF Parents
<1>3. PICK z \in Id : r = <<z>>
  BY <1>1 DEF Parents
<1>4. CASE p = <<>>
  BY <1>1, <1>4 DEF CompareParents
<1>5. CASE p # <<>>
  <2>1. PICK x \in Id : p = <<x>>
    BY <1>5 DEF Parents
  <2>2. /\ CompareParents(p, q) = CompareBytes(x, y)
        /\ CompareParents(q, r) = CompareBytes(y, z)
        /\ CompareParents(p, r) = CompareBytes(x, z)
    BY <1>1, <1>5, <1>2, <1>3, <2>1 DEF CompareParents
  <2> QED
    BY <2>2, BytesTransitive
<1> QED
  BY <1>4, <1>5

-----------------------------------------------------------------------------
(***************************************************************************)
(* Revisions.                                                              *)
(***************************************************************************)
Revision == Metadata(Seq(Nat))

\* The fields of a revision, each with the laws of its comparison.
LEMMA FieldLaws ==
  ASSUME NEW a \in Revision, NEW b \in Revision
  PROVE  /\ CompareBytes(b.revision, a.revision) = Flip(CompareBytes(a.revision, b.revision))
         /\ CompareBytes(a.revision, b.revision) = "equal" <=> a.revision = b.revision
         /\ CompareParents(b.parent, a.parent) = Flip(CompareParents(a.parent, b.parent))
         /\ CompareParents(a.parent, b.parent) = "equal" <=> a.parent = b.parent
         /\ CompareNumbers(b.origin, a.origin) = Flip(CompareNumbers(a.origin, b.origin))
         /\ CompareNumbers(a.origin, b.origin) = "equal" <=> a.origin = b.origin
         /\ CompareText(b.summary, a.summary) = Flip(CompareText(a.summary, b.summary))
         /\ CompareText(a.summary, b.summary) = "equal" <=> a.summary = b.summary
         /\ CompareBytes(a.revision, b.revision) \in Verdicts
         /\ CompareParents(a.parent, b.parent) \in Verdicts
         /\ CompareNumbers(a.origin, b.origin) \in Verdicts
         /\ CompareText(a.summary, b.summary) \in Verdicts
<1>1. /\ a.revision \in Id /\ b.revision \in Id
      /\ a.parent \in Parents /\ b.parent \in Parents
      /\ a.origin \in Nat /\ b.origin \in Nat
      /\ a.summary \in Seq(Nat) /\ b.summary \in Seq(Nat)
  BY DEF Revision, Metadata, Parents, Origin, ManualEdit, Recognition, Migration
<1> QED
  BY <1>1, BytesLaws, ParentLaws, NumberLaws, TextLaws

\* Seen from the other side the comparison is the opposite one.
THEOREM RevisionsAreAntisymmetric == Antisymmetric(Revision)
<1> SUFFICES ASSUME NEW a \in Revision, NEW b \in Revision
             PROVE  compare_project_revisions(b, a) = Flip(compare_project_revisions(a, b))
  BY DEF Antisymmetric
<1>1. /\ CompareBytes(b.revision, a.revision) = Flip(CompareBytes(a.revision, b.revision))
      /\ CompareParents(b.parent, a.parent) = Flip(CompareParents(a.parent, b.parent))
      /\ CompareNumbers(b.origin, a.origin) = Flip(CompareNumbers(a.origin, b.origin))
      /\ CompareText(b.summary, a.summary) = Flip(CompareText(a.summary, b.summary))
  BY FieldLaws
<1>2. /\ CompareBytes(a.revision, b.revision) \in Verdicts
      /\ CompareParents(a.parent, b.parent) \in Verdicts
      /\ CompareNumbers(a.origin, b.origin) \in Verdicts
      /\ CompareText(a.summary, b.summary) \in Verdicts
  BY FieldLaws
<1> QED
  BY <1>1, <1>2 DEF compare_project_revisions, Flip, Verdicts

\* Revisions that compare as equal are the same in every field.
THEOREM EqualRevisionsAreIdentical == EqualIsIdentical(Revision)
<1> SUFFICES ASSUME NEW a \in Revision, NEW b \in Revision,
                    compare_project_revisions(a, b) = "equal"
             PROVE  a = b
  BY DEF EqualIsIdentical
<1>1. /\ CompareBytes(a.revision, b.revision) = "equal"
      /\ CompareParents(a.parent, b.parent) = "equal"
      /\ CompareNumbers(a.origin, b.origin) = "equal"
      /\ CompareText(a.summary, b.summary) = "equal"
  BY DEF compare_project_revisions
<1>2. /\ a.revision = b.revision /\ a.parent = b.parent
      /\ a.origin = b.origin /\ a.summary = b.summary
  BY <1>1, FieldLaws
<1> QED
  BY <1>2 DEF Revision, Metadata

\* Less is transitive on revisions.
THEOREM RevisionsAreTransitive == Transitive(Revision)
<1> SUFFICES ASSUME NEW a \in Revision, NEW b \in Revision, NEW c \in Revision,
                    compare_project_revisions(a, b) = "less",
                    compare_project_revisions(b, c) = "less"
             PROVE  compare_project_revisions(a, c) = "less"
  BY DEF Transitive
<1>1. \A r \in {a, b, c} : /\ r.revision \in Id /\ r.parent \in Parents
                           /\ r.origin \in Nat /\ r.summary \in Seq(Nat)
  BY DEF Revision, Metadata, Parents, Origin, ManualEdit, Recognition, Migration
<1>2. CASE ~(a.revision = b.revision /\ b.revision = c.revision)
  <2>1. CompareBytes(a.revision, b.revision) = "equal" <=> a.revision = b.revision
    BY FieldLaws
  <2>2. CompareBytes(b.revision, c.revision) = "equal" <=> b.revision = c.revision
    BY FieldLaws
  <2>3. /\ a.revision = b.revision \/ CompareBytes(a.revision, b.revision) = "less"
        /\ b.revision = c.revision \/ CompareBytes(b.revision, c.revision) = "less"
    BY <2>1, <2>2 DEF compare_project_revisions
  <2>4. CompareBytes(a.revision, c.revision) = "less"
    BY <1>1, <1>2, <2>3, BytesTransitive
  <2> QED
    BY <2>4 DEF compare_project_revisions
<1>3. CASE /\ a.revision = b.revision /\ b.revision = c.revision
           /\ ~(a.parent = b.parent /\ b.parent = c.parent)
  <2>0. /\ CompareBytes(a.revision, b.revision) = "equal"
        /\ CompareBytes(b.revision, c.revision) = "equal"
        /\ CompareBytes(a.revision, c.revision) = "equal"
    BY <1>3, FieldLaws
  <2>1. CompareParents(a.parent, b.parent) = "equal" <=> a.parent = b.parent
    BY FieldLaws
  <2>2. CompareParents(b.parent, c.parent) = "equal" <=> b.parent = c.parent
    BY FieldLaws
  <2>3. /\ a.parent = b.parent \/ CompareParents(a.parent, b.parent) = "less"
        /\ b.parent = c.parent \/ CompareParents(b.parent, c.parent) = "less"
    BY <2>0, <2>1, <2>2 DEF compare_project_revisions
  <2>4. CompareParents(a.parent, c.parent) = "less"
    BY <1>1, <1>3, <2>3, ParentTransitive
  <2> QED
    BY <2>0, <2>4 DEF compare_project_revisions
<1>4. CASE /\ a.revision = b.revision /\ b.revision = c.revision
           /\ a.parent = b.parent /\ b.parent = c.parent
  <2>0. /\ CompareBytes(a.revision, b.revision) = "equal"
        /\ CompareBytes(b.revision, c.revision) = "equal"
        /\ CompareBytes(a.revision, c.revision) = "equal"
        /\ CompareParents(a.parent, b.parent) = "equal"
        /\ CompareParents(b.parent, c.parent) = "equal"
        /\ CompareParents(a.parent, c.parent) = "equal"
    BY <1>4, FieldLaws
  <2>1. /\ CompareNumbers(a.origin, b.origin) = "less" \/ a.origin = b.origin
        /\ CompareNumbers(b.origin, c.origin) = "less" \/ b.origin = c.origin
    <3>1. CompareNumbers(a.origin, b.origin) = "equal" <=> a.origin = b.origin
      BY FieldLaws
    <3>2. CompareNumbers(b.origin, c.origin) = "equal" <=> b.origin = c.origin
      BY FieldLaws
    <3> QED
      BY <2>0, <3>1, <3>2 DEF compare_project_revisions
  <2>2. CASE ~(a.origin = b.origin /\ b.origin = c.origin)
    <3>1. CompareNumbers(a.origin, c.origin) = "less"
      BY <1>1, <2>1, <2>2 DEF CompareNumbers
    <3> QED
      BY <2>0, <3>1 DEF compare_project_revisions
  <2>3. CASE a.origin = b.origin /\ b.origin = c.origin
    <3>1. /\ CompareNumbers(a.origin, b.origin) = "equal"
          /\ CompareNumbers(b.origin, c.origin) = "equal"
          /\ CompareNumbers(a.origin, c.origin) = "equal"
      BY <2>3, FieldLaws
    <3>2. /\ CompareText(a.summary, b.summary) = "less"
          /\ CompareText(b.summary, c.summary) = "less"
      BY <2>0, <3>1 DEF compare_project_revisions
    <3>3. CompareText(a.summary, c.summary) = "less"
      BY <1>1, <3>2, TextTransitive
    <3> QED
      BY <2>0, <3>1, <3>3 DEF compare_project_revisions
  <2> QED
    BY <2>2, <2>3
<1> QED
  BY <1>2, <1>3, <1>4

-----------------------------------------------------------------------------
\* The revisions of a project, whatever comes in whatever order, are ordered
\* totally by compare_project_revisions, consistently with equality.
THEOREM HistoryIsOrdered == HistorySpec => []ComparisonIsATotalOrder
<1> DEFINE TypeInv == arrived \in Seq(Revisions)
<1>1. HistoryInit => TypeInv
  BY DEF HistoryInit
<1>2. TypeInv /\ [HistoryNext]_arrived => TypeInv'
  BY DEF HistoryNext, Arrive
<1>3. TypeInv => ComparisonIsATotalOrder
  <2> SUFFICES ASSUME TypeInv
               PROVE  ComparisonIsATotalOrder
    OBVIOUS
  <2>1. Arrived \subseteq Revision
    BY RevisionsAssumption DEF Arrived, Revision
  <2>2. Antisymmetric(Arrived)
    BY <2>1, RevisionsAreAntisymmetric DEF Antisymmetric
  <2>3. EqualIsIdentical(Arrived)
    BY <2>1, EqualRevisionsAreIdentical DEF EqualIsIdentical
  <2>4. Transitive(Arrived)
    BY <2>1, RevisionsAreTransitive DEF Transitive
  <2> QED
    BY <2>2, <2>3, <2>4 DEF ComparisonIsATotalOrder
<1> QED
  BY <1>1, <1>2, <1>3, PTL DEF HistorySpec

-----------------------------------------------------------------------------
(***************************************************************************)
(* What the fields say.                                                    *)
(***************************************************************************)
LEMMA TextsOfKeys ==
  /\ TextOf("revisionId") = {<<>>} \cup Id /\ TextOf("parentRevisionId") = {<<>>} \cup Id
  /\ TextOf("origin") = {<<>>} \cup {<<o>> : o \in Origin}
  /\ TextOf("summary") = Seq(Nat)
  BY DEF TextOf

LEMMA IdsAreNotEmpty == <<>> \notin Id
  BY IdAssumption DEF Id

\* A field that has been seen holds a text of its key.
LEMMA FieldText ==
  ASSUME TypeOK, FieldsAreScanned, FieldsHaveMembers, NEW f \in Fields, fields[f] # <<>>
  PROVE  \E t \in TextOf(f) : fields[f] = <<t>>
<1>1. PICK k \in 1..(i - 1) : document.members[k].key = f
  BY DEF FieldsHaveMembers
<1>2. k \in DOMAIN document.members
  BY DEF TypeOK, IsDocument
<1>3. fields[f] = <<document.members[k].text>>
  BY <1>1 DEF FieldsAreScanned
<1>4. QED
  BY <1>1, <1>2, <1>3 DEF TypeOK, IsDocument

\* What is built of a complete object is a revision.
LEMMA BuiltIsMetadata ==
  ASSUME TypeOK, FieldsAreScanned, FieldsHaveMembers, Completed, Buildable
  PROVE  Built \in Metadata(Seq(Nat)) /\ ValidValues(Built)
<1>1. PICK r \in TextOf("revisionId") : fields["revisionId"] = <<r>>
  BY FieldText DEF Completed, Required, Fields
<1>2. r \in Id
  BY <1>1, TextsOfKeys DEF Buildable
<1>3. fields["parentRevisionId"] \in {<<>>} \cup {<<id>> : id \in Id}
  <2>1. CASE fields["parentRevisionId"] # <<>>
    <3>1. PICK p \in TextOf("parentRevisionId") : fields["parentRevisionId"] = <<p>>
      BY <2>1, FieldText DEF Fields
    <3>2. p \in Id
      BY <3>1, TextsOfKeys DEF Buildable
    <3>3. QED
      BY <3>1, <3>2
  <2>2. QED
    BY <2>1
<1>4. PICK o \in TextOf("origin") : fields["origin"] = <<o>>
  BY FieldText DEF Completed, Required, Fields
<1>5. PICK n \in Origin : o = <<n>>
  BY <1>4, TextsOfKeys DEF Buildable
<1>6. PICK s \in TextOf("summary") : fields["summary"] = <<s>>
  BY FieldText DEF Completed, Required, Fields
<1>7. Built = [revision |-> r, parent |-> fields["parentRevisionId"], origin |-> n, summary |-> s]
  BY <1>1, <1>4, <1>5, <1>6 DEF Built
<1>8. s \in Seq(Nat)
  BY TextsOfKeys
<1>9. Built \in Metadata(Seq(Nat))
  BY <1>2, <1>3, <1>7, <1>8 DEF Metadata
<1>10. QED
  BY <1>9 DEF Buildable

-----------------------------------------------------------------------------
(***************************************************************************)
(* What is written.                                                        *)
(***************************************************************************)
LEMMA Joined ==
  ASSUME NEW S, NEW x \in Seq(S), NEW y \in Seq(S), NEW z \in Seq(S), Len(z) = Len(x) + Len(y),
         \A k \in 1..Len(x) : z[k] = x[k],
         \A k \in 1..Len(y) : z[Len(x) + k] = y[k]
  PROVE  x \o y = z
<1>1. /\ x \o y \in Seq(S) /\ Len(x \o y) = Len(z)
      /\ \A k \in 1..Len(z) : (x \o y)[k] = IF k <= Len(x) THEN x[k] ELSE y[k - Len(x)]
  BY ConcatProperties
<1>2. ASSUME NEW k \in 1..Len(z) PROVE (x \o y)[k] = z[k]
  <2>1. CASE k <= Len(x)
    BY <1>1, <2>1
  <2>2. CASE ~(k <= Len(x))
    <3>1. k - Len(x) \in 1..Len(y) /\ Len(x) + (k - Len(x)) = k
      BY <2>2
    <3>2. QED
      BY <1>1, <2>2, <3>1
  <2>3. QED
    BY <2>1, <2>2
<1>3. QED
  BY <1>1, <1>2, SeqEqual

LEMMA OneAndOne ==
  ASSUME NEW S, NEW a \in S, NEW b \in S
  PROVE  <<a>> \o <<b>> = <<a, b>>
<1> DEFINE x == <<a>>
           y == <<b>>
           z == <<a, b>>
<1>1. /\ x \in Seq(S) /\ Len(x) = 1 /\ x[1] = a
      /\ y \in Seq(S) /\ Len(y) = 1 /\ y[1] = b
      /\ z \in Seq(S) /\ Len(z) = 2 /\ z[1] = a /\ z[2] = b
  OBVIOUS
<1> HIDE DEF x, y, z
<1>2. Len(z) = Len(x) + Len(y)
  BY <1>1
<1>3. \A k \in 1..Len(x) : z[k] = x[k]
  BY <1>1
<1>4. \A k \in 1..Len(y) : z[Len(x) + k] = y[k]
  BY <1>1
<1>5. x \o y = z
  BY <1>1, <1>2, <1>3, <1>4, Joined, Zenon
<1>6. QED
  BY <1>5 DEF x, y, z

LEMMA OneAndTwo ==
  ASSUME NEW S, NEW a \in S, NEW b \in S, NEW c \in S
  PROVE  <<a>> \o <<b, c>> = <<a, b, c>>
<1> DEFINE x == <<a>>
           y == <<b, c>>
           z == <<a, b, c>>
<1>1. /\ x \in Seq(S) /\ Len(x) = 1 /\ x[1] = a
      /\ y \in Seq(S) /\ Len(y) = 2 /\ y[1] = b /\ y[2] = c
      /\ z \in Seq(S) /\ Len(z) = 3 /\ z[1] = a /\ z[2] = b /\ z[3] = c
  OBVIOUS
<1> HIDE DEF x, y, z
<1>2. Len(z) = Len(x) + Len(y)
  BY <1>1
<1>3. \A k \in 1..Len(x) : z[k] = x[k]
  BY <1>1
<1>4. \A k \in 1..Len(y) : z[Len(x) + k] = y[k]
  BY <1>1
<1>5. x \o y = z
  BY <1>1, <1>2, <1>3, <1>4, Joined, Zenon
<1>6. QED
  BY <1>5 DEF x, y, z

LEMMA TwoAndTwo ==
  ASSUME NEW S, NEW a \in S, NEW b \in S, NEW c \in S, NEW d \in S
  PROVE  <<a, b>> \o <<c, d>> = <<a, b, c, d>>
<1> DEFINE x == <<a, b>>
           y == <<c, d>>
           z == <<a, b, c, d>>
<1>1. /\ x \in Seq(S) /\ Len(x) = 2 /\ x[1] = a /\ x[2] = b
      /\ y \in Seq(S) /\ Len(y) = 2 /\ y[1] = c /\ y[2] = d
      /\ z \in Seq(S) /\ Len(z) = 4 /\ z[1] = a /\ z[2] = b /\ z[3] = c /\ z[4] = d
  OBVIOUS
<1> HIDE DEF x, y, z
<1>2. Len(z) = Len(x) + Len(y)
  BY <1>1
<1>3. \A k \in 1..Len(x) : z[k] = x[k]
  BY <1>1
<1>4. \A k \in 1..Len(y) : z[Len(x) + k] = y[k]
  BY <1>1
<1>5. x \o y = z
  BY <1>1, <1>2, <1>3, <1>4, Joined, Zenon
<1>6. QED
  BY <1>5 DEF x, y, z

LEMMA JoinedTuples ==
  ASSUME NEW a, NEW b, NEW c, NEW d
  PROVE  /\ <<a>> \o <<>> \o <<c, d>> = <<a, c, d>>
         /\ <<a>> \o <<b>> \o <<c, d>> = <<a, b, c, d>>
<1> DEFINE S == {a, b, c, d}
<1>1. a \in S /\ b \in S /\ c \in S /\ d \in S /\ <<a>> \in Seq(S)
  OBVIOUS
<1> HIDE DEF S
<1>2. <<a>> \o <<>> = <<a>>
  BY <1>1, ConcatEmptySeq
<1>3. QED
  <2>1. <<a>> \o <<b>> = <<a, b>>
    BY <1>1, OneAndOne
  <2>2. <<a>> \o <<c, d>> = <<a, c, d>>
    BY <1>1, OneAndTwo
  <2>3. <<a, b>> \o <<c, d>> = <<a, b, c, d>>
    BY <1>1, TwoAndTwo
  <2>4. QED
    BY <1>2, <2>1, <2>2, <2>3

LEMMA WithoutParent ==
  ASSUME NEW m, m.parent = <<>>
  PROVE  to_json(m).members = << String("revisionId", m.revision),
                                 String("origin", <<m.origin>>), String("summary", m.summary) >>
<1>1. to_json(m).members = << String("revisionId", m.revision) >> \o <<>>
                             \o << String("origin", <<m.origin>>), String("summary", m.summary) >>
  BY DEF to_json
<1>2. QED
  BY <1>1, JoinedTuples, Zenon

LEMMA WithParent ==
  ASSUME NEW m, m.parent # <<>>
  PROVE  to_json(m).members = << String("revisionId", m.revision),
                                 String("parentRevisionId", m.parent[1]),
                                 String("origin", <<m.origin>>), String("summary", m.summary) >>
<1>1. to_json(m).members = << String("revisionId", m.revision) >>
                             \o << String("parentRevisionId", m.parent[1]) >>
                             \o << String("origin", <<m.origin>>), String("summary", m.summary) >>
  BY DEF to_json
<1>2. QED
  BY <1>1, JoinedTuples, Zenon

\* Of a written document, the members are strings, their keys are known and all
\* different, each text is that of the field, and there is a parent only if the
\* revision has one.
Written(doc, m) ==
  LET ms == doc.members
  IN  /\ doc.closed /\ ~doc.tail
      /\ Len(ms) \in Nat /\ DOMAIN ms = 1..Len(ms)
      /\ \A k \in DOMAIN ms :
           /\ ms[k].string
           /\ \/ ms[k].key = "revisionId" /\ ms[k].text = m.revision
              \/ ms[k].key = "parentRevisionId" /\ m.parent = <<ms[k].text>>
              \/ ms[k].key = "origin" /\ ms[k].text = <<m.origin>>
              \/ ms[k].key = "summary" /\ ms[k].text = m.summary
           /\ \A l \in DOMAIN ms : ms[l].key = ms[k].key => k = l
      /\ \E k \in DOMAIN ms : ms[k].key = "revisionId"
      /\ m.parent # <<>> => \E k \in DOMAIN ms : ms[k].key = "parentRevisionId"
      /\ \E k \in DOMAIN ms : ms[k].key = "origin"
      /\ \E k \in DOMAIN ms : ms[k].key = "summary"

LEMMA WrittenMembers ==
  ASSUME NEW m \in Metadata(Seq(Nat))
  PROVE  Written(to_json(m), m)
<1> DEFINE a == String("revisionId", m.revision)
           b == String("parentRevisionId", m.parent[1])
           c == String("origin", <<m.origin>>)
           d == String("summary", m.summary)
           doc == to_json(m)
<1>1. m.parent \in {<<>>} \cup {<<id>> : id \in Id}
  BY DEF Metadata
<1>2. /\ a.key = "revisionId" /\ a.string /\ a.text = m.revision
      /\ b.key = "parentRevisionId" /\ b.string /\ b.text = m.parent[1]
      /\ c.key = "origin" /\ c.string /\ c.text = <<m.origin>>
      /\ d.key = "summary" /\ d.string /\ d.text = m.summary
  BY DEF String
<1>3. m.parent # <<>> => m.parent = <<b.text>>
  BY <1>1, <1>2
<1>4. doc.closed /\ ~doc.tail
  BY DEF to_json
<1>5. CASE m.parent = <<>>
  <2>1. doc.members = <<a, c, d>>
    BY <1>5, WithoutParent
  <2> HIDE DEF a, b, c, d, doc
  <2>2. /\ Len(doc.members) = 3 /\ DOMAIN doc.members = 1..3
        /\ doc.members[1] = a /\ doc.members[2] = c /\ doc.members[3] = d
    BY <2>1
  <2>3. QED
    BY <1>2, <1>4, <1>5, <2>2 DEF Written, doc
<1>6. CASE m.parent # <<>>
  <2>1. doc.members = <<a, b, c, d>>
    BY <1>6, WithParent
  <2> HIDE DEF a, b, c, d, doc
  <2>2. /\ Len(doc.members) = 4 /\ DOMAIN doc.members = 1..4
        /\ doc.members[1] = a /\ doc.members[2] = b
        /\ doc.members[3] = c /\ doc.members[4] = d
    BY <2>1
  <2>3. QED
    BY <1>2, <1>3, <1>4, <1>6, <2>2 DEF Written, doc
<1>7. QED
  BY <1>5, <1>6

LEMMA WrittenDocument ==
  ASSUME NEW m \in Metadata(Seq(Nat))
  PROVE  IsDocument(to_json(m))
<1> DEFINE doc == to_json(m)
           ms == doc.members
<1>1. /\ m.revision \in Id /\ m.parent \in {<<>>} \cup {<<id>> : id \in Id}
      /\ m.origin \in Origin /\ m.summary \in Seq(Nat)
  BY DEF Metadata
<1>2. Written(doc, m)
  BY WrittenMembers
<1> HIDE DEF doc
<1>3. ASSUME NEW k \in DOMAIN ms PROVE ms[k].text \in TextOf(ms[k].key)
  <2>1. CASE ms[k].key = "revisionId" /\ ms[k].text = m.revision
    BY <1>1, <2>1, TextsOfKeys
  <2>2. CASE ms[k].key = "parentRevisionId" /\ m.parent = <<ms[k].text>>
    <3>1. ms[k].text \in Id
      BY <1>1, <2>2
    <3>2. QED
      BY <2>2, <3>1, TextsOfKeys
  <2>3. CASE ms[k].key = "origin" /\ ms[k].text = <<m.origin>>
    BY <1>1, <2>3, TextsOfKeys
  <2>4. CASE ms[k].key = "summary" /\ ms[k].text = m.summary
    BY <1>1, <2>4, TextsOfKeys
  <2>5. QED
    BY <1>2, <2>1, <2>2, <2>3, <2>4 DEF Written
<1>4. QED
  BY <1>2, <1>3 DEF IsDocument, Written, doc

-----------------------------------------------------------------------------
(***************************************************************************)
(* What was written is never refused.                                      *)
(***************************************************************************)
LEMMA OneLong ==
  ASSUME NEW S, NEW s \in Seq(S), Len(s) <= 1, s # <<>>
  PROVE  s[1] \in S /\ s = <<s[1]>>
<1>1. Len(s) = 1 /\ s[1] \in S
  <2>1. Len(s) # 0 /\ Len(s) \in Nat
    BY EmptySeq
  <2>2. Len(s) = 1
    BY <2>1
  <2>3. QED
    BY <2>2, ElementOfSeq
<1>2. <<s[1]>> \in Seq(S) /\ Len(<<s[1]>>) = 1 /\ <<s[1]>>[1] = s[1]
  BY <1>1
<1>3. QED
  BY <1>1, <1>2, SeqEqual

LEMMA SavedMeaning ==
  ASSUME ScannerInvariant, saved # <<>>
  PROVE  /\ saved[1] \in Metadata(Seq(Nat)) /\ saved = <<saved[1]>>
         /\ ValidValues(saved[1]) /\ Written(document, saved[1])
<1>1. saved[1] \in Metadata(Seq(Nat)) /\ saved = <<saved[1]>>
  BY OneLong DEF ScannerInvariant, TypeOK
<1>2. QED
  BY <1>1, WrittenMembers DEF ScannerInvariant, SavedIsWritten

LEMMA Position ==
  ASSUME ScannerInvariant
  PROVE  /\ Len(document.members) \in Nat /\ DOMAIN document.members = 1..Len(document.members)
         /\ i \in Nat /\ 1 <= i /\ i <= Len(document.members) + 1
         /\ i <= Len(document.members) => i \in DOMAIN document.members
         /\ 1..(i - 1) \subseteq DOMAIN document.members
         /\ i > Len(document.members) => 1..(i - 1) = DOMAIN document.members
  BY DEF ScannerInvariant, TypeOK, IsDocument

LEMMA WrittenIsTaken ==
  ASSUME ScannerInvariant, saved # <<>>, i <= Len(document.members)
  PROVE  Taken(Current)
<1>1. i \in DOMAIN document.members
  BY Position
<1>2. Written(document, saved[1])
  BY SavedMeaning
<1>3. Current.string /\ Current.key \in Fields
  BY <1>1, <1>2 DEF Written, Current, Fields
<1>4. fields[Current.key] = <<>>
  <2>1. SUFFICES ASSUME fields[Current.key] # <<>> PROVE FALSE
    OBVIOUS
  <2>2. PICK k \in 1..(i - 1) : document.members[k].key = Current.key
    BY <1>3, <2>1 DEF ScannerInvariant, FieldsHaveMembers
  <2>3. k \in DOMAIN document.members /\ k # i
    BY <2>2, Position
  <2>4. QED
    BY <1>1, <1>2, <2>2, <2>3 DEF Written, Current
<1>5. QED
  BY <1>3, <1>4 DEF Taken, IsNew

LEMMA WrittenIsBuilt ==
  ASSUME ScannerInvariant, saved # <<>>, i > Len(document.members)
  PROVE  Completed /\ Buildable /\ Built = saved[1]
<1> DEFINE m == saved[1]
           ms == document.members
<1>1. Written(document, m) /\ m \in Metadata(Seq(Nat)) /\ ValidValues(m)
  BY SavedMeaning
<1>2. /\ m.revision \in Id /\ m.parent \in {<<>>} \cup {<<id>> : id \in Id}
      /\ m.origin \in Origin /\ m.summary \in Seq(Nat)
      /\ m = [revision |-> m.revision, parent |-> m.parent, origin |-> m.origin,
              summary |-> m.summary]
  BY <1>1 DEF Metadata
<1>3. ASSUME NEW k \in DOMAIN ms PROVE fields[ms[k].key] = <<ms[k].text>>
  BY Position DEF ScannerInvariant, FieldsAreScanned
<1> HIDE DEF m
<1>4. fields["revisionId"] = <<m.revision>>
  BY <1>1, <1>3 DEF Written
<1>5. fields["origin"] = << <<m.origin>> >>
  BY <1>1, <1>3 DEF Written
<1>6. fields["summary"] = <<m.summary>>
  BY <1>1, <1>3 DEF Written
<1>7. fields["parentRevisionId"] = m.parent
  <2>1. CASE m.parent = <<>>
    <3>1. \A k \in DOMAIN ms : ms[k].key # "parentRevisionId"
      BY <1>1, <2>1 DEF Written
    <3>2. fields["parentRevisionId"] = <<>>
      BY <3>1, Position DEF ScannerInvariant, FieldsHaveMembers, Fields
    <3>3. QED
      BY <2>1, <3>2
  <2>2. CASE m.parent # <<>>
    <3>1. PICK k \in DOMAIN ms : ms[k].key = "parentRevisionId"
      BY <1>1, <2>2 DEF Written
    <3>2. m.parent = <<ms[k].text>>
      BY <1>1, <3>1 DEF Written
    <3>3. QED
      BY <1>3, <3>1, <3>2
  <2>3. QED
    BY <2>1, <2>2
<1>8. Built = m
  <2>1. Built = [revision |-> m.revision, parent |-> m.parent, origin |-> m.origin,
                 summary |-> m.summary]
    BY <1>4, <1>5, <1>6, <1>7 DEF Built
  <2>2. QED
    BY <1>2, <2>1
<1>9. Completed
  <2>1. ms # <<>> /\ document.closed /\ ~document.tail
    BY <1>1 DEF Written
  <2>2. /\ fields["revisionId"] # <<>> /\ fields["origin"] # <<>>
        /\ fields["summary"] # <<>>
    BY <1>4, <1>5, <1>6
  <2>3. \A f \in Required : fields[f] # <<>>
    BY <2>2 DEF Required
  <2>4. QED
    BY <2>1, <2>3 DEF Completed
<1>10. Buildable
  <2>1. m.parent # << <<>> >>
    <3>1. SUFFICES ASSUME m.parent = << <<>> >> PROVE FALSE
      OBVIOUS
    <3>2. m.parent[1] = <<>> /\ m.parent # <<>>
      BY <3>1
    <3>3. PICK id \in Id : m.parent = <<id>>
      BY <1>2, <3>2
    <3>4. m.parent[1] = id
      BY <3>3
    <3>5. QED
      BY <3>2, <3>4, IdsAreNotEmpty
  <2>2. m.revision # <<>> /\ <<m.origin>> # <<>>
    BY <1>2, IdsAreNotEmpty
  <2>3. /\ fields["revisionId"] # << <<>> >> /\ fields["origin"] # << <<>> >>
        /\ fields["parentRevisionId"] # << <<>> >>
    BY <1>4, <1>5, <1>7, <2>1, <2>2
  <2>4. ValidValues(Built)
    BY <1>1, <1>8
  <2>5. QED
    BY <2>3, <2>4 DEF Buildable
<1>11. QED
  BY <1>8, <1>9, <1>10 DEF m

-----------------------------------------------------------------------------
(***************************************************************************)
(* The invariant.                                                          *)
(***************************************************************************)
LEMMA TextsAreSequences ==
  ASSUME NEW key, NEW t \in TextOf(key)
  PROVE  t \in Seq(Nat)
<1>1. <<>> \in Seq(Nat)
  OBVIOUS
<1>2. CASE key \in {"revisionId", "parentRevisionId"}
  <2>1. Id \subseteq Seq(Nat)
    BY IdAssumption DEF Id
  <2>2. t \in {<<>>} \cup Id
    BY <1>2, TextsOfKeys
  <2>3. QED
    BY <1>1, <2>1, <2>2
<1>3. CASE key = "origin"
  <2>1. Origin \subseteq Nat
    BY DEF Origin, ManualEdit, Recognition, Migration
  <2>2. t = <<>> \/ \E o \in Origin : t = <<o>>
    BY <1>3, TextsOfKeys
  <2>3. CASE \E o \in Origin : t = <<o>>
    <3>1. PICK o \in Nat : t = <<o>>
      BY <2>1, <2>3
    <3>2. QED
      BY <3>1
  <2>4. QED
    BY <1>1, <2>2, <2>3
<1>4. CASE key \notin {"revisionId", "parentRevisionId", "origin"}
  BY <1>4 DEF TextOf
<1>5. QED
  BY <1>2, <1>3, <1>4

LEMMA InitScans == Init => ScannerInvariant
<1> SUFFICES ASSUME Init PROVE ScannerInvariant
  OBVIOUS
<1>1. IsDocument(document)
  BY DocumentsAssumption DEF Init
<1>2. TypeOK
  BY <1>1 DEF Init, TypeOK, NoFields, IsDocument
<1>3. QED
  BY <1>2 DEF Init, ScannerInvariant, FieldsAreScanned, FieldsHaveMembers, ObjectIsComplete,
     SavedIsWritten, ReopenedIsUnchanged, NoFields

LEMMA ScanMemberScans ==
  ASSUME ScannerInvariant, ScanMember
  PROVE  ScannerInvariant'
<1> DEFINE ms == document.members
           key == Current.key
<1>1. /\ i \in DOMAIN ms /\ i \in Nat /\ i' = i + 1 /\ i' <= Len(ms) + 1 /\ Len(ms) \in Nat
      /\ 1..(i' - 1) = 1..(i - 1) \cup {i}
  BY Position DEF ScanMember
<1>2. key \in Fields /\ Current.string /\ fields[key] = <<>> /\ Current = ms[i]
  BY DEF ScanMember, Taken, IsNew, Current
<1>3. Current.text \in Seq(Nat)
  BY <1>1, TextsAreSequences DEF Current, ScannerInvariant, TypeOK, IsDocument
<1>4. /\ fields \in [Fields -> Seq(Seq(Nat))] /\ fields'[key] = <<Current.text>>
      /\ \A f \in Fields \ {key} : fields'[f] = fields[f]
      /\ fields' \in [Fields -> Seq(Seq(Nat))]
  BY <1>2, <1>3 DEF ScannerInvariant, TypeOK, ScanMember
<1>5. UNCHANGED <<document, pc, metadata, saved>> /\ pc = "scan"
  BY DEF ScanMember
<1>6. TypeOK'
  BY <1>1, <1>4, <1>5 DEF ScannerInvariant, TypeOK
<1> HIDE DEF key
<1>7. ASSUME NEW k \in 1..(i - 1) PROVE ms[k].key # key
  <2>1. fields[ms[k].key] = <<ms[k].text>>
    BY DEF ScannerInvariant, FieldsAreScanned
  <2>2. <<ms[k].text>> # <<>>
    OBVIOUS
  <2>3. QED
    BY <1>2, <2>1, <2>2, Zenon
<1>8. FieldsAreScanned'
  <2> SUFFICES ASSUME NEW k \in 1..(i' - 1)
               PROVE  /\ ms[k].string /\ ms[k].key \in Fields
                      /\ fields'[ms[k].key] = <<ms[k].text>>
                      /\ \A l \in 1..(i' - 1) : ms[l].key = ms[k].key => k = l
    BY <1>5 DEF FieldsAreScanned
  <2>1. CASE k = i
    BY <1>1, <1>2, <1>4, <1>7, <2>1 DEF key
  <2>2. CASE k \in 1..(i - 1)
    <3>1. /\ ms[k].string /\ ms[k].key \in Fields /\ fields[ms[k].key] = <<ms[k].text>>
          /\ \A l \in 1..(i - 1) : ms[l].key = ms[k].key => k = l
      BY <2>2 DEF ScannerInvariant, FieldsAreScanned
    <3>2. ms[k].key # key
      BY <1>7, <2>2
    <3>3. QED
      BY <1>1, <1>2, <1>4, <3>1, <3>2 DEF key
  <2>3. QED
    BY <1>1, <2>1, <2>2
<1>9. FieldsHaveMembers'
  <2> SUFFICES ASSUME NEW f \in Fields, fields'[f] # <<>>
               PROVE  \E k \in 1..(i' - 1) : ms[k].key = f
    BY <1>5 DEF FieldsHaveMembers
  <2>1. CASE f = key
    BY <1>1, <1>2, <2>1 DEF key
  <2>2. CASE f # key
    <3>1. PICK k \in 1..(i - 1) : ms[k].key = f
      BY <1>4, <2>2 DEF ScannerInvariant, FieldsHaveMembers
    <3>2. QED
      BY <1>1, <3>1
  <2>3. QED
    BY <2>1, <2>2
<1>10. ObjectIsComplete' /\ SavedIsWritten' /\ ReopenedIsUnchanged'
  BY <1>5 DEF ScannerInvariant, ObjectIsComplete, SavedIsWritten, ReopenedIsUnchanged
<1>11. QED
  BY <1>6, <1>8, <1>9, <1>10 DEF ScannerInvariant

LEMMA CompleteScans ==
  ASSUME ScannerInvariant, Complete
  PROVE  ScannerInvariant'
<1>1. /\ UNCHANGED <<document, i, fields, metadata, saved>>
      /\ pc = "scan" /\ pc' = "build" /\ Completed /\ Completed'
      /\ i > Len(document.members)
  BY DEF Complete, Completed
<1>2. QED
  BY <1>1 DEF ScannerInvariant, TypeOK, FieldsAreScanned, FieldsHaveMembers, ObjectIsComplete,
     SavedIsWritten, ReopenedIsUnchanged

LEMMA BuildScans ==
  ASSUME ScannerInvariant, Build
  PROVE  ScannerInvariant'
<1>1. /\ UNCHANGED <<document, i, fields, saved>> /\ pc = "build" /\ pc' = "accepted"
      /\ Buildable /\ metadata' = <<Built>>
  BY DEF Build
<1>2. Completed /\ i > Len(document.members)
  BY <1>1 DEF ScannerInvariant, ObjectIsComplete
<1>3. Built \in Metadata(Seq(Nat))
  BY <1>1, <1>2, BuiltIsMetadata DEF ScannerInvariant
<1>4. Built' = Built /\ Buildable' /\ Completed'
  BY <1>1, <1>2 DEF Built, Buildable, Completed
<1>5. saved # <<>> => metadata' = saved
  BY <1>1, <1>2, WrittenIsBuilt, SavedMeaning
<1>6. metadata' \in Seq(Metadata(Seq(Nat)))
  BY <1>1, <1>3
<1>7. TypeOK'
  BY <1>1, <1>6 DEF ScannerInvariant, TypeOK
<1>8. FieldsAreScanned' /\ FieldsHaveMembers' /\ SavedIsWritten'
  BY <1>1 DEF ScannerInvariant, FieldsAreScanned, FieldsHaveMembers, SavedIsWritten
<1>9. ObjectIsComplete'
  BY <1>1, <1>2, <1>4 DEF ObjectIsComplete
<1>10. ReopenedIsUnchanged'
  BY <1>1, <1>5 DEF ReopenedIsUnchanged
<1>11. QED
  BY <1>7, <1>8, <1>9, <1>10 DEF ScannerInvariant

LEMMA RefuseScans ==
  ASSUME ScannerInvariant, Refuse
  PROVE  ScannerInvariant' /\ saved = <<>>
<1>1. UNCHANGED <<document, i, fields, metadata, saved>> /\ pc' = "refused"
  BY DEF Refuse
<1>2. pc # "accepted" /\ metadata = <<>>
  BY DEF Refuse, ScannerInvariant, ObjectIsComplete
<1>3. saved = <<>>
  <2>1. SUFFICES ASSUME saved # <<>> PROVE FALSE
    OBVIOUS
  <2>2. i <= Len(document.members) \/ i > Len(document.members)
    BY Position
  <2>3. pc = "build" => i > Len(document.members)
    BY DEF ScannerInvariant, ObjectIsComplete
  <2>4. QED
    BY <2>1, <2>2, <2>3, WrittenIsTaken, WrittenIsBuilt DEF Refuse
<1>4. TypeOK' /\ FieldsAreScanned' /\ FieldsHaveMembers'
  BY <1>1 DEF ScannerInvariant, TypeOK, FieldsAreScanned, FieldsHaveMembers
<1>5. ObjectIsComplete' /\ SavedIsWritten' /\ ReopenedIsUnchanged'
  BY <1>1, <1>2, <1>3 DEF ObjectIsComplete, SavedIsWritten, ReopenedIsUnchanged
<1>6. QED
  BY <1>3, <1>4, <1>5 DEF ScannerInvariant

LEMMA ReopenScans ==
  ASSUME ScannerInvariant, Reopen
  PROVE  ScannerInvariant'
<1>1. /\ pc = "accepted" /\ saved' = metadata /\ document' = to_json(metadata[1])
      /\ i' = 1 /\ fields' = NoFields /\ pc' = "scan" /\ metadata' = <<>>
  BY DEF Reopen
<1>2. metadata = <<Built>> /\ Buildable /\ Completed
  BY <1>1 DEF ScannerInvariant, ObjectIsComplete
<1>3. Built \in Metadata(Seq(Nat)) /\ ValidValues(Built)
  BY <1>2, BuiltIsMetadata DEF ScannerInvariant
<1>4. metadata[1] = Built /\ saved'[1] = Built /\ Len(saved') = 1
      /\ saved' \in Seq(Metadata(Seq(Nat)))
  BY <1>1, <1>2, <1>3
<1>5. IsDocument(document')
  BY <1>1, <1>3, <1>4, WrittenDocument
<1>6. Len(document'.members) \in Nat
  BY <1>5 DEF IsDocument
<1>7. fields' \in [Fields -> Seq(Seq(Nat))]
  BY <1>1 DEF NoFields
<1>8. TypeOK'
  BY <1>1, <1>4, <1>5, <1>6, <1>7 DEF TypeOK
<1>9. FieldsAreScanned' /\ FieldsHaveMembers'
  BY <1>1 DEF FieldsAreScanned, FieldsHaveMembers, NoFields
<1>10. SavedIsWritten'
  BY <1>1, <1>3, <1>4 DEF SavedIsWritten
<1>11. ObjectIsComplete' /\ ReopenedIsUnchanged'
  BY <1>1 DEF ObjectIsComplete, ReopenedIsUnchanged
<1>12. QED
  BY <1>8, <1>9, <1>10, <1>11 DEF ScannerInvariant

LEMMA StepScans == ScannerInvariant /\ [Next]_vars => ScannerInvariant'
<1> SUFFICES ASSUME ScannerInvariant, [Next]_vars PROVE ScannerInvariant'
  OBVIOUS
<1>1. CASE UNCHANGED vars
  BY <1>1 DEF vars, ScannerInvariant, TypeOK, FieldsAreScanned, FieldsHaveMembers,
     ObjectIsComplete, SavedIsWritten, ReopenedIsUnchanged, Completed, Built, Buildable
<1>2. QED
  BY <1>1, ScanMemberScans, CompleteScans, BuildScans, RefuseScans, ReopenScans DEF Next

-----------------------------------------------------------------------------
(***************************************************************************)
(* The contract: what a document means, member by member.                  *)
(***************************************************************************)
\* The texts of a key are what its field holds, once everything is scanned.
LEMMA TextsOfFields ==
  ASSUME ScannerInvariant, i > Len(document.members), NEW f \in Fields
  PROVE  /\ fields[f] = <<>> => Contract!Texts(document, f) = {}
         /\ \A t : fields[f] = <<t>> => Contract!Texts(document, f) = {t}
<1> DEFINE ms == document.members
<1>1. \A k \in DOMAIN ms : ms[k].key = f => fields[f] = <<ms[k].text>>
  BY Position DEF ScannerInvariant, FieldsAreScanned
<1>2. fields[f] # <<>> => \E k \in DOMAIN ms : ms[k].key = f
  BY Position DEF ScannerInvariant, FieldsHaveMembers
<1>3. \A t : t \in Contract!Texts(document, f)
            <=> \E k \in DOMAIN ms : ms[k].key = f /\ t = ms[k].text
  BY DEF Contract!Texts
<1>4. ASSUME fields[f] = <<>> PROVE Contract!Texts(document, f) = {}
  <2>1. \A k \in DOMAIN ms : ms[k].key # f
    BY <1>1, <1>4
  <2>2. QED
    BY <1>3, <2>1
<1>5. ASSUME NEW t, fields[f] = <<t>> PROVE Contract!Texts(document, f) = {t}
  <2>1. PICK k \in DOMAIN ms : ms[k].key = f
    BY <1>2, <1>5
  <2>2. \A l \in DOMAIN ms : ms[l].key = f => ms[l].text = t
    BY <1>1, <1>5
  <2>3. QED
    BY <1>3, <2>1, <2>2
<1>6. QED
  BY <1>4, <1>5

\* An object that is complete is well-formed.
LEMMA CompleteIsWellFormed ==
  ASSUME ScannerInvariant, i > Len(document.members), Completed
  PROVE  Contract!WellFormed(document)
  BY Position DEF ScannerInvariant, FieldsAreScanned, Completed, Contract!WellFormed, Fields

LEMMA Meant ==
  ASSUME NEW doc, NEW v
  PROVE  v \in Contract!Meanings(doc)
         <=> /\ Contract!WellFormed(doc)
             /\ v.parent # <<v.revision>> /\ ~Contract!Blank(v.summary)
             /\ \E id \in Contract!Texts(doc, "revisionId") \ {<<>>},
                   p \in Contract!Parents(doc),
                   o \in Contract!Texts(doc, "origin") \ {<<>>},
                   s \in Contract!Texts(doc, "summary") :
                     v = [revision |-> id, parent |-> p, origin |-> o[1], summary |-> s]
  BY DEF Contract!Meanings

\* What a complete object means is what is built of it.
LEMMA CompleteMeaning ==
  ASSUME ScannerInvariant, i > Len(document.members), Completed
  PROVE  Contract!Meanings(document) = IF Buildable THEN {Built} ELSE {}
<1>1. TypeOK /\ FieldsAreScanned /\ FieldsHaveMembers
  BY DEF ScannerInvariant
<1>2. PICK r \in TextOf("revisionId") : fields["revisionId"] = <<r>>
  BY <1>1, FieldText DEF Completed, Required, Fields
<1>3. PICK o \in TextOf("origin") : fields["origin"] = <<o>>
  BY <1>1, FieldText DEF Completed, Required, Fields
<1>4. PICK s \in TextOf("summary") : fields["summary"] = <<s>>
  BY <1>1, FieldText DEF Completed, Required, Fields
<1>5. /\ Contract!Texts(document, "revisionId") = {r}
      /\ Contract!Texts(document, "origin") = {o}
      /\ Contract!Texts(document, "summary") = {s}
  BY <1>2, <1>3, <1>4, TextsOfFields DEF Fields
<1> DEFINE p == fields["parentRevisionId"]
<1>6. Contract!Parents(document) = IF p = << <<>> >> THEN {} ELSE {p}
  <2>1. CASE p = <<>>
    <3>1. Contract!Texts(document, "parentRevisionId") = {}
      BY <2>1, TextsOfFields DEF Fields
    <3>2. QED
      BY <2>1, <3>1 DEF Contract!Parents
  <2>2. CASE p # <<>>
    <3>1. PICK t \in TextOf("parentRevisionId") : p = <<t>>
      BY <1>1, <2>2, FieldText DEF Fields
    <3>2. Contract!Texts(document, "parentRevisionId") = {t}
      BY <3>1, TextsOfFields DEF Fields
    <3>3. Contract!Parents(document) = {<<q>> : q \in {t} \ {<<>>}}
      BY <3>2 DEF Contract!Parents
    <3>4. CASE t = <<>>
      BY <3>1, <3>3, <3>4
    <3>5. CASE t # <<>>
      <4>1. p # << <<>> >>
        BY <3>1, <3>5
      <4>2. {<<q>> : q \in {t} \ {<<>>}} = {<<t>>}
        BY <3>5
      <4>3. QED
        BY <3>1, <3>3, <4>1, <4>2
    <3>6. QED
      BY <3>4, <3>5
  <2>3. QED
    BY <2>1, <2>2
<1> HIDE DEF p
<1>7. Built = [revision |-> r, parent |-> p, origin |-> o[1], summary |-> s]
  BY <1>2, <1>3, <1>4 DEF Built, p
<1>8. o # <<>> => o[1] \in Origin
  BY <1>3, TextsOfKeys
<1>9. ~Contract!Blank(s) <=> \E k \in DOMAIN s : s[k] \notin Whitespace
  BY DEF Contract!Blank, Whitespace
<1>10. Buildable <=> /\ r # <<>> /\ p # << <<>> >> /\ o # <<>>
                    /\ Built.parent # <<Built.revision>> /\ ~Contract!Blank(Built.summary)
  <2>1. /\ fields["revisionId"] # << <<>> >> <=> r # <<>>
        /\ fields["origin"] # << <<>> >> <=> o # <<>>
    BY <1>2, <1>3
  <2>2. /\ Built.origin = o[1] /\ Built.summary = s
    BY <1>7
  <2>3. QED
    BY <1>8, <1>9, <2>1, <2>2 DEF Buildable, ValidValues, p
<1>11. Contract!WellFormed(document)
  BY CompleteIsWellFormed
<1>12. ASSUME NEW v
       PROVE  v \in Contract!Meanings(document) <=> Buildable /\ v = Built
  <2>1. (\E id \in {r} \ {<<>>}, q \in Contract!Parents(document), t \in {o} \ {<<>>}, u \in {s} :
           v = [revision |-> id, parent |-> q, origin |-> t[1], summary |-> u])
        <=> r # <<>> /\ p # << <<>> >> /\ o # <<>> /\ v = Built
    BY <1>6, <1>7
  <2>2. v \in Contract!Meanings(document)
        <=> /\ v.parent # <<v.revision>> /\ ~Contract!Blank(v.summary)
            /\ r # <<>> /\ p # << <<>> >> /\ o # <<>> /\ v = Built
    BY <1>5, <1>11, <2>1, Meant
  <2>3. QED
    BY <1>10, <2>2
<1>13. QED
  BY <1>12

\* What is refused while it is scanned means nothing.
LEMMA IncompleteMeaning ==
  ASSUME ScannerInvariant,
         \/ i <= Len(document.members) /\ ~Taken(Current)
         \/ i > Len(document.members) /\ ~Completed
  PROVE  Contract!Meanings(document) = {}
<1> SUFFICES ASSUME NEW v \in Contract!Meanings(document) PROVE FALSE
  OBVIOUS
<1> DEFINE ms == document.members
<1>1. Contract!WellFormed(document)
  BY Meant
<1>2. /\ document.closed /\ ~document.tail
      /\ \A k \in DOMAIN ms : ms[k].string /\ ms[k].key \in Fields
      /\ \A k, l \in DOMAIN ms : ms[k].key = ms[l].key => k = l
  BY <1>1 DEF Contract!WellFormed, Fields
<1>3. CASE i <= Len(ms) /\ ~Taken(Current)
  <2>1. i \in DOMAIN ms /\ Current = ms[i]
    BY <1>3, Position DEF Current
  <2>2. fields[Current.key] # <<>> /\ Current.key \in Fields
    BY <1>2, <1>3, <2>1 DEF Taken, IsNew
  <2>3. PICK k \in 1..(i - 1) : ms[k].key = Current.key
    BY <2>2 DEF ScannerInvariant, FieldsHaveMembers
  <2>4. k \in DOMAIN ms /\ k # i
    BY <2>3, Position
  <2>5. QED
    BY <1>2, <2>1, <2>3, <2>4
<1>4. CASE i > Len(ms) /\ ~Completed
  <2>1. \E r, o, s : /\ r \in Contract!Texts(document, "revisionId")
                     /\ o \in Contract!Texts(document, "origin")
                     /\ s \in Contract!Texts(document, "summary")
    BY Meant
  <2>2. \A f \in Required : fields[f] # <<>>
    BY <1>4, <2>1, TextsOfFields DEF Required, Fields
  <2>3. ms # <<>>
    <3>1. \E k \in DOMAIN ms : ms[k].key = "revisionId"
      BY <2>1 DEF Contract!Texts
    <3>2. QED
      BY <3>1
  <2>4. QED
    BY <1>2, <1>4, <2>2, <2>3 DEF Completed
<1>5. QED
  BY <1>3, <1>4

\* What is written means the revision that was saved.
LEMMA WrittenMeaning ==
  ASSUME NEW m \in Metadata(Seq(Nat)), ValidValues(m)
  PROVE  Contract!Meanings(to_json(m)) = {m}
<1> DEFINE doc == to_json(m)
           ms == doc.members
<1>1. /\ m.revision \in Id /\ m.parent \in {<<>>} \cup {<<id>> : id \in Id}
      /\ m.origin \in Origin /\ m.summary \in Seq(Nat)
      /\ m = [revision |-> m.revision, parent |-> m.parent, origin |-> m.origin,
              summary |-> m.summary]
  BY DEF Metadata
<1>2. Written(doc, m)
  BY WrittenMembers
<1> HIDE DEF doc
<1>3. Contract!WellFormed(doc)
  BY <1>2 DEF Written, Contract!WellFormed
<1>4. Contract!Texts(doc, "revisionId") = {m.revision}
  BY <1>2 DEF Written, Contract!Texts
<1>5. Contract!Texts(doc, "origin") = {<<m.origin>>}
  <2>1. PICK k \in DOMAIN ms : ms[k].key = "origin"
    BY <1>2 DEF Written
  <2>2. \A l \in DOMAIN ms : ms[l].key = "origin" => ms[l].text = <<m.origin>>
    BY <1>2 DEF Written
  <2>3. QED
    BY <2>1, <2>2 DEF Contract!Texts
<1>6. Contract!Texts(doc, "summary") = {m.summary}
  BY <1>2 DEF Written, Contract!Texts
<1>7. Contract!Parents(doc) = {m.parent}
  <2>1. CASE m.parent = <<>>
    <3>1. Contract!Texts(doc, "parentRevisionId") = {}
      BY <1>2, <2>1 DEF Written, Contract!Texts
    <3>2. QED
      BY <2>1, <3>1 DEF Contract!Parents
  <2>2. CASE m.parent # <<>>
    <3>1. PICK id \in Id : m.parent = <<id>>
      BY <1>1, <2>2
    <3>2. Contract!Texts(doc, "parentRevisionId") = {id}
      BY <1>2, <3>1 DEF Written, Contract!Texts
    <3>3. {id} \ {<<>>} = {id} /\ {id} # {}
      BY IdsAreNotEmpty
    <3>4. QED
      BY <3>1, <3>2, <3>3 DEF Contract!Parents
  <2>3. QED
    BY <2>1, <2>2
<1>8. m.parent # <<m.revision>> /\ ~Contract!Blank(m.summary)
  BY DEF ValidValues, Contract!Blank, Whitespace
<1>9. m.revision # <<>> /\ <<m.origin>> # <<>> /\ <<m.origin>>[1] = m.origin
  BY <1>1, IdsAreNotEmpty
<1>10. ASSUME NEW v PROVE v \in Contract!Meanings(doc) <=> v = m
  <2>1. (\E id \in {m.revision} \ {<<>>}, p \in {m.parent}, o \in {<<m.origin>>} \ {<<>>},
           s \in {m.summary} :
           v = [revision |-> id, parent |-> p, origin |-> o[1], summary |-> s])
        <=> v = m
    BY <1>1, <1>9
  <2>2. QED
    BY <1>3, <1>4, <1>5, <1>6, <1>7, <1>8, <2>1, Meant
<1>11. QED
  BY <1>10 DEF doc

LEMMA StepAnswers ==
  ASSUME ScannerInvariant, [Next]_vars
  PROVE  [Contract!Open \/ Contract!Save]_<<document, Answered>>
<1> USE DEF Contract!Pending, Contract!Refused, Contract!Accepted
<1>1. CASE ScanMember \/ Complete
  <2>1. UNCHANGED <<document, metadata, saved>> /\ pc # "refused" /\ pc' # "refused"
    BY <1>1 DEF ScanMember, Complete
  <2>2. QED
    BY <2>1 DEF Answered
<1>2. CASE Build
  <2>1. /\ UNCHANGED <<document, saved>> /\ metadata' = <<Built>> /\ Buildable
        /\ pc = "build" /\ pc' = "accepted" /\ metadata = <<>>
    BY <1>2 DEF Build, ScannerInvariant, ObjectIsComplete
  <2>2. Completed /\ i > Len(document.members)
    BY <2>1 DEF ScannerInvariant, ObjectIsComplete
  <2>3. Answered' = [answer |-> "accepted", value |-> Built]
    BY <2>1 DEF Answered
  <2>4. CASE saved = <<>>
    <3>1. Answered = [answer |-> "pending"]
      BY <2>1, <2>4 DEF Answered
    <3>2. Built \in Contract!Meanings(document)
      BY <2>1, <2>2, CompleteMeaning
    <3>3. QED
      BY <2>1, <2>3, <3>1, <3>2 DEF Contract!Open
  <2>5. CASE saved # <<>>
    <3>1. Answered = [answer |-> "accepted", value |-> saved[1]]
      BY <2>1, <2>5 DEF Answered
    <3>2. QED
      BY <2>1, <2>2, <2>3, <2>5, <3>1, WrittenIsBuilt
  <2>6. QED
    BY <2>4, <2>5
<1>3. CASE Refuse
  <2>1. UNCHANGED <<document, metadata, saved>> /\ pc' = "refused" /\ saved = <<>>
    BY <1>3, RefuseScans DEF Refuse
  <2>2. pc # "refused" /\ metadata = <<>>
    BY <1>3 DEF Refuse, ScannerInvariant, ObjectIsComplete
  <2>3. Answered = [answer |-> "pending"] /\ Answered' = [answer |-> "refused"]
    BY <2>1, <2>2 DEF Answered
  <2>4. Contract!Meanings(document) = {}
    <3>1. CASE pc = "build" /\ ~Buildable
      BY <3>1, CompleteMeaning DEF ScannerInvariant, ObjectIsComplete
    <3>2. CASE pc = "scan"
      BY <1>3, <3>2, IncompleteMeaning DEF Refuse
    <3>3. QED
      BY <1>3, <3>1, <3>2 DEF Refuse
  <2>5. QED
    BY <2>1, <2>3, <2>4 DEF Contract!Open
<1>4. CASE Reopen
  <2>1. /\ pc = "accepted" /\ pc' = "scan" /\ metadata' = <<>>
        /\ saved' = metadata /\ document' = to_json(metadata[1])
    BY <1>4 DEF Reopen
  <2>2. metadata = <<Built>> /\ Buildable /\ Completed
    BY <2>1 DEF ScannerInvariant, ObjectIsComplete
  <2>3. Built \in Metadata(Seq(Nat)) /\ ValidValues(Built)
    BY <2>2, BuiltIsMetadata DEF ScannerInvariant
  <2>4. Contract!Meanings(document') = {Built}
    BY <2>1, <2>2, <2>3, WrittenMeaning
  <2>5. /\ Answered = [answer |-> "accepted", value |-> Built]
        /\ Answered' = [answer |-> "accepted", value |-> Built]
    BY <2>1, <2>2 DEF Answered
  <2>6. QED
    BY <2>4, <2>5 DEF Contract!Save
<1>5. CASE UNCHANGED vars
  BY <1>5 DEF vars, Answered
<1>6. QED
  BY <1>1, <1>2, <1>3, <1>4, <1>5 DEF Next

-----------------------------------------------------------------------------
\* from_json: what has been scanned and what is built belong together in every
\* state, and a revision that is saved (to_json) is never refused when it is
\* opened again, and is what it was in every field.
THEOREM ScannerInvariantHolds == Spec => []ScannerInvariant
  BY InitScans, StepScans, PTL DEF Spec

\* from_json and to_json: every step is one of MetadataContract or none. A
\* document is accepted with the one meaning it has, whatever order its fields
\* are in, refused if it has none, and saved as a document that means the same.
\* That every document is answered is fairness, which TLC checks.
THEOREM ImplementsContractSafely == Spec => Contract!Safety
<1>1. Init => Contract!Init
  BY DEF Init, Contract!Init, Contract!Pending, Answered
<1>2. ScannerInvariant /\ [Next]_vars => [Contract!Open \/ Contract!Save]_<<document, Answered>>
  BY StepAnswers
<1>3. QED
  BY <1>1, <1>2, ScannerInvariantHolds, PTL DEF Spec, Contract!Safety

-----------------------------------------------------------------------------
(***************************************************************************)
(* The text of an identity. to_string writes byte after byte; PrefixOf is  *)
(* the text of the first k bytes, place by place.                          *)
(***************************************************************************)
\* Where the text of the first k bytes ends.
TextEnd(k) == IF k = 0 THEN 0 ELSE CharIndex(k) + 1

\* The character at each place of a text.
CharacterAt(b, p) ==
  IF \E k \in 1..16 : p = CharIndex(k) THEN b[CHOOSE k \in 1..16 : p = CharIndex(k)] \div 16
  ELSE IF \E k \in 1..16 : p = CharIndex(k) + 1
       THEN b[CHOOSE k \in 1..16 : p = CharIndex(k) + 1] % 16
  ELSE Hyphen

PrefixOf(b, k) == [p \in 1..TextEnd(k) |-> CharacterAt(b, p)]

LEMMA PlacesAreDistinct ==
  ASSUME NEW k \in 1..16, NEW l \in 1..16
  PROVE  /\ CharIndex(k) # CharIndex(l) + 1
         /\ CharIndex(k) = CharIndex(l) => k = l
         /\ CharIndex(k) \in 1..35
  BY DEF CharIndex

LEMMA DigitPlaces ==
  ASSUME NEW b, NEW k \in 1..16
  PROVE  /\ CharacterAt(b, CharIndex(k)) = b[k] \div 16
         /\ CharacterAt(b, CharIndex(k) + 1) = b[k] % 16
<1>1. (CHOOSE l \in 1..16 : CharIndex(k) = CharIndex(l)) = k
  BY PlacesAreDistinct
<1>2. (CHOOSE l \in 1..16 : CharIndex(k) + 1 = CharIndex(l) + 1) = k
  <2>1. \A l \in 1..16 : CharIndex(k) + 1 = CharIndex(l) + 1 <=> l = k
    <3>1. \A l \in 1..16 : CharIndex(k) \in Int /\ CharIndex(l) \in Int
      BY PlacesAreDistinct
    <3>2. QED
      BY <3>1, PlacesAreDistinct
  <2>2. QED
    BY <2>1
<1>3. ~ \E l \in 1..16 : CharIndex(k) + 1 = CharIndex(l)
  BY PlacesAreDistinct
<1>4. QED
  BY <1>1, <1>2, <1>3 DEF CharacterAt

LEMMA HyphenPlaces ==
  ASSUME NEW b, NEW k \in HyphenBefore
  PROVE  CharacterAt(b, CharIndex(k) - 1) = Hyphen
<1>1. ASSUME NEW l \in 1..16
      PROVE  CharIndex(k) - 1 # CharIndex(l) /\ CharIndex(k) - 1 # CharIndex(l) + 1
  BY DEF HyphenBefore, CharIndex
<1>2. QED
  BY <1>1 DEF CharacterAt

\* One round of the loop of to_string.
Round(written, b, k) ==
  written \o (IF k \in HyphenBefore THEN <<Hyphen>> ELSE <<>>) \o <<b[k] \div 16, b[k] % 16>>

LEMMA ExtendedText ==
  ASSUME NEW s \in Seq(Nat), NEW h \in Nat, NEW x \in Nat, NEW y \in Nat, NEW n \in Nat, n = Len(s)
  PROVE  /\ s \o <<x, y>> \in Seq(Nat) /\ Len(s \o <<x, y>>) = n + 2
         /\ \A p \in 1..n : (s \o <<x, y>>)[p] = s[p]
         /\ (s \o <<x, y>>)[n + 1] = x /\ (s \o <<x, y>>)[n + 2] = y
         /\ s \o <<h>> \in Seq(Nat) /\ Len(s \o <<h>>) = n + 1
         /\ \A p \in 1..n : (s \o <<h>>)[p] = s[p]
         /\ (s \o <<h>>)[n + 1] = h
  OBVIOUS

LEMMA RoundExtendsPrefix ==
  ASSUME NEW b \in Bytes, NEW k \in 1..16
  PROVE  PrefixOf(b, k) = Round(PrefixOf(b, k - 1), b, k)
<1>1. b[k] \div 16 \in Nat /\ b[k] % 16 \in Nat /\ Hyphen \in Nat
  BY DEF Bytes, Hyphen
<1>2. \A p \in Nat : CharacterAt(b, p) \in Nat
  <2>1. \A l \in 1..16 : b[l] \div 16 \in Nat /\ b[l] % 16 \in Nat
    BY DEF Bytes
  <2>2. QED
    BY <2>1, <1>1 DEF CharacterAt
<1>3. TextEnd(k) \in Nat /\ TextEnd(k - 1) \in Nat
  BY DEF TextEnd, CharIndex
<1>4. PrefixOf(b, k) \in Seq(Nat) /\ Len(PrefixOf(b, k)) = TextEnd(k)
  BY <1>2, <1>3 DEF PrefixOf
<1>5. PrefixOf(b, k - 1) \in Seq(Nat) /\ Len(PrefixOf(b, k - 1)) = TextEnd(k - 1)
  BY <1>2, <1>3 DEF PrefixOf
<1>6. CASE k \in HyphenBefore
  <2> DEFINE P == PrefixOf(b, k - 1)
             H == P \o <<Hyphen>>
             R == H \o <<b[k] \div 16, b[k] % 16>>
  <2>1. Round(P, b, k) = R
    BY <1>6, Zenon DEF Round
  <2>2. TextEnd(k) = TextEnd(k - 1) + 3 /\ CharIndex(k) = TextEnd(k - 1) + 2
    BY <1>6 DEF TextEnd, CharIndex, HyphenBefore
  <2>3. /\ H \in Seq(Nat) /\ Len(H) = TextEnd(k - 1) + 1
        /\ \A p \in 1..TextEnd(k - 1) : H[p] = P[p]
        /\ H[TextEnd(k - 1) + 1] = Hyphen
    BY <1>1, <1>3, <1>5, ExtendedText
  <2> HIDE DEF H
  <2>4. /\ R \in Seq(Nat) /\ Len(R) = TextEnd(k)
        /\ \A p \in 1..(TextEnd(k - 1) + 1) : R[p] = H[p]
        /\ R[CharIndex(k)] = b[k] \div 16 /\ R[CharIndex(k) + 1] = b[k] % 16
    <3>1. TextEnd(k - 1) + 1 \in Nat
      BY <1>3
    <3>2. /\ R \in Seq(Nat) /\ Len(R) = TextEnd(k - 1) + 1 + 2
          /\ \A p \in 1..(TextEnd(k - 1) + 1) : R[p] = H[p]
          /\ R[TextEnd(k - 1) + 1 + 1] = b[k] \div 16 /\ R[TextEnd(k - 1) + 1 + 2] = b[k] % 16
      BY <1>1, <2>3, <3>1, ExtendedText
    <3> HIDE DEF R
    <3>3. QED
      BY <1>3, <2>2, <3>2
  <2> HIDE DEF R
  <2>5. ASSUME NEW p \in 1..TextEnd(k) PROVE R[p] = CharacterAt(b, p)
    <3>1. CASE p \in 1..TextEnd(k - 1)
      <4>1. P[p] = CharacterAt(b, p)
        BY <3>1 DEF PrefixOf
      <4>2. R[p] = P[p]
        <5>1. p \in 1..(TextEnd(k - 1) + 1)
          BY <1>3, <3>1
        <5>2. QED
          BY <2>3, <2>4, <3>1, <5>1
      <4>3. QED
        BY <4>1, <4>2
    <3>2. CASE p = CharIndex(k) - 1
      <4>1. p = TextEnd(k - 1) + 1 /\ p \in 1..(TextEnd(k - 1) + 1)
        BY <1>3, <2>2, <3>2
      <4>2. R[p] = Hyphen
        BY <2>3, <2>4, <4>1
      <4>3. QED
        BY <1>6, <3>2, <4>2, HyphenPlaces
    <3>3. CASE p = CharIndex(k)
      BY <2>4, <3>3, DigitPlaces
    <3>4. CASE p = CharIndex(k) + 1
      BY <2>4, <3>4, DigitPlaces
    <3>5. QED
      BY <1>3, <2>2, <3>1, <3>2, <3>3, <3>4
  <2>6. R = PrefixOf(b, k)
    <3>1. Len(PrefixOf(b, k)) = Len(R)
      BY <1>4, <2>4
    <3>2. \A p \in 1..Len(R) : R[p] = PrefixOf(b, k)[p]
      BY <2>4, <2>5 DEF PrefixOf
    <3>3. QED
      BY <1>4, <2>4, <3>1, <3>2, SeqEqual
  <2>7. QED
    BY <2>1, <2>6
<1>7. CASE k \notin HyphenBefore
  <2> DEFINE P == PrefixOf(b, k - 1)
             R == P \o <<b[k] \div 16, b[k] % 16>>
  <2>1. Round(P, b, k) = R
    <3>1. Round(P, b, k) = (P \o <<>>) \o <<b[k] \div 16, b[k] % 16>>
      BY <1>7, Zenon DEF Round
    <3>2. P \o <<>> = P
      BY <1>5
    <3>3. QED
      BY <3>1, <3>2, Zenon
  <2>2. TextEnd(k) = TextEnd(k - 1) + 2 /\ CharIndex(k) = TextEnd(k - 1) + 1
    BY <1>7 DEF TextEnd, CharIndex, HyphenBefore
  <2>4. /\ R \in Seq(Nat) /\ Len(R) = TextEnd(k)
        /\ \A p \in 1..TextEnd(k - 1) : R[p] = P[p]
        /\ R[CharIndex(k)] = b[k] \div 16 /\ R[CharIndex(k) + 1] = b[k] % 16
    <3>2. /\ R \in Seq(Nat) /\ Len(R) = TextEnd(k - 1) + 2
          /\ \A p \in 1..TextEnd(k - 1) : R[p] = P[p]
          /\ R[TextEnd(k - 1) + 1] = b[k] \div 16 /\ R[TextEnd(k - 1) + 2] = b[k] % 16
      BY <1>1, <1>3, <1>5, ExtendedText
    <3> HIDE DEF R
    <3>3. QED
      BY <1>3, <2>2, <3>2
  <2> HIDE DEF R
  <2>5. ASSUME NEW p \in 1..TextEnd(k) PROVE R[p] = CharacterAt(b, p)
    <3>1. CASE p \in 1..TextEnd(k - 1)
      <4>1. P[p] = CharacterAt(b, p)
        BY <3>1 DEF PrefixOf
      <4>2. R[p] = P[p]
        BY <2>4, <3>1
      <4>3. QED
        BY <4>1, <4>2
    <3>3. CASE p = CharIndex(k)
      BY <2>4, <3>3, DigitPlaces
    <3>4. CASE p = CharIndex(k) + 1
      BY <2>4, <3>4, DigitPlaces
    <3>5. QED
      BY <1>3, <2>2, <3>1, <3>3, <3>4
  <2>6. R = PrefixOf(b, k)
    <3>1. Len(PrefixOf(b, k)) = Len(R)
      BY <1>4, <2>4
    <3>2. \A p \in 1..Len(R) : R[p] = PrefixOf(b, k)[p]
      BY <2>4, <2>5 DEF PrefixOf
    <3>3. QED
      BY <1>4, <2>4, <3>1, <3>2, SeqEqual
  <2>7. QED
    BY <2>1, <2>6
<1>8. QED
  BY <1>6, <1>7

\* The recursion of to_string has a solution, and every solution has PrefixOf
\* at each place.
FollowsRounds(f, b) ==
  f = [k \in 0..16 |->
         IF k = 0 THEN <<>>
         ELSE f[k - 1] \o (IF k \in HyphenBefore THEN <<Hyphen>> ELSE <<>>)
                \o <<b[k] \div 16, b[k] % 16>>]

LEMMA EmptyPrefix == ASSUME NEW b PROVE PrefixOf(b, 0) = <<>>
  BY DEF PrefixOf, TextEnd

LEMMA PrefixesFollowRounds ==
  ASSUME NEW b \in Bytes
  PROVE  FollowsRounds([k \in 0..16 |-> PrefixOf(b, k)], b)
<1> DEFINE f == [k \in 0..16 |-> PrefixOf(b, k)]
<1>1. ASSUME NEW k \in 0..16
      PROVE  f[k] = IF k = 0 THEN <<>>
                    ELSE f[k - 1] \o (IF k \in HyphenBefore THEN <<Hyphen>> ELSE <<>>)
                           \o <<b[k] \div 16, b[k] % 16>>
  <2>1. CASE k = 0
    BY <2>1, EmptyPrefix
  <2>2. CASE k # 0
    <3>1. k \in 1..16 /\ k - 1 \in 0..16
      BY <2>2
    <3>2. f[k] = PrefixOf(b, k) /\ f[k - 1] = PrefixOf(b, k - 1)
      BY <3>1
    <3>3. PrefixOf(b, k) = Round(PrefixOf(b, k - 1), b, k)
      BY <3>1, RoundExtendsPrefix
    <3>4. QED
      BY <2>2, <3>2, <3>3, Zenon DEF Round
  <2>3. QED
    BY <2>1, <2>2
<1> DEFINE g == [k \in 0..16 |->
         IF k = 0 THEN <<>>
         ELSE f[k - 1] \o (IF k \in HyphenBefore THEN <<Hyphen>> ELSE <<>>)
                \o <<b[k] \div 16, b[k] % 16>>]
<1>2. \A k \in 0..16 : f[k] = g[k]
  BY <1>1, Zenon
<1>3. f = g
  BY <1>2, Zenon
<1>4. QED
  BY <1>3, Zenon DEF FollowsRounds

LEMMA RoundsGivePrefixes ==
  ASSUME NEW b \in Bytes, NEW f, FollowsRounds(f, b)
  PROVE  f[16] = PrefixOf(b, 16)
<1>1. f[0] = PrefixOf(b, 0)
  <2> DEFINE g == [k \in 0..16 |->
         IF k = 0 THEN <<>>
         ELSE f[k - 1] \o (IF k \in HyphenBefore THEN <<Hyphen>> ELSE <<>>)
                \o <<b[k] \div 16, b[k] % 16>>]
  <2>1. f[0] = <<>>
    <3>1. f = g
      BY Zenon DEF FollowsRounds
    <3>2. 0 \in 0..16
      OBVIOUS
    <3>3. g[0] = <<>>
      BY <3>2, Zenon
    <3>4. QED
      BY <3>1, <3>3, Zenon
  <2>2. QED
    BY <2>1, EmptyPrefix
<1>2. ASSUME NEW k \in 1..16, f[k - 1] = PrefixOf(b, k - 1)
      PROVE  f[k] = PrefixOf(b, k)
  <2>1. k \in 0..16 /\ k # 0
    OBVIOUS
  <2>2. f[k] = Round(f[k - 1], b, k)
    BY <2>1, Zenon DEF FollowsRounds, Round
  <2>3. QED
    BY <1>2, <2>2, RoundExtendsPrefix
<1> DEFINE A(k) == f[k] = PrefixOf(b, k)
<1>3. \A k \in 1..16 : A(k - 1) => A(k)
  BY <1>2
<1>4. A(0)
  BY <1>1
<1> HIDE DEF A
<1>5. A(4)
  <2>1. A(1)
    BY <1>3, <1>4
  <2>2. A(2)
    BY <1>3, <2>1
  <2>3. A(3)
    BY <1>3, <2>2
  <2>4. QED
    BY <1>3, <2>3
<1>6. A(8)
  <2>1. A(5)
    BY <1>3, <1>5
  <2>2. A(6)
    BY <1>3, <2>1
  <2>3. A(7)
    BY <1>3, <2>2
  <2>4. QED
    BY <1>3, <2>3
<1>7. A(12)
  <2>1. A(9)
    BY <1>3, <1>6
  <2>2. A(10)
    BY <1>3, <2>1
  <2>3. A(11)
    BY <1>3, <2>2
  <2>4. QED
    BY <1>3, <2>3
<1>8. A(16)
  <2>1. A(13)
    BY <1>3, <1>7
  <2>2. A(14)
    BY <1>3, <2>1
  <2>3. A(15)
    BY <1>3, <2>2
  <2>4. QED
    BY <1>3, <2>3
<1>9. QED
  BY <1>8 DEF A

LEMMA TextOfIdentity ==
  ASSUME NEW b \in Bytes
  PROVE  to_string(b) = PrefixOf(b, 16)
<1> DEFINE f == CHOOSE f : FollowsRounds(f, b)
<1>1. FollowsRounds(f, b)
  BY PrefixesFollowRounds, Zenon
<1>2. to_string(b) = f[16]
  BY Zenon DEF to_string, FollowsRounds
<1> HIDE DEF f
<1>3. QED
  BY <1>1, <1>2, RoundsGivePrefixes

-----------------------------------------------------------------------------
LEMMA NibblesMakeByte == ASSUME NEW x \in Nat PROVE x = 16 * (x \div 16) + (x % 16)
  OBVIOUS

\* What is written is a wire text, of the same bytes.
LEMMA WrittenIsWireText ==
  ASSUME NEW b \in Bytes
  PROVE  /\ to_string(b) \in Seq(Nat) /\ IsWireText(to_string(b))
         /\ BytesOf(to_string(b)) = b
<1>1. /\ to_string(b) = [p \in 1..36 |-> CharacterAt(b, p)]
  <2>1. TextEnd(16) = 36
    BY DEF TextEnd, CharIndex
  <2>2. QED
    BY <2>1, TextOfIdentity DEF PrefixOf
<1>2. \A k \in 1..16 : b[k] \div 16 \in HexDigit /\ b[k] % 16 \in HexDigit /\ b[k] \in 0..255
  BY DEF Bytes, HexDigit
<1>3. \A p \in 1..36 : CharacterAt(b, p) \in Nat
  BY <1>2 DEF CharacterAt, Hyphen, HexDigit
<1>4. to_string(b) \in Seq(Nat) /\ Len(to_string(b)) = 36
  BY <1>1, <1>3
<1>5. \A k \in HyphenBefore : to_string(b)[CharIndex(k) - 1] = Hyphen
  <2>1. ASSUME NEW k \in HyphenBefore PROVE CharIndex(k) - 1 \in 1..36
    BY DEF HyphenBefore, CharIndex
  <2>2. QED
    BY <1>1, <2>1, HyphenPlaces
<1>6. ASSUME NEW k \in 1..16
      PROVE  /\ to_string(b)[CharIndex(k)] = b[k] \div 16
             /\ to_string(b)[CharIndex(k) + 1] = b[k] % 16
  <2>1. CharIndex(k) \in 1..36 /\ CharIndex(k) + 1 \in 1..36
    BY PlacesAreDistinct
  <2>2. QED
    BY <1>1, <2>1, DigitPlaces
<1>7. IsWireText(to_string(b))
  BY <1>2, <1>4, <1>5, <1>6 DEF IsWireText
<1>8. \A k \in 1..16 : 16 * to_string(b)[CharIndex(k)] + to_string(b)[CharIndex(k) + 1] = b[k]
  <2>1. ASSUME NEW k \in 1..16
        PROVE  16 * to_string(b)[CharIndex(k)] + to_string(b)[CharIndex(k) + 1] = b[k]
    <3>1. b[k] \in Nat
      BY DEF Bytes
    <3>2. b[k] = 16 * (b[k] \div 16) + (b[k] % 16)
      BY <3>1, NibblesMakeByte
    <3>3. QED
      BY <1>6, <3>2, Zenon
  <2>2. QED
    BY <2>1
<1>9. BytesOf(to_string(b)) = [k \in 1..16 |-> b[k]]
  BY <1>8 DEF BytesOf
<1>10. QED
  BY <1>4, <1>7, <1>9 DEF Bytes

\* A wire text is what is written for its bytes.
LEMMA WireTextIsWritten ==
  ASSUME NEW C, NEW s \in Seq(C), IsWireText(s)
  PROVE  BytesOf(s) \in Bytes /\ to_string(BytesOf(s)) = s
<1> DEFINE b == BytesOf(s)
<1>1. \A k \in 1..16 : s[CharIndex(k)] \in 0..15 /\ s[CharIndex(k) + 1] \in 0..15
  BY DEF IsWireText, HexDigit
<1>2. \A k \in 1..16 : /\ b[k] = 16 * s[CharIndex(k)] + s[CharIndex(k) + 1]
                       /\ b[k] \in 0..255
                       /\ b[k] \div 16 = s[CharIndex(k)] /\ b[k] % 16 = s[CharIndex(k) + 1]
  <2>1. ASSUME NEW k \in 1..16 PROVE b[k] = 16 * s[CharIndex(k)] + s[CharIndex(k) + 1]
    BY DEF BytesOf
  <2>2. ASSUME NEW x \in 0..15, NEW y \in 0..15
        PROVE  16 * x + y \in 0..255 /\ (16 * x + y) \div 16 = x /\ (16 * x + y) % 16 = y
    OBVIOUS
  <2> HIDE DEF b
  <2>3. ASSUME NEW k \in 1..16
        PROVE  b[k] \in 0..255 /\ b[k] \div 16 = s[CharIndex(k)] /\ b[k] % 16 = s[CharIndex(k) + 1]
    <3>1. s[CharIndex(k)] \in 0..15 /\ s[CharIndex(k) + 1] \in 0..15
      BY <1>1
    <3>2. b[k] = 16 * s[CharIndex(k)] + s[CharIndex(k) + 1]
      BY <2>1
    <3>3. /\ 16 * s[CharIndex(k)] + s[CharIndex(k) + 1] \in 0..255
          /\ (16 * s[CharIndex(k)] + s[CharIndex(k) + 1]) \div 16 = s[CharIndex(k)]
          /\ (16 * s[CharIndex(k)] + s[CharIndex(k) + 1]) % 16 = s[CharIndex(k) + 1]
      BY <2>2, <3>1
    <3>4. QED
      BY <3>2, <3>3, Zenon
  <2>4. QED
    BY <2>1, <2>3
<1>3. b \in Bytes
  <2>1. b = [k \in 1..16 |-> b[k]]
    BY DEF BytesOf
  <2> HIDE DEF b
  <2>2. QED
    BY <1>2, <2>1 DEF Bytes
<1>4. to_string(b) = [p \in 1..36 |-> CharacterAt(b, p)]
  <2>1. TextEnd(16) = 36
    BY DEF TextEnd, CharIndex
  <2> HIDE DEF b
  <2>2. QED
    BY <1>3, <2>1, TextOfIdentity DEF PrefixOf
<1>5. s = [p \in 1..36 |-> s[p]]
  BY DEF IsWireText
<1>6. ASSUME NEW p \in 1..36 PROVE CharacterAt(b, p) = s[p]
  <2>1. CASE \E k \in 1..16 : p = CharIndex(k)
    <3> HIDE DEF b
    <3>1. QED
      BY <1>2, <2>1, DigitPlaces
  <2>2. CASE \E k \in 1..16 : p = CharIndex(k) + 1
    <3> HIDE DEF b
    <3>1. QED
      BY <1>2, <2>2, DigitPlaces
  <2>3. CASE \E k \in HyphenBefore : p = CharIndex(k) - 1
    <3> HIDE DEF b
    <3>1. QED
      BY <2>3, HyphenPlaces DEF IsWireText
  <2>4. \/ \E k \in 1..16 : p = CharIndex(k) \/ p = CharIndex(k) + 1
        \/ \E k \in HyphenBefore : p = CharIndex(k) - 1
    <3> DEFINE k == IF p = 9 THEN 5 ELSE IF p = 14 THEN 7 ELSE IF p = 19 THEN 9
                    ELSE IF p = 24 THEN 11
                    ELSE IF p < 9 THEN (p + 1) \div 2
                    ELSE IF p < 14 THEN p \div 2
                    ELSE IF p < 19 THEN (p - 1) \div 2
                    ELSE IF p < 24 THEN (p - 2) \div 2
                    ELSE (p - 3) \div 2
    <3>1. k \in 1..16 /\ (CharIndex(k) = p \/ CharIndex(k) + 1 = p
                          \/ (k \in HyphenBefore /\ CharIndex(k) - 1 = p))
      BY DEF CharIndex, HyphenBefore
    <3> HIDE DEF k
    <3>2. QED
      BY <3>1
  <2>5. QED
    BY <2>1, <2>2, <2>3, <2>4
<1>7. QED
  <2> HIDE DEF b
  <2>1. to_string(b) = s
    BY <1>4, <1>5, <1>6
  <2>2. QED
    BY <1>3, <2>1 DEF b

-----------------------------------------------------------------------------
\* The invariant: sixteen bytes, and a text of whatever characters.
IdentityTypeOK == bytes \in Bytes /\ \E C : text \in Seq(C)

LEMMA EditedIsSeq ==
  ASSUME NEW C, NEW s \in Seq(C), NEW c, NEW n \in Nat
  PROVE  /\ n \in 1..Len(s) => [s EXCEPT ![n] = c] \in Seq(C \cup {c})
         /\ n \in 1..Len(s) => RemoveAt(s, n) \in Seq(C \cup {c})
         /\ n \in 1..(Len(s) + 1) => InsertAt(s, n, c) \in Seq(C \cup {c})
<1>1. s \in Seq(C \cup {c}) /\ <<c>> \in Seq(C \cup {c})
  OBVIOUS
<1>2. n \in 1..Len(s) => [s EXCEPT ![n] = c] \in Seq(C \cup {c})
  BY <1>1
<1>3. ASSUME NEW k \in 1..(Len(s) + 1), NEW l \in 0..Len(s)
      PROVE  SubSeq(s, k, l) \in Seq(C \cup {c})
  BY <1>1, SubSeqProperties
<1>4. n \in 1..Len(s) => RemoveAt(s, n) \in Seq(C \cup {c})
  <2>1. SUFFICES ASSUME n \in 1..Len(s) PROVE RemoveAt(s, n) \in Seq(C \cup {c})
    OBVIOUS
  <2>2. /\ 1 \in 1..(Len(s) + 1) /\ n - 1 \in 0..Len(s)
        /\ n + 1 \in 1..(Len(s) + 1) /\ Len(s) \in 0..Len(s)
    BY <2>1
  <2>3. SubSeq(s, 1, n - 1) \in Seq(C \cup {c}) /\ SubSeq(s, n + 1, Len(s)) \in Seq(C \cup {c})
    BY <1>3, <2>2
  <2>4. QED
    BY <2>3, ConcatProperties DEF RemoveAt
<1>5. n \in 1..(Len(s) + 1) => InsertAt(s, n, c) \in Seq(C \cup {c})
  <2>1. SUFFICES ASSUME n \in 1..(Len(s) + 1) PROVE InsertAt(s, n, c) \in Seq(C \cup {c})
    OBVIOUS
  <2>2. 1 \in 1..(Len(s) + 1) /\ n - 1 \in 0..Len(s) /\ Len(s) \in 0..Len(s)
    BY <2>1
  <2>3. SubSeq(s, 1, n - 1) \in Seq(C \cup {c}) /\ SubSeq(s, n, Len(s)) \in Seq(C \cup {c})
    BY <1>3, <2>1, <2>2
  <2>4. SubSeq(s, 1, n - 1) \o <<c>> \in Seq(C \cup {c})
    BY <1>1, <2>3, ConcatProperties
  <2>5. QED
    BY <2>3, <2>4, ConcatProperties DEF InsertAt
<1>6. QED
  BY <1>2, <1>4, <1>5

\* Sixteen bytes remain sixteen bytes and a text a text, whatever is changed.
LEMMA IdentityTypeInvariant == IdentitySpec => []IdentityTypeOK
<1>1. IdentityInit => IdentityTypeOK
  <2>1. SUFFICES ASSUME IdentityInit PROVE IdentityTypeOK
    OBVIOUS
  <2>2. bytes \in Bytes
    BY <2>1 DEF IdentityInit, Bases, Bytes
  <2>3. to_string(bytes) \in Seq(Nat)
    BY <2>2, WrittenIsWireText
  <2>4. QED
    BY <2>1, <2>2, <2>3 DEF IdentityInit, IdentityTypeOK
<1>2. IdentityTypeOK /\ [IdentityNext]_identity => IdentityTypeOK'
  <2>1. SUFFICES ASSUME IdentityTypeOK, [IdentityNext]_identity PROVE IdentityTypeOK'
    OBVIOUS
  <2>2. PICK C : text \in Seq(C)
    BY <2>1 DEF IdentityTypeOK
  <2>3. CASE EditText
    <3>1. bytes' \in Bytes
      BY <2>1, <2>3 DEF EditText, IdentityTypeOK
    <3>2. DOMAIN text = 1..Len(text) /\ Len(text) \in Nat
      BY <2>2
    <3>3. ASSUME NEW D, text' \in Seq(D) PROVE IdentityTypeOK'
      BY <3>1, <3>3 DEF IdentityTypeOK
    <3>4. \A n \in 1..(Len(text) + 1) : n \in Nat
      BY <3>2
    <3>5. ASSUME NEW n \in 1..Len(text), NEW c, text' = [text EXCEPT ![n] = c]
          PROVE  IdentityTypeOK'
      <4>1. [text EXCEPT ![n] = c] \in Seq(C \cup {c})
        BY <2>2
      <4>2. text' \in Seq(C \cup {c})
        BY <3>5, <4>1
      <4>3. QED
        BY <3>3, <4>2
    <3>6. ASSUME NEW n \in 1..Len(text), text' = RemoveAt(text, n)
          PROVE  IdentityTypeOK'
      <4>1. RemoveAt(text, n) \in Seq(C \cup {0})
        <5>1. n \in Nat
          BY <3>2
        <5>2. QED
          BY <2>2, <5>1, EditedIsSeq
      <4>2. text' \in Seq(C \cup {0})
        BY <3>6, <4>1
      <4>3. QED
        BY <3>3, <4>2
    <3>7. ASSUME NEW n \in 1..(Len(text) + 1), NEW c, text' = InsertAt(text, n, c)
          PROVE  IdentityTypeOK'
      <4>1. InsertAt(text, n, c) \in Seq(C \cup {c})
        BY <2>2, <3>4, EditedIsSeq
      <4>2. text' \in Seq(C \cup {c})
        BY <3>7, <4>1
      <4>3. QED
        BY <3>3, <4>2
    <3>8. \/ \E n \in DOMAIN text, c \in Characters : text' = [text EXCEPT ![n] = c]
          \/ \E n \in DOMAIN text : text' = RemoveAt(text, n)
          \/ \E n \in 1..(Len(text) + 1), c \in Characters : text' = InsertAt(text, n, c)
      <4> DEFINE Replaced == {[text EXCEPT ![n] = c] : n \in DOMAIN text, c \in Characters}
                 Removed  == {RemoveAt(text, n) : n \in DOMAIN text}
                 Inserted == {InsertAt(text, n, c) : n \in 1..(Len(text) + 1), c \in Characters}
      <4>1. text' \in Replaced \cup Removed \cup Inserted
        BY <2>3 DEF EditText
      <4>2. /\ text' \in Replaced =>
                  \E n \in DOMAIN text, c \in Characters : text' = [text EXCEPT ![n] = c]
            /\ text' \in Removed => \E n \in DOMAIN text : text' = RemoveAt(text, n)
            /\ text' \in Inserted =>
                  \E n \in 1..(Len(text) + 1), c \in Characters : text' = InsertAt(text, n, c)
        OBVIOUS
      <4> HIDE DEF Replaced, Removed, Inserted
      <4>3. QED
        BY <4>1, <4>2
    <3>9. QED
      BY <3>2, <3>5, <3>6, <3>7, <3>8, Zenon
  <2>4. CASE EditBytes
    <3>1. PICK n \in 1..16, v \in ByteValues : bytes' = [bytes EXCEPT ![n] = v]
      BY <2>4 DEF EditBytes
    <3>2. bytes' \in Bytes
      BY <2>1, <3>1, EditsAssumption DEF IdentityTypeOK, Bytes
    <3>3. to_string(bytes') \in Seq(Nat)
      BY <3>2, WrittenIsWireText
    <3>4. QED
      BY <2>4, <3>2, <3>3 DEF EditBytes, IdentityTypeOK
  <2>5. CASE UNCHANGED identity
    BY <2>1, <2>5 DEF identity, IdentityTypeOK
  <2>6. QED
    BY <2>1, <2>3, <2>4, <2>5 DEF IdentityNext
<1>3. QED
  BY <1>1, <1>2, PTL DEF IdentitySpec

LEMMA AcceptanceIsExact ==
  ASSUME IdentityTypeOK
  PROVE  IdentitiesHaveOneText
<1>1. TextsAreCanonical
  <2>1. PICK C : text \in Seq(C)
    BY DEF IdentityTypeOK
  <2> DEFINE read == from_string(text)
  <2>2. SUFFICES ASSUME read.result = "ok"
                 PROVE  read.value \in Bytes /\ to_string(read.value) = text
    BY DEF TextsAreCanonical
  <2>3. IsWireText(text) /\ read = Ok(BytesOf(text))
    BY <2>2 DEF from_string, Invalid
  <2>4. BytesOf(text) \in Bytes /\ to_string(BytesOf(text)) = text
    BY <2>1, <2>3, WireTextIsWritten
  <2>5. read.value = BytesOf(text)
    BY <2>3 DEF Ok
  <2>6. QED
    BY <2>4, <2>5
<1>2. ConstructorsAgree
  <2>1. bytes \in Bytes
    BY DEF IdentityTypeOK
  <2>2. IsWireText(to_string(bytes)) /\ BytesOf(to_string(bytes)) = bytes
    BY <2>1, WrittenIsWireText
  <2>3. StringIsUuid4(bytes) <=> IsUuid4(bytes)
    BY DEF StringIsUuid4, IsUuid4
  <2>4. QED
    BY <2>2, <2>3 DEF ConstructorsAgree, from_string, from_bytes
<1>3. QED
  BY <1>1, <1>2 DEF IdentitiesHaveOneText

\* An identity has one text, and both its constructors admit the same
\* identities, for every sixteen bytes and every text of whatever length and
\* characters (Uuid128::from_bytes, from_string, to_string).
THEOREM IdentitiesHaveOneTextHolds == IdentitySpec => []IdentitiesHaveOneText
<1>1. IdentityTypeOK => IdentitiesHaveOneText
  BY AcceptanceIsExact
<1>2. QED
  BY <1>1, IdentityTypeInvariant, PTL
=============================================================================
