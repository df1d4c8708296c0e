-------------------------- MODULE JsonReader_proofs --------------------------
(***************************************************************************)
(* Proofs about JsonReader and JsonDocument, for texts of any length and   *)
(* nested to any depth, and about the routines of JsonText, for strings    *)
(* and numbers of any length.                                              *)
(***************************************************************************)
EXTENDS JsonDocument, JsonCharacters, FiniteSetTheorems, SequenceTheorems, TLAPS

\* What the frames and their members are made of is not limited.
IsSeq(s) == \E S : s \in Seq(S)

LEMMA EmptyIsSeq == IsSeq(<<>>) /\ Len(<<>>) = 0
  BY DEF IsSeq

LEMMA AppendLaws ==
  ASSUME NEW s, IsSeq(s), NEW x
  PROVE  /\ IsSeq(Append(s, x))
         /\ Len(s) \in Nat /\ DOMAIN s = 1..Len(s)
         /\ Len(Append(s, x)) = Len(s) + 1
         /\ \A i \in 1..Len(s) : Append(s, x)[i] = s[i]
         /\ Append(s, x)[Len(s) + 1] = x
<1>1. PICK S : s \in Seq(S)
  BY DEF IsSeq
<1>2. s \in Seq(S \cup {x}) /\ x \in S \cup {x}
  BY <1>1
<1>3. Append(s, x) \in Seq(S \cup {x})
  BY <1>2
<1>4. QED
  BY <1>2, <1>3 DEF IsSeq

LEMMA SeqLaws ==
  ASSUME NEW s, IsSeq(s)
  PROVE  Len(s) \in Nat /\ DOMAIN s = 1..Len(s) /\ (s # <<>> <=> Len(s) > 0)
  BY DEF IsSeq

LEMMA FrontLaws ==
  ASSUME NEW s, IsSeq(s), s # <<>>
  PROVE  /\ IsSeq(Front(s))
         /\ Len(Front(s)) = Len(s) - 1
         /\ \A i \in 1..(Len(s) - 1) : Front(s)[i] = s[i]
         /\ Last(s) = s[Len(s)]
<1>1. PICK S : s \in Seq(S)
  BY DEF IsSeq
<1>2. Len(s) \in Nat /\ Len(s) > 0
  BY <1>1
<1>3. Len(s) - 1 \in 0..Len(s)
  BY <1>2
<1>4. SubSeq(s, 1, Len(s) - 1) = [i \in 1..(Len(s) - 1) |-> s[i]]
  BY <1>1, <1>3, SubSeqRestrict, Zenon DEF Restrict
<1>5. /\ [i \in 1..(Len(s) - 1) |-> s[i]] \in Seq(S)
      /\ Len([i \in 1..(Len(s) - 1) |-> s[i]]) = Len(s) - 1
  BY <1>1, <1>2, SMT
<1>6. Front(s) = [i \in 1..(Len(s) - 1) |-> s[i]] /\ Last(s) = s[Len(s)]
  BY <1>4 DEF Front, Last
<1>7. QED
  BY <1>5, <1>6 DEF IsSeq

LEMMA UpdateLaws ==
  ASSUME NEW s, IsSeq(s), NEW k \in DOMAIN s, NEW x
  PROVE  /\ IsSeq([s EXCEPT ![k] = x])
         /\ Len([s EXCEPT ![k] = x]) = Len(s)
         /\ \A i \in DOMAIN s : [s EXCEPT ![k] = x][i] = IF i = k THEN x ELSE s[i]
<1>1. PICK S : s \in Seq(S)
  BY DEF IsSeq
<1>2. s \in Seq(S \cup {x})
  BY <1>1
<1>3. [s EXCEPT ![k] = x] \in Seq(S \cup {x}) /\ Len([s EXCEPT ![k] = x]) = Len(s)
  BY <1>2
<1>4. QED
  BY <1>2, <1>3 DEF IsSeq

-----------------------------------------------------------------------------
\* A call that is under way: its kind, what it has read, the member it reads.
IsFrame(f) ==
  /\ f \in [kind : {"array", "object"}, read : {f.read}, key : {f.key}]
  /\ IsSeq(f.read)

\* An object that is being read has no member twice.
IsDistinct(f) ==
  f.kind = "object" =>
    /\ \A j, k \in DOMAIN f.read : f.read[j].key = f.read[k].key => j = k
    /\ f.key # NoKey => ~\E j \in DOMAIN f.read : f.read[j].key = f.key.text

\* An object whose member is being read knows the member's name.
HoldsKey(f) == f.kind = "object" => f.key # NoKey

FramesAreCalls ==
  /\ IsSeq(frames)
  /\ \A i \in 1..Len(frames) : IsFrame(frames[i]) /\ IsDistinct(frames[i])

\* Every call but the innermost is reading a value, and so is the innermost
\* when a value is next.
KeysAreHeld ==
  \A i \in 1..Len(frames) : (i < Len(frames) \/ pc = "value") => HoldsKey(frames[i])

Count(t, brackets, n) == Cardinality({i \in 1..(n - 1) : t[i].is \in brackets})

Opening == {"{", "["}
Closing == {"}", "]"}

Depth(t, n) == Count(t, Opening, n) - Count(t, Closing, n)

DepthIsCount == Len(frames) = Depth(text, pos)

\* The inductive invariant.
Inv == TypeOK /\ FramesAreCalls /\ KeysAreHeld /\ DepthIsCount

LEMMA CountStep ==
  ASSUME NEW t, NEW n \in Nat \ {0}, NEW brackets
  PROVE  /\ Count(t, brackets, n) \in Nat
         /\ Count(t, brackets, n + 1) =
              Count(t, brackets, n) + (IF t[n].is \in brackets THEN 1 ELSE 0)
<1> DEFINE Before(m) == {i \in 1..(m - 1) : t[i].is \in brackets}
<1>1. IsFiniteSet(1..(n - 1))
  BY FS_Interval
<1>2. IsFiniteSet(Before(n)) /\ Cardinality(Before(n)) \in Nat
  BY <1>1, FS_Subset, FS_CardinalityType
<1>3. n \notin Before(n)
  OBVIOUS
<1>4. Before(n + 1) = IF t[n].is \in brackets THEN Before(n) \cup {n} ELSE Before(n)
  OBVIOUS
<1>5. Cardinality(Before(n) \cup {n}) = Cardinality(Before(n)) + 1
  BY <1>2, <1>3, FS_AddElement
<1>6. Count(t, brackets, n) = Cardinality(Before(n))
      /\ Count(t, brackets, n + 1) = Cardinality(Before(n + 1))
  BY DEF Count
<1> HIDE DEF Before
<1>7. QED
  BY <1>2, <1>4, <1>5, <1>6

\* How much deeper a token leads.
Weight(is) == IF is \in Opening THEN 1 ELSE IF is \in Closing THEN -1 ELSE 0

LEMMA DepthStep ==
  ASSUME NEW t, NEW n \in Nat \ {0}
  PROVE  Depth(t, n) \in Int /\ Depth(t, n + 1) = Depth(t, n) + Weight(t[n].is)
<1>1. t[n].is \in Opening => t[n].is \notin Closing
  BY DEF Opening, Closing
<1>2. QED
  BY <1>1, CountStep DEF Depth, Weight

LEMMA Weights ==
  /\ Weight("string") = 0 /\ Weight("scalar") = 0
  /\ Weight(":") = 0 /\ Weight(",") = 0
  /\ Weight("{") = 1 /\ Weight("[") = 1
  /\ Weight("}") = -1 /\ Weight("]") = -1
  BY DEF Weight, Opening, Closing

LEMMA TakesAnItem ==
  ASSUME NEW f, IsFrame(f), NEW x, IsSeq(Append(f.read, x))
  PROVE  LET g == [f EXCEPT !.read = Append(@, x), !.key = NoKey]
         IN  IsFrame(g) /\ g.kind = f.kind /\ g.read = Append(f.read, x) /\ g.key = NoKey
  BY DEF IsFrame

LEMMA Returned ==
  ASSUME NEW v, NEW stack, IsSeq(stack),
         \A i \in 1..Len(stack) :
           IsFrame(stack[i]) /\ IsDistinct(stack[i]) /\ HoldsKey(stack[i]),
         Return(v, stack)
  PROVE  /\ FramesAreCalls'
         /\ Len(frames') = Len(stack)
         /\ \A i \in 1..(Len(stack) - 1) : HoldsKey(frames'[i])
         /\ pc' = IF stack = <<>> THEN "end" ELSE "next"
<1>1. CASE stack = <<>>
  BY <1>1, EmptyIsSeq DEF Return, FramesAreCalls
<1>2. CASE stack # <<>>
  <2> DEFINE outer == Last(stack)
             item  == IF outer.kind = "array" THEN v ELSE Member(outer.key.text, v)
             inner == [outer EXCEPT !.read = Append(@, item), !.key = NoKey]
  <2>1. frames' = Append(Front(stack), inner) /\ pc' = "next"
    BY <1>2 DEF Return
  <2>2. /\ Len(stack) \in Nat /\ Len(stack) > 0
        /\ IsSeq(Front(stack))
        /\ Len(Front(stack)) = Len(stack) - 1
        /\ \A i \in 1..(Len(stack) - 1) : Front(stack)[i] = stack[i]
        /\ outer = stack[Len(stack)]
    BY <1>2, SeqLaws, FrontLaws
  <2>3. /\ IsSeq(frames')
        /\ Len(frames') = Len(stack)
        /\ \A i \in 1..(Len(stack) - 1) : frames'[i] = stack[i]
        /\ frames'[Len(stack)] = inner
    <3> HIDE DEF inner, outer
    <3>1. QED
      BY <2>1, <2>2, AppendLaws
  <2>4. IsFrame(outer) /\ IsDistinct(outer) /\ HoldsKey(outer)
    <3> HIDE DEF outer
    <3>1. QED
      BY <2>2
  <2>5. /\ IsFrame(inner)
        /\ inner.kind = outer.kind
        /\ inner.read = Append(outer.read, item)
        /\ inner.key = NoKey
    <3> HIDE DEF outer, item
    <3>1. IsSeq(Append(outer.read, item))
      BY <2>4, AppendLaws DEF IsFrame
    <3>2. QED
      BY <2>4, <3>1, TakesAnItem DEF inner
  <2>6. IsFrame(inner) /\ IsDistinct(inner)
    <3>1. /\ IsSeq(Append(outer.read, item))
          /\ Len(outer.read) \in Nat
          /\ DOMAIN outer.read = 1..Len(outer.read)
          /\ DOMAIN Append(outer.read, item) = 1..(Len(outer.read) + 1)
          /\ \A i \in 1..Len(outer.read) : Append(outer.read, item)[i] = outer.read[i]
          /\ Append(outer.read, item)[Len(outer.read) + 1] = item
      <4> HIDE DEF outer, item
      <4>1. QED
        BY <2>4, AppendLaws, SeqLaws DEF IsFrame
    <3>2. outer.kind = "object" => item.key = outer.key.text
      BY DEF Member
    <3> HIDE DEF outer, item, inner
    <3>3. ASSUME outer.kind = "object"
          PROVE  \A j, k \in DOMAIN inner.read :
                   inner.read[j].key = inner.read[k].key => j = k
      <4>1. \A j \in 1..Len(outer.read) : outer.read[j].key # item.key
        BY <2>4, <3>1, <3>2, <3>3 DEF IsDistinct, HoldsKey
      <4>2. inner.read = Append(outer.read, item)
        BY <2>5
      <4>3. \A j \in 1..(Len(outer.read) + 1) :
              j \in 1..Len(outer.read) \/ j = Len(outer.read) + 1
        BY <3>1
      <4>4. \A j, k \in 1..Len(outer.read) :
              outer.read[j].key = outer.read[k].key => j = k
        BY <2>4, <3>1, <3>3 DEF IsDistinct
      <4>5. QED
        BY <3>1, <4>1, <4>2, <4>3, <4>4
    <3>4. QED
      BY <2>5, <3>3 DEF IsDistinct
  <2> HIDE DEF inner
  <2>7. \A i \in 1..Len(stack) : i \in 1..(Len(stack) - 1) \/ i = Len(stack)
    BY <2>2
  <2>8. QED
    BY <1>2, <2>1, <2>2, <2>3, <2>6, <2>7 DEF FramesAreCalls
<1>3. QED
  BY <1>1, <1>2

-----------------------------------------------------------------------------
LEMMA HereIsAToken ==
  ASSUME Inv, NEW i \in {pos, pos + 1}, At(i).is # "end"
  PROVE  i \in 1..Len(text) /\ At(i) = text[i]
  BY DEF Inv, TypeOK, At

LEMMA PositionIsNat == Inv => pos \in Nat
  BY DEF Inv, TypeOK

LEMMA NextPosition ==
  ASSUME Inv, NEW i \in 1..Len(text)
  PROVE  i + 1 \in 1..(Len(text) + 1)
<1>1. Len(text) \in Nat
  BY DEF Inv, TypeOK
<1>2. QED
  BY <1>1

LEMMA OneTokenOn ==
  ASSUME Inv, text' = text, pos' = pos + 1,
         Len(frames') = Len(frames) + Weight(text[pos].is)
  PROVE  DepthIsCount'
<1>1. pos \in Nat \ {0}
  BY DEF Inv, TypeOK
<1>2. QED
  BY <1>1, DepthStep DEF Inv, DepthIsCount

LEMMA TwoTokensOn ==
  ASSUME Inv, text' = text, pos' = pos + 2,
         Len(frames') = Len(frames) + Weight(text[pos].is) + Weight(text[pos + 1].is)
  PROVE  DepthIsCount'
<1>1. pos \in Nat \ {0} /\ pos + 1 \in Nat \ {0} /\ pos + 2 = (pos + 1) + 1
  BY DEF Inv, TypeOK
<1>2. Depth(text, pos + 1) = Depth(text, pos) + Weight(text[pos].is)
  BY <1>1, DepthStep
<1>3. Depth(text, pos + 2) = Depth(text, pos + 1) + Weight(text[pos + 1].is)
  BY <1>1, DepthStep
<1>4. QED
  BY <1>2, <1>3 DEF Inv, DepthIsCount

LEMMA ReturnKeeps ==
  ASSUME Inv, NEW v, NEW stack, IsSeq(stack),
         \A i \in 1..Len(stack) :
           IsFrame(stack[i]) /\ IsDistinct(stack[i]) /\ HoldsKey(stack[i]),
         Return(v, stack), text' = text, pos' \in 1..(Len(text) + 1)
  PROVE  TypeOK' /\ FramesAreCalls' /\ KeysAreHeld' /\ Len(frames') = Len(stack)
<1>1. /\ FramesAreCalls'
      /\ Len(frames') = Len(stack)
      /\ \A i \in 1..(Len(stack) - 1) : HoldsKey(frames'[i])
      /\ pc' = IF stack = <<>> THEN "end" ELSE "next"
  BY Returned
<1>2. Len(stack) \in Nat /\ (stack # <<>> <=> Len(stack) > 0)
  BY SeqLaws
<1>3. IsSeq(frames') /\ DOMAIN frames' = 1..Len(frames') /\ (frames' # <<>> <=> Len(frames') > 0)
  BY <1>1, SeqLaws DEF FramesAreCalls
<1>4. KeysAreHeld'
  BY <1>1, <1>2 DEF KeysAreHeld
<1>5. \A i \in DOMAIN frames' : frames'[i].kind \in {"array", "object"}
  BY <1>1, <1>3 DEF FramesAreCalls, IsFrame
<1>6. TypeOK'
  BY <1>1, <1>2, <1>3, <1>5 DEF Inv, TypeOK
<1>7. QED
  BY <1>1, <1>4, <1>6

-----------------------------------------------------------------------------
\* A scalar is returned at once: every call is reading a value.
LEMMA ParseScalarKeeps ==
  ASSUME Inv, ParseScalar
  PROVE  Inv'
<1>1. PICK v : Return(v, frames)
  BY DEF ParseScalar
<1>2. /\ pos \in 1..Len(text) /\ text[pos].is \in {"string", "scalar"}
      /\ pos' = pos + 1 /\ text' = text /\ pc = "value"
  BY HereIsAToken DEF ParseScalar, Peek
<1>3. pos' \in 1..(Len(text) + 1)
  BY <1>2, NextPosition
<1>4. /\ IsSeq(frames)
      /\ \A i \in 1..Len(frames) :
           IsFrame(frames[i]) /\ IsDistinct(frames[i]) /\ HoldsKey(frames[i])
  BY <1>2 DEF Inv, FramesAreCalls, KeysAreHeld
<1>5. TypeOK' /\ FramesAreCalls' /\ KeysAreHeld' /\ Len(frames') = Len(frames)
  BY <1>1, <1>2, <1>3, <1>4, ReturnKeeps
<1>6. Len(frames) \in Nat
  BY <1>4, SeqLaws
<1>7. DepthIsCount'
  <2>1. Weight(text[pos].is) = 0
    BY <1>2, Weights
  <2>2. Len(frames') = Len(frames) + Weight(text[pos].is)
    BY <1>5, <1>6, <2>1
  <2>3. QED
    BY <1>2, <2>2, OneTokenOn
<1>8. QED
  BY <1>5, <1>7 DEF Inv

LEMMA PushKeeps ==
  ASSUME Inv, pc = "value", NEW kind \in {"array", "object"},
         frames' = Append(frames, Frame(kind)),
         text' = text, pos' \in 1..(Len(text) + 1),
         \/ kind = "array" /\ pc' = "value"
         \/ kind = "object" /\ pc' = "key"
  PROVE  TypeOK' /\ FramesAreCalls' /\ KeysAreHeld' /\ Len(frames') = Len(frames) + 1
<1> DEFINE n == Len(frames)
<1>1. /\ IsSeq(frames') /\ n \in Nat /\ Len(frames') = n + 1
      /\ \A i \in 1..n : frames'[i] = frames[i]
      /\ frames'[n + 1] = Frame(kind)
  <2> HIDE DEF n
  <2>1. QED
    BY AppendLaws DEF Inv, FramesAreCalls, n
<1>2. IsFrame(Frame(kind)) /\ IsDistinct(Frame(kind)) /\ Frame(kind).kind = kind
  BY EmptyIsSeq DEF Frame, IsFrame, IsDistinct
<1>3. kind = "array" => HoldsKey(Frame(kind))
  BY <1>2 DEF HoldsKey
<1>4. \A i \in 1..n : IsFrame(frames[i]) /\ IsDistinct(frames[i]) /\ HoldsKey(frames[i])
  BY DEF Inv, FramesAreCalls, KeysAreHeld
<1>5. DOMAIN frames' = 1..(n + 1) /\ frames' # <<>>
  BY <1>1, SeqLaws
<1> HIDE DEF n
<1>6. \A i \in 1..(n + 1) : i \in 1..n \/ i = n + 1
  BY <1>1
<1>7. FramesAreCalls'
  BY <1>1, <1>2, <1>4, <1>6 DEF FramesAreCalls
<1>8. KeysAreHeld'
  BY <1>1, <1>3, <1>4, <1>6 DEF KeysAreHeld
<1>9. \A i \in DOMAIN frames' : frames'[i].kind \in {"array", "object"}
  BY <1>1, <1>5, <1>7 DEF FramesAreCalls, IsFrame
<1>10. TypeOK'
  BY <1>5, <1>9 DEF Inv, TypeOK
<1>11. QED
  BY <1>1, <1>7, <1>8, <1>10 DEF n

LEMMA AllKeysAreHeld ==
  ASSUME Inv, pc = "value"
  PROVE  /\ IsSeq(frames) /\ Len(frames) \in Nat
         /\ \A i \in 1..Len(frames) :
              IsFrame(frames[i]) /\ IsDistinct(frames[i]) /\ HoldsKey(frames[i])
  BY SeqLaws DEF Inv, FramesAreCalls, KeysAreHeld

\* An array is entered, or is empty and returned at once.
LEMMA ParseArrayKeeps ==
  ASSUME Inv, ParseArray
  PROVE  Inv'
<1>1. pc = "value" /\ text' = text /\ pos \in 1..Len(text) /\ text[pos].is = "["
  BY HereIsAToken DEF ParseArray, Peek
<1>2. Len(frames) \in Nat /\ Weight(text[pos].is) = 1
  BY <1>1, AllKeysAreHeld, Weights
<1>3. CASE At(pos + 1).is = "]"
  <2>1. pos + 1 \in 1..Len(text) /\ text[pos + 1].is = "]"
    BY <1>3, HereIsAToken
  <2>2. Return(Arr(<<>>), frames) /\ pos' = pos + 2
    BY <1>3 DEF ParseArray
  <2>3. pos' = (pos + 1) + 1 /\ pos' \in 1..(Len(text) + 1)
    <3>1. pos' = (pos + 1) + 1
      BY <2>2, PositionIsNat
    <3>2. QED
      BY <2>1, <3>1, NextPosition
  <2>4. TypeOK' /\ FramesAreCalls' /\ KeysAreHeld' /\ Len(frames') = Len(frames)
    BY <1>1, <2>2, <2>3, AllKeysAreHeld, ReturnKeeps
  <2>5. Weight(text[pos + 1].is) = -1
    BY <2>1, Weights
  <2>6. Len(frames') = Len(frames) + Weight(text[pos].is) + Weight(text[pos + 1].is)
    BY <1>2, <2>4, <2>5
  <2>7. QED
    BY <1>1, <2>2, <2>4, <2>6, TwoTokensOn DEF Inv
<1>4. CASE At(pos + 1).is # "]"
  <2>1. frames' = Append(frames, Frame("array")) /\ pos' = pos + 1 /\ pc' = "value"
    BY <1>1, <1>4 DEF ParseArray
  <2>2. pos' \in 1..(Len(text) + 1)
    BY <1>1, <2>1, NextPosition
  <2>3. TypeOK' /\ FramesAreCalls' /\ KeysAreHeld' /\ Len(frames') = Len(frames) + 1
    BY <1>1, <2>1, <2>2, PushKeeps
  <2>4. Len(frames') = Len(frames) + Weight(text[pos].is)
    BY <1>2, <2>3
  <2>5. QED
    BY <1>1, <2>1, <2>3, <2>4, OneTokenOn DEF Inv
<1>5. QED
  BY <1>3, <1>4

\* An object is entered where its first member is named, or is empty.
LEMMA ParseObjectKeeps ==
  ASSUME Inv, ParseObject
  PROVE  Inv'
<1>1. pc = "value" /\ text' = text /\ pos \in 1..Len(text) /\ text[pos].is = "{"
  BY HereIsAToken DEF ParseObject, Peek
<1>2. Len(frames) \in Nat /\ Weight(text[pos].is) = 1
  BY <1>1, AllKeysAreHeld, Weights
<1>3. CASE At(pos + 1).is = "}"
  <2>1. pos + 1 \in 1..Len(text) /\ text[pos + 1].is = "}"
    BY <1>3, HereIsAToken
  <2>2. Return(Obj(<<>>), frames) /\ pos' = pos + 2
    BY <1>3 DEF ParseObject
  <2>3. pos' = (pos + 1) + 1 /\ pos' \in 1..(Len(text) + 1)
    <3>1. pos' = (pos + 1) + 1
      BY <2>2, PositionIsNat
    <3>2. QED
      BY <2>1, <3>1, NextPosition
  <2>4. TypeOK' /\ FramesAreCalls' /\ KeysAreHeld' /\ Len(frames') = Len(frames)
    BY <1>1, <2>2, <2>3, AllKeysAreHeld, ReturnKeeps
  <2>5. Weight(text[pos + 1].is) = -1
    BY <2>1, Weights
  <2>6. Len(frames') = Len(frames) + Weight(text[pos].is) + Weight(text[pos + 1].is)
    BY <1>2, <2>4, <2>5
  <2>7. QED
    BY <1>1, <2>2, <2>4, <2>6, TwoTokensOn DEF Inv
<1>4. CASE At(pos + 1).is # "}"
  <2>1. frames' = Append(frames, Frame("object")) /\ pos' = pos + 1 /\ pc' = "key"
    BY <1>4 DEF ParseObject
  <2>2. pos' \in 1..(Len(text) + 1)
    BY <1>1, <2>1, NextPosition
  <2>3. TypeOK' /\ FramesAreCalls' /\ KeysAreHeld' /\ Len(frames') = Len(frames) + 1
    BY <1>1, <2>1, <2>2, PushKeeps
  <2>4. Len(frames') = Len(frames) + Weight(text[pos].is)
    BY <1>2, <2>3
  <2>5. QED
    BY <1>1, <2>1, <2>3, <2>4, OneTokenOn DEF Inv
<1>5. QED
  BY <1>3, <1>4

\* A member is named once: its name is none of those that were read.
LEMMA ParseKeyKeeps ==
  ASSUME Inv, ParseKey
  PROVE  Inv'
<1> DEFINE n == Len(frames)
           top == [frames[n] EXCEPT !.key = Peek]
<1>1. /\ pc = "key" /\ pc' = "value" /\ text' = text /\ pos' = pos + 2
      /\ Peek.is = "string" /\ At(pos + 1).is = ":"
      /\ \A j \in DOMAIN Top.read : Top.read[j].key # Peek.text
      /\ frames' = [frames EXCEPT ![n] = top]
  BY DEF ParseKey, KeyIsNext, IsDuplicate
<1>2. /\ pos \in 1..Len(text) /\ text[pos].is = "string"
      /\ pos + 1 \in 1..Len(text) /\ text[pos + 1].is = ":"
  BY <1>1, HereIsAToken DEF Peek
<1>3. /\ IsSeq(frames) /\ n \in Nat /\ n > 0 /\ DOMAIN frames = 1..n
      /\ Top = frames[n] /\ IsFrame(frames[n])
  BY <1>1, SeqLaws, FrontLaws DEF Inv, TypeOK, FramesAreCalls, Top
<1>4. /\ IsFrame(top)
      /\ top.kind = frames[n].kind /\ top.read = frames[n].read /\ top.key = Peek
  BY <1>3 DEF IsFrame
<1>5. IsDistinct(top) /\ HoldsKey(top)
  <2>1. Peek # NoKey
    BY <1>1 DEF NoKey
  <2>2. IsDistinct(frames[n])
    BY <1>3 DEF Inv, FramesAreCalls
  <2> HIDE DEF top, n
  <2>3. QED
    BY <1>1, <1>3, <1>4, <2>1, <2>2 DEF IsDistinct, HoldsKey
<1> HIDE DEF top
<1> HIDE DEF n
<1>6. /\ IsSeq(frames') /\ Len(frames') = n
      /\ \A i \in 1..n : frames'[i] = IF i = n THEN top ELSE frames[i]
  <2>1. n \in DOMAIN frames /\ frames' = [frames EXCEPT ![n] = top] /\ IsSeq(frames)
    BY <1>1, <1>3
  <2>2. QED
    BY <1>3, <2>1, UpdateLaws DEF n
<1>7. \A i \in 1..n : IsFrame(frames[i]) /\ IsDistinct(frames[i]) /\ (i < n => HoldsKey(frames[i]))
  BY DEF n, Inv, FramesAreCalls, KeysAreHeld
<1>8. DOMAIN frames' = 1..n /\ frames' # <<>>
  BY <1>3, <1>6, SeqLaws
<1>9. FramesAreCalls'
  BY <1>4, <1>5, <1>6, <1>7 DEF FramesAreCalls
<1>10. KeysAreHeld'
  BY <1>3, <1>5, <1>6, <1>7 DEF KeysAreHeld
<1>11. TypeOK'
  <2>1. \A i \in DOMAIN frames' : frames'[i].kind \in {"array", "object"}
    BY <1>6, <1>8, <1>9 DEF FramesAreCalls, IsFrame
  <2>2. pos' \in 1..(Len(text) + 1)
    <3>1. pos' = (pos + 1) + 1
      BY <1>1, <1>2
    <3>2. QED
      BY <1>2, <3>1, NextPosition
  <2>3. QED
    BY <1>1, <1>8, <2>1, <2>2 DEF Inv, TypeOK
<1>12. DepthIsCount'
  <2>1. Weight(text[pos].is) = 0 /\ Weight(text[pos + 1].is) = 0
    BY <1>2, Weights
  <2>2. Len(frames') = Len(frames) + Weight(text[pos].is) + Weight(text[pos + 1].is)
    <3>1. Len(frames) = n /\ Len(frames') = n /\ n \in Nat
      BY <1>3, <1>6 DEF n
    <3>2. QED
      BY <2>1, <3>1
  <2>3. QED
    BY <1>1, <2>2, TwoTokensOn
<1>13. QED
  BY <1>9, <1>10, <1>11, <1>12 DEF Inv

LEMMA SeparateKeeps ==
  ASSUME Inv, Separate
  PROVE  Inv'
<1>1. /\ pc = "next" /\ text' = text /\ frames' = frames /\ pos' = pos + 1
      /\ pc' = IF Top.kind = "array" THEN "value" ELSE "key"
      /\ pos \in 1..Len(text) /\ text[pos].is = ","
  BY HereIsAToken DEF Separate, Peek
<1>2. /\ frames # <<>> /\ Len(frames) \in Nat
      /\ Top = frames[Len(frames)]
  BY <1>1, SeqLaws, FrontLaws DEF Inv, TypeOK, FramesAreCalls, Top
<1>3. FramesAreCalls'
  BY <1>1 DEF Inv, FramesAreCalls
<1>4. KeysAreHeld'
  <2>1. \A i \in 1..Len(frames) : (i < Len(frames) \/ pc' = "value") => HoldsKey(frames[i])
    <3>1. pc' = "value" => Top.kind = "array"
      BY <1>1
    <3>2. pc' = "value" => HoldsKey(frames[Len(frames)])
      BY <1>2, <3>1 DEF HoldsKey
    <3>3. \A i \in 1..Len(frames) : i < Len(frames) \/ i = Len(frames)
      BY <1>2
    <3>4. QED
      BY <3>2, <3>3 DEF Inv, KeysAreHeld
  <2>2. QED
    BY <1>1, <2>1 DEF KeysAreHeld
<1>5. TypeOK'
  <2>1. pc' \in {"value", "key"} /\ text' = text /\ frames' = frames
    BY <1>1
  <2>2. pos' \in 1..(Len(text) + 1)
    BY <1>1, NextPosition
  <2>3. QED
    BY <1>2, <2>1, <2>2 DEF Inv, TypeOK
<1>6. DepthIsCount'
  <2>1. Weight(text[pos].is) = 0
    BY <1>1, Weights
  <2>2. frames' = frames
    BY <1>1
  <2>3. Len(frames') = Len(frames) + Weight(text[pos].is)
    BY <1>2, <2>1, <2>2
  <2>4. QED
    BY <1>1, <2>3, OneTokenOn
<1>7. QED
  BY <1>3, <1>4, <1>5, <1>6 DEF Inv

\* A container is closed: the calls around it are all reading a value.
LEMMA CloseKeeps ==
  ASSUME Inv, Close
  PROVE  Inv'
<1>1. PICK v : Return(v, Front(frames))
  BY DEF Close
<1>2. /\ pc = "next" /\ text' = text /\ pos' = pos + 1
      /\ pos \in 1..Len(text) /\ text[pos].is \in {"]", "}"}
  BY HereIsAToken DEF Close, Closer, Peek
<1>3. /\ Len(frames) \in Nat /\ IsSeq(Front(frames))
      /\ Len(Front(frames)) = Len(frames) - 1
      /\ \A i \in 1..(Len(frames) - 1) : Front(frames)[i] = frames[i]
  BY <1>2, SeqLaws, FrontLaws DEF Inv, TypeOK, FramesAreCalls
<1>4. \A i \in 1..Len(Front(frames)) :
        /\ IsFrame(Front(frames)[i]) /\ IsDistinct(Front(frames)[i])
        /\ HoldsKey(Front(frames)[i])
  BY <1>3 DEF Inv, FramesAreCalls, KeysAreHeld
<1>5. pos' \in 1..(Len(text) + 1)
  BY <1>2, NextPosition
<1>6. TypeOK' /\ FramesAreCalls' /\ KeysAreHeld' /\ Len(frames') = Len(frames) - 1
  BY <1>1, <1>2, <1>3, <1>4, <1>5, ReturnKeeps
<1>7. DepthIsCount'
  <2>1. Weight(text[pos].is) = -1
    BY <1>2, Weights
  <2>2. Len(frames') = Len(frames) + Weight(text[pos].is)
    BY <1>3, <1>6, <2>1
  <2>3. QED
    BY <1>2, <2>2, OneTokenOn
<1>8. QED
  BY <1>6, <1>7 DEF Inv

LEMMA VerdictKeeps ==
  ASSUME Inv, Accept \/ Refuse
  PROVE  Inv'
<1>1. UNCHANGED <<text, pos, frames>> /\ pc' \in {"accepted", "refused"}
      /\ (pc' = "accepted" => pc = "end")
  BY DEF Accept, Refuse
<1>2. QED
  BY <1>1 DEF Inv, TypeOK, FramesAreCalls, KeysAreHeld, DepthIsCount

-----------------------------------------------------------------------------
LEMMA Initially == Init => Inv
<1> SUFFICES ASSUME Init PROVE Inv
  OBVIOUS
<1>1. text \in Seq(Token) /\ pos = 1 /\ frames = <<>> /\ pc = "value"
  BY TextsAssumption DEF Init
<1>2. Len(text) \in Nat /\ Len(frames) = 0 /\ DOMAIN frames = {} /\ IsSeq(frames)
  BY <1>1, EmptyIsSeq, SeqLaws
<1>3. \A B : {i \in 1..(1 - 1) : text[i].is \in B} = {}
  OBVIOUS
<1>4. \A B : Count(text, B, 1) = 0
  BY <1>3, FS_EmptySet DEF Count
<1>5. DepthIsCount
  BY <1>1, <1>2, <1>4 DEF DepthIsCount, Depth
<1>6. QED
  BY <1>1, <1>2, <1>5 DEF Inv, TypeOK, FramesAreCalls, KeysAreHeld

LEMMA Invariance == Inv /\ [Next]_vars => Inv'
<1> SUFFICES ASSUME Inv, [Next]_vars PROVE Inv'
  OBVIOUS
<1>1. CASE ParseScalar BY <1>1, ParseScalarKeeps
<1>2. CASE ParseArray BY <1>2, ParseArrayKeeps
<1>3. CASE ParseObject BY <1>3, ParseObjectKeeps
<1>4. CASE ParseKey BY <1>4, ParseKeyKeeps
<1>5. CASE Separate BY <1>5, SeparateKeeps
<1>6. CASE Close BY <1>6, CloseKeeps
<1>7. CASE Accept \/ Refuse BY <1>7, VerdictKeeps
<1>8. CASE UNCHANGED vars
  BY <1>8 DEF vars, Inv, TypeOK, FramesAreCalls, KeysAreHeld, DepthIsCount
<1>9. QED
  BY <1>1, <1>2, <1>3, <1>4, <1>5, <1>6, <1>7, <1>8 DEF Next

LEMMA InvImplies == Inv => ReaderInvariant
<1> SUFFICES ASSUME Inv PROVE ReaderInvariant
  OBVIOUS
<1>1. KeysAreDistinct
  <2>1. DOMAIN frames = 1..Len(frames)
    BY SeqLaws DEF Inv, FramesAreCalls
  <2>2. QED
    BY <2>1 DEF Inv, FramesAreCalls, IsDistinct, KeysAreDistinct
<1>2. DepthIsNesting
  BY DEF Inv, DepthIsCount, Depth, Count, Opening, Closing, DepthIsNesting
<1>3. QED
  BY <1>1, <1>2 DEF Inv, ReaderInvariant

\* The reader's invariant for texts of any length: no object, however deep it
\* lies, takes a member twice, so that find() has one answer; and the recursion
\* is as deep as the text is nested, so that nothing but the text limits it
\* (JsonParser::parse_value, parse_object and parse_array).
THEOREM ReaderInvariantHolds == Spec => []ReaderInvariant
<1>1. Spec => []Inv
  BY Initially, Invariance, PTL DEF Spec
<1>2. QED
  BY <1>1, InvImplies, PTL
-----------------------------------------------------------------------------
(***************************************************************************)
(* Recursion and induction. A recursive function exists if every value is  *)
(* got from those of a smaller measure; and what is true of a number if it *)
(* is true of the smaller ones is true of all. The second is stated of the *)
(* set of the numbers it is true of.                                       *)
(***************************************************************************)
LEMMA LeastExists ==
  ASSUME NEW T \in SUBSET Nat, T # {}
  PROVE  \E x \in T : \A y \in T : x <= y
  <1>1. PICK x \in T : \A y \in T : ~(<<y, x>> \in OpToRel(<, Nat))
    BY WFMin, NatLessThanWellFounded, Zenon
  <1>2. ASSUME NEW y \in T PROVE x <= y
    <2>1. ~(y < x)
      BY <1>1 DEF OpToRel
    <2>2. QED
      BY <2>1
  <1>3. QED
    BY <1>2

LEMMA UpTo ==
  ASSUME NEW n \in Nat, NEW G,
         \A k \in 0..n : (\A j \in 0..(k - 1) : j \in G) => k \in G
  PROVE  \A k \in 0..n : k \in G
<1> DEFINE Bad == {k \in 0..n : k \notin G}
<1>1. SUFFICES ASSUME Bad # {} PROVE FALSE
  OBVIOUS
<1>2. PICK k \in Bad : \A j \in Bad : k <= j
  <2>1. Bad \in SUBSET Nat
    OBVIOUS
  <2> HIDE DEF Bad
  <2>2. QED
    BY <1>1, <2>1, LeastExists
<1>3. k \in 0..n /\ k \notin G
  BY <1>2
<1>4. ASSUME NEW j \in 0..(k - 1) PROVE j \in G
  <2>1. j \in 0..n /\ ~(k <= j)
    BY <1>3
  <2>2. QED
    BY <1>2, <2>1
<1>5. QED
  BY <1>3, <1>4

\* Every value depends only on those of a smaller measure.
DependsOnSmaller(step, S, mu, V) ==
  \A m \in S : \A g, h \in [S -> V] :
    (\A j \in S : mu[j] < mu[m] => g[j] = h[j]) => step[m][g] = step[m][h]

Solution(f, step, S) == \A m \in S : f[m] = step[m][f]

LEMMA RecursionHasSolution ==
  ASSUME NEW n \in Nat, NEW S, NEW mu \in [S -> 0..n], NEW V, NEW v0 \in V,
         NEW step \in [S -> [[S -> V] -> V]], DependsOnSmaller(step, S, mu, V)
  PROVE  \E f \in [S -> V] : Solution(f, step, S)
<1> DEFINE Solved(f, k) == \A m \in S : mu[m] <= k => f[m] = step[m][f]
           Good(k) == \E f \in [S -> V] : Solved(f, k)
           G == {k \in 0..n : Good(k)}
<1>1. \A m \in S : mu[m] \in 0..n
  OBVIOUS
<1>2. ASSUME NEW k \in 0..n, NEW f \in [S -> V], \A m \in S : mu[m] < k => f[m] = step[m][f]
      PROVE  Good(k)
  <2> DEFINE g == [m \in S |-> IF mu[m] = k THEN step[m][f] ELSE f[m]]
  <2>1. \A m \in S : step[m][f] \in V /\ f[m] \in V
    OBVIOUS
  <2>2. g \in [S -> V]
    BY <2>1
  <2>3. \A m \in S : /\ mu[m] = k => g[m] = step[m][f]
                     /\ mu[m] # k => g[m] = f[m]
    OBVIOUS
  <2> HIDE DEF g
  <2>4. ASSUME NEW m \in S, mu[m] <= k PROVE g[m] = step[m][g]
    <3>1. \A j \in S : mu[j] < mu[m] => g[j] = f[j]
      BY <1>1, <2>3, <2>4
    <3>2. step[m][g] = step[m][f]
      BY <2>2, <3>1 DEF DependsOnSmaller
    <3>3. CASE mu[m] = k
      BY <2>3, <3>2, <3>3
    <3>4. CASE mu[m] < k
      BY <1>1, <1>2, <2>3, <3>2, <3>4
    <3>5. mu[m] = k \/ mu[m] < k
      <4>1. mu[m] \in 0..n /\ k \in 0..n /\ mu[m] <= k
        BY <1>1, <2>4
      <4>2. \A a, b \in 0..n : a <= b => a = b \/ a < b
        OBVIOUS
      <4>3. QED
        BY <4>1, <4>2, Zenon
    <3>6. QED
      BY <3>3, <3>4, <3>5, Zenon
  <2>5. QED
    BY <2>2, <2>4
<1>3. \A k \in 0..n : k \in G
  <2>1. ASSUME NEW k \in 0..n, \A j \in 0..(k - 1) : j \in G
        PROVE  k \in G
    <3>1. CASE k = 0
      <4>1. [m \in S |-> v0] \in [S -> V] /\ \A m \in S : ~(mu[m] < k)
        BY <1>1, <3>1
      <4>2. QED
        BY <1>2, <4>1
    <3>2. CASE k # 0
      <4>1. k - 1 \in 0..(k - 1) /\ \A m \in S : mu[m] < k => mu[m] <= k - 1
        BY <1>1, <3>2
      <4>2. Good(k - 1)
        BY <2>1, <4>1
      <4>3. PICK f \in [S -> V] : Solved(f, k - 1)
        BY <4>2
      <4>4. \A m \in S : mu[m] < k => f[m] = step[m][f]
        BY <4>1, <4>3
      <4>5. QED
        BY <1>2, <4>4
    <3>3. QED
      BY <3>1, <3>2
  <2> HIDE DEF G
  <2>2. QED
    BY <2>1, UpTo
<1>4. n \in 0..n
  OBVIOUS
<1>5. PICK f \in [S -> V] : Solved(f, n)
  BY <1>3, <1>4
<1>6. \A m \in S : f[m] = step[m][f]
  BY <1>1, <1>5
<1>7. QED
  BY <1>6 DEF Solution

-----------------------------------------------------------------------------
(***************************************************************************)
(* The pieces of a string.                                                 *)
(***************************************************************************)
LEMMA ResultLaws ==
  /\ \A v, e : Taken(v, e).ok = TRUE /\ Taken(v, e).value = v /\ Taken(v, e).end = e
  /\ Failure.ok = FALSE
  BY DEF Taken, Failure

Bytes == Seq(Byte)

\* What is read at p of a text: nothing, or a result that ends behind p.
ReadAt(t, p, S, r) == r = Failure \/ \E v \in S, e \in (p + 1)..(Len(t) + 1) : r = Taken(v, e)

LEMMA ByteAt ==
  ASSUME NEW t \in Bytes
  PROVE  Len(t) \in Nat /\ \A i \in 1..Len(t) : t[i] \in Byte /\ t[i] \in 0..255
  BY ElementOfSeq, LenProperties DEF Bytes, Byte

UnitSet == {u \in Nat : u < 65536}

UnitOf(a, b, c, d) == 4096 * a + 256 * b + 16 * c + d

LEMMA UnitOfType ==
  ASSUME NEW a \in 0..15, NEW b \in 0..15, NEW c \in 0..15, NEW d \in 0..15
  PROVE  UnitOf(a, b, c, d) \in UnitSet
  BY SMT DEF UnitOf, UnitSet

LEMMA HexValueType ==
  ASSUME NEW c \in Byte
  PROVE  HexValue(c) \in -1..15
  BY DEF HexValue, Byte, Digit

LEMMA CodeUnitType ==
  ASSUME NEW t \in Bytes, NEW p \in Nat, p > 0
  PROVE  \/ CodeUnit(t, p) = Failure
         \/ \E u \in UnitSet : CodeUnit(t, p) = Taken(u, p + 4) /\ p + 4 <= Len(t) + 1
<1>1. CASE p + 3 > Len(t) \/ \E k \in 0..3 : HexValue(t[p + k]) < 0
  BY <1>1 DEF CodeUnit
<1>2. CASE ~(p + 3 > Len(t) \/ \E k \in 0..3 : HexValue(t[p + k]) < 0)
  <2> DEFINE u == UnitOf(HexValue(t[p]), HexValue(t[p + 1]), HexValue(t[p + 2]), HexValue(t[p + 3]))
  <2>1. CodeUnit(t, p) = Taken(u, p + 4)
    BY <1>2, SMT DEF CodeUnit, UnitOf
  <2>2. Len(t) \in Nat /\ p + 3 <= Len(t)
    BY <1>2, ByteAt
  <2>3. \A k \in 0..3 : HexValue(t[p + k]) \in 0..15
    <3>1. ASSUME NEW k \in 0..3 PROVE HexValue(t[p + k]) \in 0..15
      <4>1. p + k \in 1..Len(t)
        BY <2>2
      <4>2. HexValue(t[p + k]) \in -1..15
        BY <4>1, ByteAt, HexValueType
      <4>3. ~(HexValue(t[p + k]) < 0)
        BY <1>2
      <4>4. QED
        BY <4>2, <4>3
    <3>2. QED
      BY <3>1
  <2>4. p + 0 = p /\ 0 \in 0..3 /\ 1 \in 0..3 /\ 2 \in 0..3 /\ 3 \in 0..3
    OBVIOUS
  <2>5. /\ HexValue(t[p]) \in 0..15 /\ HexValue(t[p + 1]) \in 0..15
        /\ HexValue(t[p + 2]) \in 0..15 /\ HexValue(t[p + 3]) \in 0..15
    BY <2>3, <2>4
  <2>6. u \in UnitSet
    BY <2>5, UnitOfType, Zenon
  <2> HIDE DEF u
  <2>7. p + 4 <= Len(t) + 1
    BY <2>2
  <2>8. QED
    BY <2>1, <2>6, <2>7
<1>3. QED
  BY <1>1, <1>2

CodePoint == {cp \in Nat : cp < 1114112}

\* What is stored for a code point is its UTF-8.
LEMMA OneByte ==
  ASSUME NEW cp \in Nat, cp < 128
  PROVE  <<cp>> \in Bytes /\ IsUtf8Of(<<cp>>, cp)
  BY SMT DEF IsUtf8Of, Bytes, Byte

Bits2(cp, a, b) ==
  /\ cp \in Nat
  /\ 128 <= cp
  /\ cp < 2048
  /\ a \in 192..223
  /\ b \in 128..191
  /\ cp = (a - 192) * 64 + (b - 128)

LEMMA TwoBytes ==
  ASSUME NEW cp, NEW a, NEW b, Bits2(cp, a, b)
  PROVE  <<a, b>> \in Bytes /\ IsUtf8Of(<<a, b>>, cp)
  BY SMT DEF Bits2, IsUtf8Of, Bytes, Byte

Bits3(cp, a, b, c) ==
  /\ cp \in Nat
  /\ 2048 <= cp
  /\ cp < 65536
  /\ a \in 224..239
  /\ b \in 128..191
  /\ c \in 128..191
  /\ cp = (a - 224) * 4096 + (b - 128) * 64 + (c - 128)

LEMMA ThreeBytes ==
  ASSUME NEW cp, NEW a, NEW b, NEW c, Bits3(cp, a, b, c)
  PROVE  <<a, b, c>> \in Bytes /\ IsUtf8Of(<<a, b, c>>, cp)
  BY SMT DEF Bits3, IsUtf8Of, Bytes, Byte

Bits4(cp, a, b, c, d) ==
  /\ cp \in Nat
  /\ 65536 <= cp
  /\ cp < 1114112
  /\ a \in 240..247
  /\ b \in 128..191
  /\ c \in 128..191
  /\ d \in 128..191
  /\ cp = (a - 240) * 262144 + (b - 128) * 4096 + (c - 128) * 64 + (d - 128)

LEMMA FourBytes ==
  ASSUME NEW cp, NEW a, NEW b, NEW c, NEW d, Bits4(cp, a, b, c, d)
  PROVE  <<a, b, c, d>> \in Bytes /\ IsUtf8Of(<<a, b, c, d>>, cp)
  BY SMT DEF Bits4, IsUtf8Of, Bytes, Byte

LEMMA Utf8IsExact ==
  ASSUME NEW cp \in CodePoint
  PROVE  Utf8(cp) \in Bytes /\ IsUtf8Of(Utf8(cp), cp)
<1>1. cp \in Nat /\ cp < 1114112
  BY SMT DEF CodePoint
<1>2. CASE cp < 128
  <2>1. Utf8(cp) = <<cp>>
    BY <1>2 DEF Utf8
  <2>2. QED
    BY <1>1, <1>2, <2>1, OneByte, SMT
<1>3. CASE cp >= 128 /\ cp < 2048
  <2> DEFINE a == 192 + cp \div 64
             b == 128 + (cp % 64)
  <2>1. Utf8(cp) = <<a, b>>
    BY <1>1, <1>3, SMT DEF Utf8
  <2>2. a \in 192..223 /\ b \in 128..191 /\ cp = (a - 192) * 64 + (b - 128)
    BY <1>1, <1>3, SMT
  <2> HIDE DEF a, b
  <2>3. <<a, b>> \in Bytes /\ IsUtf8Of(<<a, b>>, cp)
    <3>1. Bits2(cp, a, b)
      BY <1>1, <1>3, <2>2, SMT DEF Bits2
    <3>2. QED
      BY <3>1, TwoBytes, Zenon
  <2>4. QED
    BY <2>1, <2>3, SMT
<1>4. CASE cp >= 2048 /\ cp < 65536
  <2> DEFINE a == 224 + cp \div 4096
             b == 128 + ((cp \div 64) % 64)
             c == 128 + (cp % 64)
  <2>1. Utf8(cp) = <<a, b, c>>
    BY <1>1, <1>4, SMT DEF Utf8
  <2>2. /\ a \in 224..239 /\ b \in 128..191 /\ c \in 128..191
        /\ cp = (a - 224) * 4096 + (b - 128) * 64 + (c - 128)
    BY <1>1, <1>4, SMT
  <2> HIDE DEF a, b, c
  <2>3. <<a, b, c>> \in Bytes /\ IsUtf8Of(<<a, b, c>>, cp)
    <3>1. Bits3(cp, a, b, c)
      BY <1>1, <1>4, <2>2, SMT DEF Bits3
    <3>2. QED
      BY <3>1, ThreeBytes, Zenon
  <2>4. QED
    BY <2>1, <2>3, SMT
<1>5. CASE cp >= 65536
  <2> DEFINE a == 240 + cp \div 262144
             b == 128 + ((cp \div 4096) % 64)
             c == 128 + ((cp \div 64) % 64)
             d == 128 + (cp % 64)
  <2>1. Utf8(cp) = <<a, b, c, d>>
    BY <1>1, <1>5, SMT DEF Utf8
  <2>2. /\ a \in 240..247 /\ b \in 128..191 /\ c \in 128..191 /\ d \in 128..191
        /\ cp = (a - 240) * 262144 + (b - 128) * 4096 + (c - 128) * 64 + (d - 128)
    BY <1>1, <1>5, SMT
  <2> HIDE DEF a, b, c, d
  <2>3. <<a, b, c, d>> \in Bytes /\ IsUtf8Of(<<a, b, c, d>>, cp)
    <3>1. Bits4(cp, a, b, c, d)
      BY <1>1, <1>5, <2>2, SMT DEF Bits4
    <3>2. QED
      BY <3>1, FourBytes, Zenon
  <2>4. QED
    BY <2>1, <2>3, SMT
<1>6. QED
  BY <1>1, <1>2, <1>3, <1>4, <1>5, SMT

\* The code point of a surrogate pair.
PairOf(high, low) == 65536 + (high - 55296) * 1024 + (low - 56320)

LEMMA PairOfType ==
  ASSUME NEW high \in HighSurrogate, NEW low \in LowSurrogate
  PROVE  PairOf(high, low) \in CodePoint
<1>1. high \in Int /\ 55296 <= high /\ high <= 56319
  BY SMT DEF HighSurrogate
<1>2. low \in Int /\ 56320 <= low /\ low <= 57343
  BY SMT DEF LowSurrogate
<1>3. QED
  BY <1>1, <1>2, SMT DEF PairOf, CodePoint

LEMMA UnitIsCodePoint ==
  ASSUME NEW u \in UnitSet
  PROVE  u \in CodePoint /\ u \in Nat
  BY SMT DEF UnitSet, CodePoint

\* The three outcomes of \uXXXX, by what is found of its one or two code units.
EscapeCases(t, p, r) ==
  LET first  == CodeUnit(t, p + 1)
      second == CodeUnit(t, p + 7)
      paired == /\ p + 6 <= Len(t) /\ t[p + 5] = Backslash /\ t[p + 6] = LetterU
                /\ second.ok /\ second.value \in LowSurrogate
  IN  r = IF ~first.ok \/ first.value \in LowSurrogate THEN Failure
          ELSE IF first.value \notin HighSurrogate THEN Taken(Utf8(first.value), p + 5)
          ELSE IF paired THEN Taken(Utf8(PairOf(first.value, second.value)), p + 11)
          ELSE Failure

LEMMA EscapeCasesHold ==
  ASSUME NEW t, NEW p
  PROVE  EscapeCases(t, p, UnicodeEscape(t, p))
  BY SMT DEF EscapeCases, UnicodeEscape, PairOf

LEMMA UnicodeEscapeType ==
  ASSUME NEW t \in Bytes, NEW p \in Nat, p > 0
  PROVE  ReadAt(t, p, Bytes, UnicodeEscape(t, p))
<1> DEFINE first  == CodeUnit(t, p + 1)
           second == CodeUnit(t, p + 7)
           r == UnicodeEscape(t, p)
<1>1. \/ first = Failure
      \/ \E u \in UnitSet : first = Taken(u, (p + 1) + 4) /\ (p + 1) + 4 <= Len(t) + 1
  BY CodeUnitType
<1>2. \/ second = Failure
      \/ \E u \in UnitSet : second = Taken(u, (p + 7) + 4) /\ (p + 7) + 4 <= Len(t) + 1
  BY CodeUnitType
<1>3. EscapeCases(t, p, r)
  BY EscapeCasesHold
<1>4. Len(t) \in Nat
  BY ByteAt
<1> HIDE DEF r
<1>5. CASE r = Failure
  BY <1>5 DEF ReadAt, r
<1>6. CASE first.ok /\ first.value \notin HighSurrogate /\ r = Taken(Utf8(first.value), p + 5)
  <2>1. first.value \in UnitSet /\ p + 5 <= Len(t) + 1
    BY <1>1, <1>6, ResultLaws
  <2>2. Utf8(first.value) \in Bytes
    BY <2>1, UnitIsCodePoint, Utf8IsExact
  <2>3. p + 5 \in (p + 1)..(Len(t) + 1)
    BY <1>4, <2>1
  <2>4. QED
    BY <1>6, <2>2, <2>3 DEF ReadAt, r
<1>7. CASE /\ first.ok /\ first.value \in HighSurrogate /\ second.ok /\ second.value \in LowSurrogate
           /\ r = Taken(Utf8(PairOf(first.value, second.value)), p + 11)
  <2>1. p + 11 <= Len(t) + 1
    BY <1>2, <1>7, ResultLaws
  <2>2. Utf8(PairOf(first.value, second.value)) \in Bytes
    BY <1>7, PairOfType, Utf8IsExact
  <2>3. p + 11 \in (p + 1)..(Len(t) + 1)
    BY <1>4, <2>1
  <2>4. QED
    BY <1>7, <2>2, <2>3 DEF ReadAt, r
<1>8. QED
  BY <1>3, <1>5, <1>6, <1>7, Zenon DEF EscapeCases

LEMMA SimpleEscapeType ==
  /\ DOMAIN SimpleEscape = {34, 92, 47, 98, 102, 110, 114, 116}
  /\ \A c \in DOMAIN SimpleEscape : SimpleEscape[c] \in Byte /\ c \in Byte
  BY DEF SimpleEscape, Byte

\* Whatever a piece is read from, it is a string of bytes, and the next piece
\* begins behind it.
LEMMA ReadPieceType ==
  ASSUME NEW t \in Bytes, NEW p \in 1..Len(t)
  PROVE  ReadAt(t, p, Bytes, ReadPiece(t, p))
<1>1. Len(t) \in Nat /\ p \in Nat /\ p > 0 /\ p <= Len(t) /\ t[p] \in Byte /\ t[p] \in 0..255
  BY ByteAt
<1>2. CASE t[p] # Backslash
  <2>1. ReadPiece(t, p) = IF t[p] < 32 THEN Failure ELSE Taken(<<t[p]>>, p + 1)
    BY <1>2 DEF ReadPiece
  <2>2. <<t[p]>> \in Bytes /\ p + 1 \in (p + 1)..(Len(t) + 1)
    BY <1>1 DEF Bytes
  <2>3. QED
    BY <2>1, <2>2 DEF ReadAt
<1>3. CASE t[p] = Backslash
  <2> DEFINE q == p + 1
  <2>1. ReadPiece(t, p) = ReadEscape(t, q)
    BY <1>3 DEF ReadPiece
  <2>2. q \in Nat /\ q > 0 /\ q = p + 1
    BY <1>1
  <2> HIDE DEF q
  <2>3. CASE q > Len(t)
    <3>1. ReadEscape(t, q) = Failure
      BY <2>3 DEF ReadEscape
    <3>2. QED
      BY <2>1, <3>1 DEF ReadAt
  <2>4. CASE ~(q > Len(t)) /\ t[q] \in DOMAIN SimpleEscape
    <3>1. ReadEscape(t, q) = Taken(<<SimpleEscape[t[q]]>>, q + 1)
      BY <2>4, Zenon DEF ReadEscape
    <3>2. SimpleEscape[t[q]] \in Byte
      BY <2>4, SimpleEscapeType
    <3>3. <<SimpleEscape[t[q]]>> \in Bytes
      BY <3>2 DEF Bytes
    <3>4. q + 1 \in (p + 1)..(Len(t) + 1)
      BY <1>1, <2>2, <2>4
    <3>5. QED
      BY <2>1, <3>1, <3>3, <3>4 DEF ReadAt
  <2>5. CASE ~(q > Len(t)) /\ t[q] \notin DOMAIN SimpleEscape /\ t[q] = LetterU
    <3>1. ReadEscape(t, q) = UnicodeEscape(t, q)
      BY <2>5, Zenon DEF ReadEscape
    <3>2. ReadAt(t, q, Bytes, UnicodeEscape(t, q))
      BY <2>2, UnicodeEscapeType
    <3>3. \A e \in (q + 1)..(Len(t) + 1) : e \in (p + 1)..(Len(t) + 1)
      BY <1>1, <2>2
    <3>4. QED
      BY <2>1, <3>1, <3>2, <3>3, Zenon DEF ReadAt
  <2>6. CASE ~(q > Len(t)) /\ t[q] \notin DOMAIN SimpleEscape /\ t[q] # LetterU
    <3>1. ReadEscape(t, q) = Failure
      BY <2>6, Zenon DEF ReadEscape
    <3>2. QED
      BY <2>1, <3>1 DEF ReadAt
  <2>7. QED
    BY <2>3, <2>4, <2>5, <2>6, Zenon
<1>4. QED
  BY <1>2, <1>3

-----------------------------------------------------------------------------
(***************************************************************************)
(* Reading a string.                                                       *)
(***************************************************************************)
StringRest(t) ==
  LET rest[q \in 1..(Len(t) + 1)] ==
        LET piece == ReadPiece(t, q)
            after == rest[piece.end]
        IN  IF q > Len(t) THEN Failure
            ELSE IF t[q] = Quote THEN Taken(<<>>, q + 1)
            ELSE IF piece.ok /\ after.ok THEN Taken(piece.value \o after.value, after.end)
            ELSE Failure
  IN  rest

LEMMA StringIsRest ==
  ASSUME NEW t, NEW p
  PROVE  ReadString(t, p) = StringRest(t)[p + 1]
  BY Zenon DEF ReadString, StringRest

\* The end of the string, or one piece and the rest.
RestFrom(f, t, q) ==
  IF q > Len(t) THEN Failure
  ELSE IF t[q] = Quote THEN Taken(<<>>, q + 1)
  ELSE IF ReadPiece(t, q).ok /\ f[ReadPiece(t, q).end].ok
       THEN Taken(ReadPiece(t, q).value \o f[ReadPiece(t, q).end].value, f[ReadPiece(t, q).end].end)
  ELSE Failure

Results == {Failure} \cup {Taken(v, e) : v \in Bytes, e \in Nat}

LEMMA PieceIsAhead ==
  ASSUME NEW t \in Bytes, NEW q \in 1..Len(t), ReadPiece(t, q).ok
  PROVE  /\ ReadPiece(t, q).value \in Bytes
         /\ ReadPiece(t, q).end \in (q + 1)..(Len(t) + 1)
<1>1. PICK v \in Bytes, e \in (q + 1)..(Len(t) + 1) : ReadPiece(t, q) = Taken(v, e)
  BY ReadPieceType, ResultLaws, Zenon DEF ReadAt
<1>2. QED
  BY <1>1, ResultLaws

LEMMA StringRecursion ==
  ASSUME NEW t \in Bytes
  PROVE  \A q \in 1..(Len(t) + 1) : StringRest(t)[q] = RestFrom(StringRest(t), t, q)
<1> DEFINE n == Len(t)
           S == 1..(n + 1)
           mu == [q \in S |-> n + 1 - q]
           step == [q \in S |-> [g \in [S -> Results] |-> RestFrom(g, t, q)]]
           F(f) == f = [q \in S |-> RestFrom(f, t, q)]
           R == StringRest(t)
<1>1. n \in Nat
  BY ByteAt
<1>2. R = CHOOSE f : F(f)
  BY Zenon DEF StringRest, RestFrom
<1>3. Failure \in Results
  BY DEF Results
<1>4. ASSUME NEW q \in S, NEW g \in [S -> Results] PROVE RestFrom(g, t, q) \in Results
  <2> DEFINE e == ReadPiece(t, q).end
  <2>1. CASE q > n
    BY <1>3, <2>1 DEF RestFrom
  <2>2. CASE ~(q > n) /\ t[q] = Quote
    <3>1. RestFrom(g, t, q) = Taken(<<>>, q + 1)
      BY <2>2 DEF RestFrom
    <3>2. <<>> \in Bytes /\ q + 1 \in Nat
      BY EmptySeq DEF Bytes
    <3>3. QED
      BY <3>1, <3>2 DEF Results
  <2>3. CASE ~(q > n) /\ t[q] # Quote /\ ReadPiece(t, q).ok /\ g[e].ok
    <3>1. q \in 1..n
      BY <1>1, <2>3
    <3>2. ReadPiece(t, q).value \in Bytes /\ e \in (q + 1)..(n + 1)
      BY <2>3, <3>1, PieceIsAhead
    <3>3. e \in S
      BY <1>1, <3>1, <3>2
    <3> HIDE DEF e, S
    <3>4. PICK v \in Bytes, m \in Nat : g[e] = Taken(v, m)
      BY <2>3, <3>3, ResultLaws DEF Results
    <3>5. RestFrom(g, t, q) = Taken(ReadPiece(t, q).value \o g[e].value, g[e].end)
      BY <2>3, Zenon DEF RestFrom, e
    <3>6. g[e].value = v /\ g[e].end = m
      BY <3>4, ResultLaws
    <3>7. ReadPiece(t, q).value \o v \in Bytes
      BY <3>2, ConcatProperties DEF Bytes
    <3>8. Taken(ReadPiece(t, q).value \o v, m) \in Results
      BY <3>7 DEF Results
    <3>9. QED
      BY <3>5, <3>6, <3>8
  <2>4. CASE ~(q > n) /\ t[q] # Quote /\ ~(ReadPiece(t, q).ok /\ g[e].ok)
    BY <1>3, <2>4, Zenon DEF RestFrom
  <2>5. QED
    BY <2>1, <2>2, <2>3, <2>4, Zenon
<1>5. mu \in [S -> 0..n]
  BY <1>1
<1>6. ASSUME NEW q \in S, NEW g \in [S -> Results], NEW h \in [S -> Results],
             \A j \in S : mu[j] < mu[q] => g[j] = h[j]
      PROVE  RestFrom(g, t, q) = RestFrom(h, t, q)
  <2> DEFINE e == ReadPiece(t, q).end
  <2>1. CASE q > n
    BY <2>1 DEF RestFrom
  <2>2. CASE ~(q > n) /\ ~ReadPiece(t, q).ok
    BY <2>2, Zenon DEF RestFrom
  <2>3. CASE ~(q > n) /\ ReadPiece(t, q).ok
    <3>1. q \in 1..n
      BY <1>1, <2>3
    <3>2. e \in (q + 1)..(n + 1)
      BY <2>3, <3>1, PieceIsAhead
    <3>3. e \in S /\ mu[e] < mu[q]
      BY <1>1, <3>1, <3>2
    <3>4. g[e] = h[e]
      BY <1>6, <3>3
    <3>5. QED
      BY <3>4, Zenon DEF RestFrom
  <2>4. QED
    BY <2>1, <2>2, <2>3
<1> HIDE DEF S, mu
<1>7. step \in [S -> [[S -> Results] -> Results]]
  BY <1>4
<1>8. \A q \in S : \A g \in [S -> Results] : step[q][g] = RestFrom(g, t, q)
  OBVIOUS
<1> HIDE DEF step
<1>9. DependsOnSmaller(step, S, mu, Results)
  BY <1>6, <1>8 DEF DependsOnSmaller
<1>10. PICK f \in [S -> Results] : Solution(f, step, S)
  BY <1>1, <1>3, <1>5, <1>7, <1>9, RecursionHasSolution, Zenon
<1>11. F(f)
  <2>1. \A q \in S : f[q] = RestFrom(f, t, q)
    BY <1>8, <1>10 DEF Solution
  <2>2. QED
    BY <2>1
<1>12. F(R)
  <2> HIDE DEF F, R
  <2>1. QED
    BY <1>2, <1>11
<1> HIDE DEF R
<1>13. \A q \in S : R[q] = RestFrom(R, t, q)
  BY <1>12
<1>14. QED
  BY <1>13 DEF R, S

-----------------------------------------------------------------------------
(***************************************************************************)
(* Writing a string.                                                       *)
(***************************************************************************)
\* The bytes e stand in t from p on.
Placed(e, p, t) ==
  /\ p + Len(e) <= Len(t) + 1
  /\ \A j \in 1..Len(e) : t[(p - 1) + j] = e[j]

UnicodeOfByte(b) == <<Backslash, LetterU, 48, 48, HexDigit(b \div 16), HexDigit(b % 16)>>

\* A byte is written as the escape it has, as \u00xx, or as it is.
LEMMA EscapedByteCases ==
  ASSUME NEW b \in Byte
  PROVE  \/ \E c \in DOMAIN SimpleEscape : SimpleEscape[c] = b /\ EscapedByte(b) = <<Backslash, c>>
         \/ b < 32 /\ EscapedByte(b) = UnicodeOfByte(b)
         \/ ~(b < 32) /\ b # Quote /\ b # Backslash /\ EscapedByte(b) = <<b>>
<1> DEFINE short == {c \in DOMAIN SimpleEscape \ {47} : SimpleEscape[c] = b}
<1>1. EscapedByte(b) = IF short # {} THEN <<Backslash, CHOOSE c \in short : TRUE>>
                       ELSE IF b < 32 THEN UnicodeOfByte(b) ELSE <<b>>
  BY Zenon DEF EscapedByte, UnicodeOfByte
<1>2. CASE short # {}
  <2> DEFINE c == CHOOSE c \in short : TRUE
  <2>1. c \in short
    BY <1>2
  <2>2. c \in DOMAIN SimpleEscape /\ SimpleEscape[c] = b
    BY <2>1
  <2>3. EscapedByte(b) = <<Backslash, c>>
    BY <1>1, <1>2
  <2> HIDE DEF c
  <2>4. QED
    BY <2>2, <2>3
<1>3. CASE short = {}
  <2>1. 34 \in DOMAIN SimpleEscape \ {47} /\ SimpleEscape[34] = 34
    BY DEF SimpleEscape
  <2>2. 92 \in DOMAIN SimpleEscape \ {47} /\ SimpleEscape[92] = 92
    BY DEF SimpleEscape
  <2>3. b # Quote /\ b # Backslash
    BY <1>3, <2>1, <2>2 DEF Quote, Backslash
  <2>4. EscapedByte(b) = IF b < 32 THEN UnicodeOfByte(b) ELSE <<b>>
    BY <1>1, <1>3
  <2> HIDE DEF short
  <2>5. QED
    BY <2>3, <2>4
<1>4. QED
  BY <1>2, <1>3

LEMMA HexDigitLaws ==
  ASSUME NEW d \in 0..15
  PROVE  HexDigit(d) \in Byte /\ HexValue(HexDigit(d)) = d
<1>1. CASE d < 10
  <2>1. HexDigit(d) = 48 + d /\ HexDigit(d) \in Byte /\ HexDigit(d) \in Digit
    BY <1>1 DEF HexDigit, Byte, Digit
  <2>2. QED
    BY <2>1 DEF HexValue
<1>2. CASE ~(d < 10)
  <2>1. HexDigit(d) = 87 + d /\ HexDigit(d) \in Byte /\ HexDigit(d) \notin Digit
        /\ HexDigit(d) \in 97..102
    BY <1>2 DEF HexDigit, Byte, Digit
  <2>2. QED
    BY <2>1 DEF HexValue, Digit
<1>3. QED
  BY <1>1, <1>2

LEMMA ByteDigits ==
  ASSUME NEW b \in Byte, b < 32
  PROVE  b \div 16 \in 0..15 /\ (b % 16) \in 0..15 /\ b = 16 * (b \div 16) + (b % 16)
  BY SMT DEF Byte

LEMMA UnicodeOfByteType ==
  ASSUME NEW b \in Byte, b < 32
  PROVE  UnicodeOfByte(b) \in Bytes /\ Len(UnicodeOfByte(b)) = 6
<1> DEFINE x == HexDigit(b \div 16)
           y == HexDigit(b % 16)
<1>1. x \in Byte /\ y \in Byte
  BY ByteDigits, HexDigitLaws
<1>2. Backslash \in Byte /\ LetterU \in Byte /\ 48 \in Byte
  BY DEF Backslash, LetterU, Byte
<1>3. UnicodeOfByte(b) = <<Backslash, LetterU, 48, 48, x, y>>
  BY Zenon DEF UnicodeOfByte
<1> HIDE DEF x, y
<1>4. QED
  BY <1>1, <1>2, <1>3 DEF Bytes

LEMMA EscapedByteType ==
  ASSUME NEW b \in Byte
  PROVE  EscapedByte(b) \in Bytes /\ Len(EscapedByte(b)) \in Nat /\ Len(EscapedByte(b)) > 0
<1>1. ASSUME NEW c \in DOMAIN SimpleEscape, EscapedByte(b) = <<Backslash, c>>
      PROVE  EscapedByte(b) \in Bytes /\ Len(EscapedByte(b)) = 2
  <2>1. c \in Byte /\ Backslash \in Byte
    BY SimpleEscapeType DEF Backslash, Byte
  <2>2. QED
    BY <1>1, <2>1 DEF Bytes
<1>2. ASSUME EscapedByte(b) = <<b>>
      PROVE  EscapedByte(b) \in Bytes /\ Len(EscapedByte(b)) = 1
  BY <1>2 DEF Bytes
<1>3. ASSUME b < 32, EscapedByte(b) = UnicodeOfByte(b)
      PROVE  EscapedByte(b) \in Bytes /\ Len(EscapedByte(b)) = 6
  BY <1>3, UnicodeOfByteType
<1>4. \/ EscapedByte(b) \in Bytes /\ Len(EscapedByte(b)) = 2
      \/ EscapedByte(b) \in Bytes /\ Len(EscapedByte(b)) = 1
      \/ EscapedByte(b) \in Bytes /\ Len(EscapedByte(b)) = 6
  BY <1>1, <1>2, <1>3, EscapedByteCases, Zenon
<1>5. QED
  BY <1>4

\* A code unit below 128 is stored as one byte.
LEMMA SmallUnit ==
  ASSUME NEW b \in Byte, b < 32
  PROVE  /\ UnitOf(0, 0, b \div 16, b % 16) = b
         /\ b \notin LowSurrogate /\ b \notin HighSurrogate /\ Utf8(b) = <<b>>
<1>1. b \in Nat
  BY DEF Byte
<1>2. UnitOf(0, 0, b \div 16, b % 16) = b
  BY <1>1, ByteDigits, SMT DEF UnitOf
<1>3. b \notin LowSurrogate /\ b \notin HighSurrogate
  BY <1>1, SMT DEF LowSurrogate, HighSurrogate
<1>4. Utf8(b) = <<b>>
  BY <1>1, SMT DEF Utf8
<1>5. QED
  BY <1>2, <1>3, <1>4

\* Four hex digits are the code unit they spell.
DigitsAt(t, p, a, b, c, d) ==
  /\ p \in Nat /\ p > 0 /\ p + 3 <= Len(t)
  /\ a \in 0..15 /\ b \in 0..15 /\ c \in 0..15 /\ d \in 0..15
  /\ HexValue(t[p]) = a /\ HexValue(t[p + 1]) = b
  /\ HexValue(t[p + 2]) = c /\ HexValue(t[p + 3]) = d

LEMMA FourDigits ==
  ASSUME NEW t \in Bytes, NEW p, NEW a, NEW b, NEW c, NEW d, DigitsAt(t, p, a, b, c, d)
  PROVE  CodeUnit(t, p) = Taken(UnitOf(a, b, c, d), p + 4)
<1>0. /\ p \in Nat /\ p > 0 /\ p + 3 <= Len(t)
      /\ a \in 0..15 /\ b \in 0..15 /\ c \in 0..15 /\ d \in 0..15
      /\ HexValue(t[p]) = a /\ HexValue(t[p + 1]) = b
      /\ HexValue(t[p + 2]) = c /\ HexValue(t[p + 3]) = d
  BY DEF DigitsAt
<1>1. Len(t) \in Nat
  BY ByteAt
<1>2. ~(p + 3 > Len(t))
  BY <1>0, <1>1
<1>3. \A k \in 0..3 : k = 0 \/ k = 1 \/ k = 2 \/ k = 3
  OBVIOUS
<1>4. p + 0 = p
  BY <1>0
<1>5. ASSUME NEW k \in 0..3 PROVE ~(HexValue(t[p + k]) < 0)
  <2>1. HexValue(t[p + k]) \in {a, b, c, d}
    BY <1>0, <1>3, <1>4
  <2>2. QED
    BY <1>0, <2>1
<1>6. QED
  BY <1>0, <1>2, <1>5, SMT DEF CodeUnit, UnitOf

LEMMA EscapedByteIsRead ==
  ASSUME NEW t \in Bytes, NEW p \in Nat, p > 0, NEW b \in Byte, Placed(EscapedByte(b), p, t)
  PROVE  /\ p \in 1..Len(t) /\ t[p] # Quote
         /\ ReadPiece(t, p) = Taken(<<b>>, p + Len(EscapedByte(b)))
<1> DEFINE e == EscapedByte(b)
           Goal == p \in 1..Len(t) /\ t[p] # Quote /\ ReadPiece(t, p) = Taken(<<b>>, p + Len(e))
<1>1. Len(t) \in Nat /\ Len(e) \in Nat /\ Len(e) > 0
  BY ByteAt, EscapedByteType
<1>2. p + Len(e) <= Len(t) + 1 /\ \A j \in 1..Len(e) : t[(p - 1) + j] = e[j]
  BY DEF Placed
<1>3. p \in 1..Len(t) /\ (p - 1) + 1 = p /\ (p - 1) + 2 = p + 1 /\ Backslash # Quote
  BY <1>1, <1>2 DEF Backslash, Quote
<1>4. ASSUME NEW c \in DOMAIN SimpleEscape, SimpleEscape[c] = b, e = <<Backslash, c>>
      PROVE  Goal
  <2>1. Len(e) = 2 /\ e[1] = Backslash /\ e[2] = c
    BY <1>4
  <2> HIDE DEF e
  <2>2. 1 \in 1..Len(e) /\ 2 \in 1..Len(e)
    BY <2>1
  <2>3. t[p] = Backslash /\ t[p + 1] = c /\ p + 1 <= Len(t)
    BY <1>1, <1>2, <1>3, <2>1, <2>2
  <2>4. ~(p + 1 > Len(t)) /\ (p + 1) + 1 = p + Len(e)
    BY <1>1, <2>1, <2>3
  <2>5. ReadEscape(t, p + 1) = Taken(<<b>>, (p + 1) + 1)
    BY <1>4, <2>3, <2>4, Zenon DEF ReadEscape
  <2>6. ReadPiece(t, p) = Taken(<<b>>, p + Len(e))
    BY <2>3, <2>4, <2>5, Zenon DEF ReadPiece
  <2>7. QED
    BY <1>3, <2>3, <2>6, Zenon
<1>5. ASSUME ~(b < 32), b # Quote, b # Backslash, e = <<b>>
      PROVE  Goal
  <2>1. Len(e) = 1 /\ e[1] = b
    BY <1>5
  <2> HIDE DEF e
  <2>2. t[p] = b
    BY <1>1, <1>2, <1>3, <2>1
  <2>3. ReadPiece(t, p) = Taken(<<b>>, p + 1)
    BY <1>5, <2>2, Zenon DEF ReadPiece
  <2>4. QED
    BY <1>3, <1>5, <2>1, <2>2, <2>3, Zenon
<1>6. ASSUME b < 32, e = UnicodeOfByte(b)
      PROVE  Goal
  <2> DEFINE x == HexDigit(b \div 16)
             y == HexDigit(b % 16)
             q == p + 1
  <2>1. x \in Byte /\ y \in Byte /\ HexValue(x) = b \div 16 /\ HexValue(y) = b % 16
        /\ b \div 16 \in 0..15 /\ (b % 16) \in 0..15
    BY <1>6, ByteDigits, HexDigitLaws
  <2>2. e = <<Backslash, LetterU, 48, 48, x, y>>
    BY <1>6, Zenon DEF UnicodeOfByte
  <2> HIDE DEF e, x, y
  <2>3. /\ Len(e) = 6 /\ e[1] = Backslash /\ e[2] = LetterU /\ e[3] = 48 /\ e[4] = 48
        /\ e[5] = x /\ e[6] = y
    BY <2>2
  <2>4. \A j \in 1..6 : t[(p - 1) + j] = e[j]
    BY <1>2, <2>3
  <2>5. /\ (p - 1) + 2 = q /\ (p - 1) + 3 = q + 1 /\ (p - 1) + 4 = (q + 1) + 1
        /\ (p - 1) + 5 = (q + 1) + 2 /\ (p - 1) + 6 = (q + 1) + 3
        /\ q \in Nat /\ q + 1 \in Nat /\ q + 1 > 0 /\ (q + 1) + 3 <= Len(t) /\ q <= Len(t)
        /\ (q + 1) + 4 = q + 5 /\ q + 5 = p + Len(e)
    BY <1>1, <1>2, <2>3
  <2>6. /\ t[p] = Backslash /\ t[q] = LetterU /\ t[q + 1] = 48 /\ t[(q + 1) + 1] = 48
        /\ t[(q + 1) + 2] = x /\ t[(q + 1) + 3] = y
    BY <1>3, <2>3, <2>4, <2>5
  <2> HIDE DEF q
  <2>7. HexValue(48) = 0
    BY DEF HexValue, Digit
  <2>8. CodeUnit(t, q + 1) = Taken(UnitOf(0, 0, b \div 16, b % 16), q + 5)
    <3> DEFINE d1 == b \div 16
               d0 == b % 16
    <3>1. d1 \in 0..15 /\ d0 \in 0..15 /\ HexValue(x) = d1 /\ HexValue(y) = d0 /\ 0 \in 0..15
      BY <2>1
    <3> HIDE DEF d1, d0
    <3>2. CodeUnit(t, q + 1) = Taken(UnitOf(0, 0, d1, d0), (q + 1) + 4)
      <4>1. DigitsAt(t, q + 1, 0, 0, d1, d0)
        BY <2>5, <2>6, <2>7, <3>1 DEF DigitsAt
      <4>2. QED
        BY <4>1, FourDigits
    <3>3. QED
      BY <2>5, <3>2 DEF d1, d0
  <2>9. CodeUnit(t, q + 1) = Taken(b, q + 5)
    BY <1>6, <2>8, SmallUnit
  <2>10. /\ CodeUnit(t, q + 1).ok /\ CodeUnit(t, q + 1).value = b
         /\ b \notin LowSurrogate /\ b \notin HighSurrogate /\ Utf8(b) = <<b>>
    BY <1>6, <2>9, ResultLaws, SmallUnit
  <2>11. UnicodeEscape(t, q) = Taken(<<b>>, q + 5)
    BY <2>10, EscapeCasesHold, Zenon DEF EscapeCases
  <2>12. LetterU \notin DOMAIN SimpleEscape /\ ~(q > Len(t))
    BY <1>1, <2>5, SimpleEscapeType DEF LetterU
  <2>13. ReadEscape(t, q) = Taken(<<b>>, q + 5)
    BY <2>6, <2>11, <2>12, Zenon DEF ReadEscape
  <2>14. ReadPiece(t, p) = Taken(<<b>>, q + 5)
    BY <2>6, <2>13, Zenon DEF ReadPiece, q
  <2>15. QED
    BY <1>3, <2>5, <2>6, <2>14, Zenon
<1>7. QED
  BY <1>4, <1>5, <1>6, EscapedByteCases, Zenon

EscapedText(s) ==
  LET escaped[i \in 0..Len(s)] ==
        IF i = 0 THEN <<Quote>> ELSE escaped[i - 1] \o EscapedByte(s[i])
  IN  escaped

LEMMA WrittenIsEscaped ==
  ASSUME NEW s
  PROVE  WriteString(s) = Append(EscapedText(s)[Len(s)], Quote)
  BY Zenon DEF WriteString, EscapedText

LEMMA WriteRecursion ==
  ASSUME NEW s \in Bytes
  PROVE  /\ \A i \in 0..Len(s) : EscapedText(s)[i] \in Bytes
         /\ EscapedText(s)[0] = <<Quote>>
         /\ \A i \in 1..Len(s) : EscapedText(s)[i] = EscapedText(s)[i - 1] \o EscapedByte(s[i])
<1> DEFINE n == Len(s)
           S == 0..n
           mu == [i \in S |-> i]
           cell(g, i) == IF i = 0 THEN <<Quote>> ELSE g[i - 1] \o EscapedByte(s[i])
           step == [i \in S |-> [g \in [S -> Bytes] |-> cell(g, i)]]
           F(f) == f = [i \in S |-> cell(f, i)]
           R == EscapedText(s)
<1>1. n \in Nat /\ \A i \in 1..n : s[i] \in Byte
  BY ByteAt
<1>2. R = CHOOSE f : F(f)
  BY Zenon DEF EscapedText
<1>3. <<Quote>> \in Bytes
  BY DEF Bytes, Byte, Quote
<1>4. \A i \in S : i # 0 => i \in 1..n /\ i - 1 \in S /\ i - 1 < i
  BY <1>1
<1>5. ASSUME NEW i \in S, NEW g \in [S -> Bytes] PROVE cell(g, i) \in Bytes
  <2>1. CASE i = 0
    BY <1>3, <2>1
  <2>2. CASE i # 0
    <3>1. g[i - 1] \in Bytes /\ s[i] \in Byte
      BY <1>1, <1>4, <2>2
    <3>2. EscapedByte(s[i]) \in Bytes
      BY <3>1, EscapedByteType
    <3>3. g[i - 1] \o EscapedByte(s[i]) \in Bytes
      BY <3>1, <3>2, ConcatProperties DEF Bytes
    <3>4. QED
      BY <2>2, <3>3
  <2>3. QED
    BY <2>1, <2>2
<1>6. mu \in [S -> 0..n] /\ \A i \in S : mu[i] = i
  OBVIOUS
<1>7. ASSUME NEW i \in S, NEW g \in [S -> Bytes], NEW h \in [S -> Bytes],
             \A j \in S : mu[j] < mu[i] => g[j] = h[j]
      PROVE  cell(g, i) = cell(h, i)
  <2>1. i # 0 => g[i - 1] = h[i - 1]
    BY <1>4, <1>6, <1>7
  <2>2. QED
    BY <2>1
<1> HIDE DEF S, mu, cell
<1>8. step \in [S -> [[S -> Bytes] -> Bytes]]
  BY <1>5
<1>9. \A i \in S : \A g \in [S -> Bytes] : step[i][g] = cell(g, i)
  OBVIOUS
<1> HIDE DEF step
<1>10. DependsOnSmaller(step, S, mu, Bytes)
  BY <1>7, <1>9 DEF DependsOnSmaller
<1>11. PICK f \in [S -> Bytes] : Solution(f, step, S)
  BY <1>1, <1>3, <1>6, <1>8, <1>10, RecursionHasSolution, Zenon
<1>12. F(f)
  <2>1. \A i \in S : f[i] = cell(f, i)
    BY <1>9, <1>11 DEF Solution
  <2>2. QED
    BY <2>1
<1>13. F(R)
  <2> HIDE DEF F, R
  <2>1. QED
    BY <1>2, <1>12
<1> HIDE DEF R
<1>14. \A i \in S : R[i] = cell(R, i)
  BY <1>13
<1>15. 0 \in S /\ \A i \in 1..n : i \in S /\ i # 0
  BY <1>1 DEF S
<1>16. R[0] = <<Quote>> /\ \A i \in 1..n : R[i] = R[i - 1] \o EscapedByte(s[i])
  BY <1>14, <1>15, Zenon DEF cell
<1>17. \A i \in S : R[i] \in Bytes
  <2> DEFINE G == {i \in S : R[i] \in Bytes}
  <2>1. ASSUME NEW k \in 0..n, \A j \in 0..(k - 1) : j \in G
        PROVE  k \in G
    <3>1. CASE k = 0
      BY <1>3, <1>15, <1>16, <3>1
    <3>2. CASE k # 0
      <4>1. k \in 1..n /\ k - 1 \in 0..(k - 1) /\ k \in S
        BY <1>1, <3>2 DEF S
      <4>2. R[k - 1] \in Bytes /\ EscapedByte(s[k]) \in Bytes
        BY <1>1, <2>1, <4>1, EscapedByteType
      <4>3. R[k - 1] \o EscapedByte(s[k]) \in Bytes
        BY <4>2, ConcatProperties DEF Bytes
      <4>4. QED
        BY <1>16, <4>1, <4>3
    <3>3. QED
      BY <3>1, <3>2
  <2> HIDE DEF G
  <2>2. \A k \in 0..n : k \in G
    BY <1>1, <2>1, UpTo
  <2>3. QED
    BY <2>2 DEF G, S
<1>18. QED
  BY <1>16, <1>17 DEF R, S

Joined(w, u, v, m, n) ==
  /\ m \in Nat /\ n \in Nat /\ w \in Bytes /\ Len(w) = m + n
  /\ \A i \in 1..(m + n) : w[i] = IF i <= m THEN u[i] ELSE v[i - m]

LEMMA JoinedParts ==
  ASSUME NEW u \in Bytes, NEW v \in Bytes, NEW m, NEW n, Len(u) = m, Len(v) = n
  PROVE  Joined(u \o v, u, v, m, n)
  BY ConcatProperties, LenProperties DEF Bytes, Joined

\* A part of what stands at p stands there, and the other part behind it.
LEMMA PlacedParts ==
  ASSUME NEW t \in Bytes, NEW p \in Nat, p > 0, NEW u \in Bytes, NEW v \in Bytes,
         Placed(u \o v, p, t)
  PROVE  Placed(u, p, t) /\ Placed(v, p + Len(u), t)
<1>1. /\ Len(u) \in Nat /\ Len(v) \in Nat /\ Len(t) \in Nat /\ Len(u \o v) = Len(u) + Len(v)
      /\ \A i \in 1..(Len(u) + Len(v)) : (u \o v)[i] = IF i <= Len(u) THEN u[i] ELSE v[i - Len(u)]
  BY ConcatProperties, LenProperties DEF Bytes
<1> DEFINE w == u \o v
           m == Len(u)
           n == Len(v)
<1>2. /\ p + (m + n) <= Len(t) + 1 /\ \A j \in 1..(m + n) : t[(p - 1) + j] = w[j]
      /\ m \in Nat /\ n \in Nat /\ Len(t) \in Nat
      /\ \A i \in 1..(m + n) : w[i] = IF i <= m THEN u[i] ELSE v[i - m]
  BY <1>1 DEF Placed
<1> HIDE DEF w
<1>3. Placed(u, p, t)
  <2>1. \A j \in 1..m : j \in 1..(m + n) /\ j <= m
    BY <1>2
  <2>2. p + m <= Len(t) + 1 /\ \A j \in 1..m : t[(p - 1) + j] = u[j]
    BY <1>2, <2>1
  <2>3. QED
    BY <2>2 DEF Placed
<1>4. Placed(v, p + m, t)
  <2>1. ASSUME NEW j \in 1..n PROVE t[((p + m) - 1) + j] = v[j]
    <3> DEFINE k == m + j
    <3>1. k \in 1..(m + n) /\ ~(k <= m) /\ k - m = j /\ (p - 1) + k = ((p + m) - 1) + j
      BY <1>2
    <3> HIDE DEF k
    <3>2. t[(p - 1) + k] = w[k] /\ w[k] = v[k - m]
      BY <1>2, <3>1
    <3>3. QED
      BY <3>1, <3>2
  <2>2. (p + m) + n <= Len(t) + 1
    BY <1>2
  <2> HIDE DEF m, n
  <2>3. QED
    BY <2>1, <2>2 DEF Placed, n
<1>5. QED
  BY <1>3, <1>4

\* The bytes after the first i.
Suffix(s, i) == [j \in 1..(Len(s) - i) |-> s[i + j]]

LEMMA SuffixLaws ==
  ASSUME NEW s \in Bytes
  PROVE  /\ Suffix(s, 0) = s /\ Suffix(s, Len(s)) = <<>>
         /\ \A i \in 1..Len(s) : <<s[i]>> \o Suffix(s, i) = Suffix(s, i - 1)
<1> DEFINE n == Len(s)
<1>1. n \in Nat /\ s \in [1..n -> Byte] /\ \A i \in 1..n : s[i] \in Byte
  BY LenProperties, ByteAt DEF Bytes
<1>2. ASSUME NEW i \in 0..n
      PROVE  /\ Suffix(s, i) \in Bytes /\ Len(Suffix(s, i)) = n - i
             /\ \A j \in 1..(n - i) : Suffix(s, i)[j] = s[i + j]
  <2>1. n - i \in Nat /\ \A j \in 1..(n - i) : i + j \in 1..n
    BY <1>1
  <2>2. Suffix(s, i) \in [1..(n - i) -> Byte]
    BY <1>1, <2>1 DEF Suffix
  <2>3. Suffix(s, i) \in Seq(Byte) /\ Len(Suffix(s, i)) = n - i
    BY <2>1, <2>2, SeqDef, LenProperties
  <2>4. QED
    BY <2>3 DEF Bytes, Suffix
<1>3. Suffix(s, 0) = s
  <2>1. 0 \in 0..n /\ n - 0 = n /\ \A j \in 1..n : 0 + j = j
    BY <1>1
  <2>2. Suffix(s, 0) = [j \in 1..n |-> s[j]]
    BY <2>1 DEF Suffix
  <2>3. QED
    BY <1>1, <2>2
<1>4. Suffix(s, n) = <<>>
  <2>1. n \in 0..n /\ n - n = 0
    BY <1>1
  <2>2. Len(Suffix(s, n)) = 0 /\ Suffix(s, n) \in Bytes
    BY <1>2, <2>1
  <2>3. QED
    BY <2>2, EmptySeq DEF Bytes
<1>5. ASSUME NEW i \in 1..n PROVE <<s[i]>> \o Suffix(s, i) = Suffix(s, i - 1)
  <2> DEFINE a == <<s[i]>>
             b == Suffix(s, i)
             c == Suffix(s, i - 1)
  <2>1. i \in 0..n /\ i - 1 \in 0..n /\ n - (i - 1) = 1 + (n - i) /\ n - i \in Nat
    BY <1>1
  <2>2. s[i] \in Byte
    BY <1>1
  <2>3. a \in Bytes /\ Len(a) = 1 /\ a[1] = s[i]
    BY <2>2 DEF Bytes
  <2>4. /\ b \in Bytes /\ Len(b) = n - i /\ \A j \in 1..(n - i) : b[j] = s[i + j]
    BY <1>2, <2>1
  <2>5. c \in Bytes /\ Len(c) = 1 + (n - i) /\ \A j \in 1..(1 + (n - i)) : c[j] = s[(i - 1) + j]
    BY <1>2, <2>1
  <2> HIDE DEF a, b, c, n
  <2>6. /\ a \o b \in Bytes /\ Len(a \o b) = 1 + (n - i)
        /\ \A j \in 1..(1 + (n - i)) : (a \o b)[j] = IF j <= 1 THEN a[j] ELSE b[j - 1]
    <3> DEFINE k == n - i
    <3>1. Len(a) = 1 /\ Len(b) = k
      BY <2>3, <2>4
    <3> HIDE DEF k
    <3>2. Joined(a \o b, a, b, 1, k)
      BY <2>3, <2>4, <3>1, JoinedParts, Zenon
    <3>3. /\ a \o b \in Bytes /\ Len(a \o b) = 1 + k
          /\ \A j \in 1..(1 + k) : (a \o b)[j] = IF j <= 1 THEN a[j] ELSE b[j - 1]
      BY <3>2 DEF Joined
    <3>4. QED
      BY <3>3 DEF k
  <2>7. ASSUME NEW j \in 1..(1 + (n - i)) PROVE (a \o b)[j] = c[j]
    <3>1. CASE j = 1
      <4>1. (i - 1) + j = i
        BY <2>1, <3>1
      <4>2. QED
        BY <2>3, <2>5, <2>6, <3>1, <4>1
    <3>2. CASE j # 1
      <4>1. j - 1 \in 1..(n - i) /\ i + (j - 1) = (i - 1) + j /\ ~(j <= 1)
        BY <2>1, <3>2
      <4>2. QED
        BY <2>4, <2>5, <2>6, <4>1
    <3>3. QED
      BY <3>1, <3>2
  <2>8. a \o b = c
    BY <2>5, <2>6, <2>7, SeqEqual DEF Bytes
  <2>9. QED
    BY <2>8 DEF a, b, c
<1>6. QED
  BY <1>3, <1>4, <1>5

\* What is written is read, to the quote that closes it.
LEMMA WrittenIsRead ==
  ASSUME NEW s \in Bytes
  PROVE  ReadString(WriteString(s) \o <<Quote>>, 1) = Taken(s, Len(WriteString(s)) + 1)
<1> DEFINE E == EscapedText(s)
           n == Len(s)
           t == Append(E[n], Quote) \o <<Quote>>
           R == StringRest(t)
           stop == Len(E[n]) + 2
<1>1. /\ n \in Nat /\ (\A i \in 1..n : s[i] \in Byte) /\ (\A i \in 0..n : E[i] \in Bytes)
      /\ E[0] = <<Quote>> /\ \A i \in 1..n : E[i] = E[i - 1] \o EscapedByte(s[i])
  BY WriteRecursion, ByteAt
<1> HIDE DEF E
<1>2. n \in 0..n /\ E[n] \in Bytes /\ Len(E[n]) \in Nat
  <2>1. n \in 0..n
    BY <1>1
  <2>2. QED
    BY <1>1, <2>1, ByteAt
<1>3. /\ t \in Bytes /\ Len(t) = Len(E[n]) + 2 /\ Len(Append(E[n], Quote)) = Len(E[n]) + 1
      /\ Placed(E[n], 1, t) /\ t[Len(E[n]) + 1] = Quote
  <2> DEFINE a == E[n]
             q == <<Quote>>
             b == Append(a, Quote)
             m == Len(a)
  <2>1. Quote \in Byte
    BY DEF Quote, Byte
  <2>2. q \in Bytes /\ Len(q) = 1
    BY <2>1 DEF Bytes
  <2>3. /\ b \in Bytes /\ Len(b) = m + 1 /\ m \in Nat
        /\ (\A i \in 1..m : b[i] = a[i]) /\ b[m + 1] = Quote
    <3> HIDE DEF a
    <3>1. QED
      BY <1>2, <2>1, AppendProperties, LenProperties DEF Bytes, a
  <2> HIDE DEF a, q, b
  <2>4. /\ b \o q \in Bytes /\ Len(b \o q) = m + 2
        /\ \A i \in 1..(m + 2) : (b \o q)[i] = IF i <= m + 1 THEN b[i] ELSE q[i - (m + 1)]
    <3> DEFINE k == m + 1
    <3>1. Len(b) = k /\ Len(q) = 1 /\ k + 1 = m + 2
      BY <2>2, <2>3
    <3> HIDE DEF k
    <3>2. Joined(b \o q, b, q, k, 1)
      BY <2>2, <2>3, <3>1, JoinedParts, Zenon
    <3>3. /\ b \o q \in Bytes /\ Len(b \o q) = k + 1
          /\ \A i \in 1..(k + 1) : (b \o q)[i] = IF i <= k THEN b[i] ELSE q[i - k]
      BY <3>2 DEF Joined
    <3>4. QED
      BY <3>1, <3>3 DEF k
  <2>5. /\ \A i \in 1..m : i \in 1..(m + 2) /\ i <= m + 1 /\ (1 - 1) + i = i
        /\ m + 1 \in 1..(m + 2) /\ m + 1 <= m + 1 /\ 1 + m <= (m + 2) + 1
    BY <2>3
  <2>6. (b \o q)[m + 1] = Quote
    BY <2>3, <2>4, <2>5
  <2>7. Placed(a, 1, b \o q)
    BY <2>3, <2>4, <2>5 DEF Placed
  <2>8. t = b \o q
    BY Zenon DEF a, b, q
  <2> HIDE DEF t
  <2>9. QED
    BY <2>3, <2>4, <2>6, <2>7, <2>8 DEF a, b
<1>4. /\ WriteString(s) = Append(E[n], Quote)
      /\ ReadString(t, 1) = R[1 + 1]
  BY WrittenIsEscaped, StringIsRest, Zenon DEF E
<1> HIDE DEF t, R
<1>5. \A q \in 1..(Len(t) + 1) : R[q] = RestFrom(R, t, q)
  BY <1>3, StringRecursion DEF R
<1> DEFINE Behind(i) == Placed(E[i], 1, t) /\ R[Len(E[i]) + 1] = Taken(Suffix(s, i), stop)
           G == {k \in 0..n : Behind(n - k)}
<1>6. Behind(n)
  <2> DEFINE q == Len(E[n]) + 1
  <2>1. q \in 1..(Len(t) + 1) /\ ~(q > Len(t)) /\ q + 1 = stop /\ t[q] = Quote
    BY <1>2, <1>3
  <2> HIDE DEF q, stop
  <2>2. R[q] = Taken(<<>>, stop)
    BY <1>5, <2>1 DEF RestFrom
  <2>3. QED
    BY <1>3, <2>2, SuffixLaws DEF q
<1>7. ASSUME NEW i \in 1..n, Behind(i) PROVE Behind(i - 1)
  <2> DEFINE e == EscapedByte(s[i])
             a == E[i - 1]
             q == Len(a) + 1
             z == Len(E[i]) + 1
  <2>1. i - 1 \in 0..n /\ s[i] \in Byte
    BY <1>1
  <2>2. a \in Bytes /\ e \in Bytes /\ Len(a) \in Nat /\ Len(e) \in Nat /\ E[i] = a \o e
    BY <1>1, <2>1, EscapedByteType, ByteAt
  <2>3. q \in Nat /\ q > 0 /\ q = 1 + Len(a)
    BY <2>2
  <2>4. z = q + Len(e)
    <3>1. Len(a \o e) = Len(a) + Len(e)
      BY <2>2, ConcatProperties DEF Bytes
    <3>2. Len(E[i]) = Len(a) + Len(e)
      BY <2>2, <3>1, Zenon
    <3> HIDE DEF a, e
    <3>3. (Len(a) + Len(e)) + 1 = (Len(a) + 1) + Len(e)
      BY <2>2
    <3>4. QED
      BY <3>2, <3>3
  <2>5. R[z] = Taken(Suffix(s, i), stop) /\ Placed(a \o e, 1, t)
    BY <1>7, <2>2
  <2> HIDE DEF a, e, q, z, stop
  <2>6. Placed(a, 1, t) /\ Placed(e, q, t)
    BY <1>3, <2>2, <2>3, <2>5, PlacedParts
  <2>7. q \in 1..Len(t) /\ t[q] # Quote /\ ReadPiece(t, q) = Taken(<<s[i]>>, z)
    <3>1. q \in 1..Len(t) /\ t[q] # Quote /\ ReadPiece(t, q) = Taken(<<s[i]>>, q + Len(e))
      BY <1>3, <2>1, <2>3, <2>6, EscapedByteIsRead DEF e
    <3>2. QED
      BY <2>4, <3>1
  <2>8. ~(q > Len(t)) /\ q \in 1..(Len(t) + 1)
    BY <1>3, <2>7, ByteAt
  <2>9. /\ ReadPiece(t, q).ok /\ ReadPiece(t, q).end = z /\ ReadPiece(t, q).value = <<s[i]>>
        /\ R[z].ok /\ R[z].value = Suffix(s, i) /\ R[z].end = stop
    BY <2>5, <2>7, ResultLaws
  <2>10. RestFrom(R, t, q) = Taken(<<s[i]>> \o Suffix(s, i), stop)
    BY <2>7, <2>8, <2>9, Zenon DEF RestFrom
  <2>11. R[q] = Taken(Suffix(s, i - 1), stop)
    BY <1>5, <2>8, <2>10, SuffixLaws
  <2>12. QED
    BY <2>6, <2>11 DEF a, q
<1> HIDE DEF Behind
<1>8. \A k \in 0..n : k \in G
  <2>1. ASSUME NEW k \in 0..n, \A j \in 0..(k - 1) : j \in G PROVE k \in G
    <3>1. CASE k = 0
      <4>1. n - k = n
        BY <1>1, <3>1
      <4>2. QED
        BY <1>6, <4>1
    <3>2. CASE k # 0
      <4> DEFINE i == n - (k - 1)
      <4>1. k - 1 \in 0..(k - 1) /\ i \in 1..n /\ i - 1 = n - k
        BY <1>1, <3>2
      <4>2. Behind(i)
        BY <2>1, <4>1
      <4> HIDE DEF i
      <4>3. Behind(i - 1)
        BY <1>7, <4>1, <4>2
      <4>4. QED
        BY <4>1, <4>3
    <3>3. QED
      BY <3>1, <3>2
  <2> HIDE DEF G
  <2>2. QED
    BY <1>1, <2>1, UpTo
<1>9. Behind(0)
  <2>1. n \in 0..n /\ n - n = 0
    BY <1>1
  <2>2. QED
    BY <1>8, <2>1
<1>10. R[1 + 1] = Taken(s, stop)
  <2>1. Len(E[0]) + 1 = 1 + 1
    BY <1>1
  <2>2. QED
    BY <1>9, <2>1, SuffixLaws DEF Behind
<1>11. stop = Len(WriteString(s)) + 1
  BY <1>2, <1>3, <1>4
<1>12. QED
  BY <1>4, <1>10, <1>11 DEF t

-----------------------------------------------------------------------------
(***************************************************************************)
(* Escapes are Unicode.                                                    *)
(***************************************************************************)
\* Digits may be written in either case.
CaseDigit(d, upper) == IF d > 9 /\ upper THEN 55 + d ELSE HexDigit(d)

LEMMA CaseDigitLaws ==
  ASSUME NEW d \in 0..15, NEW upper
  PROVE  CaseDigit(d, upper) \in Byte /\ HexValue(CaseDigit(d, upper)) = d
<1>1. CASE d > 9 /\ upper
  <2>1. /\ CaseDigit(d, upper) = 55 + d /\ CaseDigit(d, upper) \in Byte
        /\ CaseDigit(d, upper) \notin Digit /\ CaseDigit(d, upper) \notin 97..102
        /\ CaseDigit(d, upper) \in 65..70
    BY <1>1 DEF CaseDigit, Byte, Digit
  <2>2. QED
    BY <2>1 DEF HexValue
<1>2. CASE ~(d > 9 /\ upper)
  <2>1. CaseDigit(d, upper) = HexDigit(d)
    BY <1>2 DEF CaseDigit
  <2>2. QED
    BY <2>1, HexDigitLaws
<1>3. QED
  BY <1>1, <1>2

\* The four digits of a code unit.
DigitsOf(u, a, b, c, d) ==
  /\ a \in 0..15 /\ b \in 0..15 /\ c \in 0..15 /\ d \in 0..15 /\ UnitOf(a, b, c, d) = u

LEMMA UnitDigits ==
  ASSUME NEW u \in UnitSet
  PROVE  DigitsOf(u, (u \div 4096) % 16, (u \div 256) % 16, (u \div 16) % 16, (u \div 1) % 16)
  BY SMT DEF UnitSet, DigitsOf, UnitOf

HexOf(h, a, b, c, d) ==
  /\ h \in Bytes /\ Len(h) = 6 /\ h[1] = Backslash /\ h[2] = LetterU
  /\ HexValue(h[3]) = a /\ HexValue(h[4]) = b /\ HexValue(h[5]) = c /\ HexValue(h[6]) = d

LEMMA HexLaws ==
  ASSUME NEW u \in UnitSet
  PROVE  \E a, b, c, d : DigitsOf(u, a, b, c, d) /\ HexOf(Hex(u), a, b, c, d)
<1> DEFINE a == (u \div 4096) % 16
           b == (u \div 256) % 16
           c == (u \div 16) % 16
           d == (u \div 1) % 16
<1>1. DigitsOf(u, a, b, c, d)
  BY UnitDigits
<1>2. /\ 1 % 2 # 0 /\ 2 % 2 = 0 /\ 3 % 2 # 0 /\ 4 % 2 = 0
  OBVIOUS
<1>3. Hex(u) = <<Backslash, LetterU, CaseDigit(a, 1 % 2 = 0), CaseDigit(b, 2 % 2 = 0),
                 CaseDigit(c, 3 % 2 = 0), CaseDigit(d, 4 % 2 = 0)>>
  BY DEF Hex, CaseDigit
<1> HIDE DEF a, b, c, d
<1>4. Hex(u) = <<Backslash, LetterU, CaseDigit(a, FALSE), CaseDigit(b, TRUE),
                 CaseDigit(c, FALSE), CaseDigit(d, TRUE)>>
  BY <1>2, <1>3
<1>5. a \in 0..15 /\ b \in 0..15 /\ c \in 0..15 /\ d \in 0..15
  BY <1>1 DEF DigitsOf
<1> DEFINE w == CaseDigit(a, FALSE)
           x == CaseDigit(b, TRUE)
           y == CaseDigit(c, FALSE)
           z == CaseDigit(d, TRUE)
<1>6. /\ w \in Byte /\ x \in Byte /\ y \in Byte /\ z \in Byte
      /\ HexValue(w) = a /\ HexValue(x) = b /\ HexValue(y) = c /\ HexValue(z) = d
  BY <1>5, CaseDigitLaws
<1>7. Hex(u) = <<Backslash, LetterU, w, x, y, z>>
  BY <1>4
<1>8. Backslash \in Byte /\ LetterU \in Byte
  BY DEF Backslash, LetterU, Byte
<1> HIDE DEF w, x, y, z
<1>9. HexOf(Hex(u), a, b, c, d)
  <2>1. Hex(u) \in Seq(Byte)
    BY <1>6, <1>7, <1>8
  <2>2. QED
    BY <1>6, <1>7, <2>1 DEF HexOf, Bytes
<1>10. QED
  BY <1>1, <1>9

LEMMA HexInText ==
  ASSUME NEW t \in Bytes, NEW p \in Nat, p > 0, NEW u \in UnitSet, Placed(Hex(u), p, t)
  PROVE  /\ p + 5 <= Len(t) /\ t[p] = Backslash /\ t[p + 1] = LetterU
         /\ CodeUnit(t, p + 2) = Taken(u, p + 6)
<1>1. PICK a, b, c, d : DigitsOf(u, a, b, c, d) /\ HexOf(Hex(u), a, b, c, d)
  BY HexLaws
<1> DEFINE h == Hex(u)
           q == p + 2
<1>2. /\ Len(h) = 6 /\ h[1] = Backslash /\ h[2] = LetterU
      /\ HexValue(h[3]) = a /\ HexValue(h[4]) = b /\ HexValue(h[5]) = c /\ HexValue(h[6]) = d
  BY <1>1 DEF HexOf
<1>3. p + Len(h) <= Len(t) + 1 /\ \A j \in 1..Len(h) : t[(p - 1) + j] = h[j]
  BY DEF Placed
<1> HIDE DEF h
<1>4. \A j \in 1..6 : t[(p - 1) + j] = h[j]
  BY <1>2, <1>3
<1>5. /\ (p - 1) + 1 = p /\ (p - 1) + 2 = p + 1 /\ (p - 1) + 3 = q /\ (p - 1) + 4 = q + 1
      /\ (p - 1) + 5 = q + 2 /\ (p - 1) + 6 = q + 3
      /\ q \in Nat /\ q > 0 /\ q + 3 <= Len(t) /\ q + 4 = p + 6 /\ p + 5 <= Len(t)
  BY <1>2, <1>3, ByteAt
<1>6. /\ t[p] = Backslash /\ t[p + 1] = LetterU /\ t[q] = h[3] /\ t[q + 1] = h[4]
      /\ t[q + 2] = h[5] /\ t[q + 3] = h[6]
  BY <1>2, <1>4, <1>5
<1> HIDE DEF q
<1>7. DigitsAt(t, q, a, b, c, d)
  BY <1>1, <1>2, <1>5, <1>6 DEF DigitsAt, DigitsOf
<1>8. CodeUnit(t, q) = Taken(UnitOf(a, b, c, d), q + 4)
  BY <1>7, FourDigits
<1>9. UnitOf(a, b, c, d) = u
  BY <1>1 DEF DigitsOf
<1>10. QED
  BY <1>5, <1>6, <1>8, <1>9 DEF q

\* What an escape is read as, by what follows it.
Escaped(t, p, u) ==
  LET second == CodeUnit(t, p + 8)
      paired == /\ p + 7 <= Len(t) /\ t[p + 6] = Backslash /\ t[p + 7] = LetterU
                /\ second.ok /\ second.value \in LowSurrogate
  IN  /\ p \in 1..Len(t) /\ t[p] # Quote
      /\ ReadPiece(t, p) = IF u \in LowSurrogate THEN Failure
                           ELSE IF u \notin HighSurrogate THEN Taken(Utf8(u), p + 6)
                           ELSE IF paired THEN Taken(Utf8(PairOf(u, second.value)), p + 12)
                           ELSE Failure

LEMMA EscapeIsRead ==
  ASSUME NEW t \in Bytes, NEW p \in Nat, p > 0, NEW u \in UnitSet, Placed(Hex(u), p, t)
  PROVE  Escaped(t, p, u)
<1>1. /\ p + 5 <= Len(t) /\ t[p] = Backslash /\ t[p + 1] = LetterU
      /\ CodeUnit(t, p + 2) = Taken(u, p + 6)
  BY HexInText
<1> DEFINE q == p + 1
           r == UnicodeEscape(t, q)
<1>2. /\ q + 1 = p + 2 /\ q + 7 = p + 8 /\ q + 6 = p + 7 /\ q + 5 = p + 6 /\ q + 11 = p + 12
      /\ p \in 1..Len(t) /\ ~(q > Len(t)) /\ t[q] = LetterU
  BY <1>1, ByteAt
<1>3. CodeUnit(t, q + 1).ok /\ CodeUnit(t, q + 1).value = u
  BY <1>1, <1>2, ResultLaws
<1> HIDE DEF q
<1>4. EscapeCases(t, q, r)
  BY EscapeCasesHold
<1> HIDE DEF r
<1> DEFINE second == CodeUnit(t, p + 8)
           paired == /\ p + 7 <= Len(t) /\ t[p + 6] = Backslash /\ t[p + 7] = LetterU
                     /\ second.ok /\ second.value \in LowSurrogate
<1>5. r = IF u \in LowSurrogate THEN Failure
          ELSE IF u \notin HighSurrogate THEN Taken(Utf8(u), p + 6)
          ELSE IF paired THEN Taken(Utf8(PairOf(u, second.value)), p + 12)
          ELSE Failure
  BY <1>2, <1>3, <1>4, Zenon DEF EscapeCases
<1>6. LetterU \notin DOMAIN SimpleEscape /\ Backslash # Quote
  BY SimpleEscapeType DEF LetterU, Backslash, Quote
<1>7. ReadEscape(t, q) = r
  BY <1>2, <1>6, Zenon DEF ReadEscape, r
<1>8. ReadPiece(t, p) = r
  BY <1>1, <1>7, Zenon DEF ReadPiece, q
<1>9. QED
  BY <1>1, <1>2, <1>5, <1>6, <1>8, Zenon DEF Escaped

LEMMA Halves ==
  ASSUME NEW u \in UnitSet
  PROVE  u \in HighSurrogate => u \notin LowSurrogate
  BY SMT DEF HighSurrogate, LowSurrogate, UnitSet

\* One code unit at p.
LEMMA LoneUnitIsRead ==
  ASSUME NEW t \in Bytes, NEW p \in Nat, p > 0, NEW u \in UnitSet, Placed(Hex(u), p, t),
         u \in HighSurrogate => t[p + 6] # Backslash
  PROVE  /\ p \in 1..Len(t) /\ t[p] # Quote
         /\ ReadPiece(t, p) = IF u \in LowSurrogate \/ u \in HighSurrogate THEN Failure
                              ELSE Taken(Utf8(u), p + 6)
<1>1. Escaped(t, p, u)
  BY EscapeIsRead
<1>2. QED
  BY <1>1, Zenon DEF Escaped

\* Two code units at p.
LEMMA TwoUnitsAreRead ==
  ASSUME NEW t \in Bytes, NEW p \in Nat, p > 0, NEW u \in UnitSet, NEW v \in UnitSet,
         Placed(Hex(u), p, t), Placed(Hex(v), p + 6, t)
  PROVE  /\ p \in 1..Len(t) /\ t[p] # Quote
         /\ ReadPiece(t, p) = IF u \in LowSurrogate THEN Failure
                              ELSE IF u \notin HighSurrogate THEN Taken(Utf8(u), p + 6)
                              ELSE IF v \in LowSurrogate THEN Taken(Utf8(PairOf(u, v)), p + 12)
                              ELSE Failure
<1>1. Escaped(t, p, u)
  BY EscapeIsRead
<1> DEFINE q == p + 6
<1>2. q \in Nat /\ q > 0
  OBVIOUS
<1>3. /\ q + 5 <= Len(t) /\ t[q] = Backslash /\ t[q + 1] = LetterU
      /\ CodeUnit(t, q + 2) = Taken(v, q + 6)
  BY <1>2, HexInText
<1>4. q + 1 = p + 7 /\ q + 2 = p + 8 /\ p + 7 <= Len(t)
  BY <1>3, ByteAt
<1>5. t[p + 6] = Backslash /\ t[p + 7] = LetterU /\ CodeUnit(t, p + 8).ok
      /\ CodeUnit(t, p + 8).value = v
  BY <1>3, <1>4, ResultLaws
<1>6. QED
  BY <1>1, <1>4, <1>5, Zenon DEF Escaped

\* A string that is one body between quotes.
Enclosed(t, body) ==
  /\ t \in Bytes /\ Len(t) = Len(body) + 2 /\ Placed(body, 2, t)
  /\ t[Len(body) + 2] = Quote

LEMMA QuotesEnclose ==
  ASSUME NEW body \in Bytes
  PROVE  Enclosed(<<Quote>> \o body \o <<Quote>>, body)
<1> DEFINE q == <<Quote>>
           m == Len(body)
           a == q \o body
           k == 1 + m
           t == a \o q
<1>1. q \in Bytes /\ Len(q) = 1 /\ q[1] = Quote
  BY DEF Quote, Byte, Bytes
<1>2. m \in Nat /\ k \in Nat /\ k + 1 = m + 2
  BY ByteAt
<1> HIDE DEF q, m
<1>3. Joined(a, q, body, 1, m)
  BY <1>1, JoinedParts, Zenon DEF m
<1>4. /\ a \in Bytes /\ Len(a) = k /\ \A i \in 1..k : a[i] = IF i <= 1 THEN q[i] ELSE body[i - 1]
  BY <1>3 DEF Joined
<1> HIDE DEF a, k
<1>5. Joined(t, a, q, k, 1)
  BY <1>1, <1>4, JoinedParts, Zenon
<1>6. t \in Bytes /\ Len(t) = m + 2 /\ \A i \in 1..(k + 1) : t[i] = IF i <= k THEN a[i] ELSE q[i - k]
  BY <1>2, <1>5 DEF Joined
<1> HIDE DEF t
<1>7. ASSUME NEW j \in 1..m PROVE t[(2 - 1) + j] = body[j]
  <2> DEFINE i == (2 - 1) + j
  <2>1. i \in 1..k /\ i \in 1..(k + 1) /\ i <= k /\ ~(i <= 1) /\ i - 1 = j
    BY <1>2 DEF k
  <2> HIDE DEF i
  <2>2. t[i] = a[i] /\ a[i] = body[i - 1]
    BY <1>4, <1>6, <2>1
  <2>3. QED
    BY <2>1, <2>2 DEF i
<1>8. t[m + 2] = Quote
  <2>1. m + 2 \in 1..(k + 1) /\ ~(m + 2 <= k) /\ (m + 2) - k = 1
    BY <1>2 DEF k
  <2>2. QED
    BY <1>1, <1>6, <2>1
<1>9. Placed(body, 2, t)
  <2>1. 2 + m <= Len(t) + 1
    BY <1>2, <1>6
  <2>2. QED
    BY <1>7, <2>1 DEF Placed, m
<1>10. QED
  BY <1>6, <1>8, <1>9 DEF Enclosed, t, a, m, q

LEMMA ClosingQuote ==
  ASSUME NEW t, NEW body \in Bytes, Enclosed(t, body)
  PROVE  StringRest(t)[Len(body) + 2] = Taken(<<>>, Len(body) + 3)
<1> DEFINE q == Len(body) + 2
<1>1. t \in Bytes /\ Len(t) = q /\ t[q] = Quote
  BY DEF Enclosed
<1>2. q \in 1..(Len(t) + 1) /\ ~(q > Len(t)) /\ q + 1 = Len(body) + 3
  BY <1>1, ByteAt
<1>3. RestFrom(StringRest(t), t, q) = Taken(<<>>, q + 1)
  BY <1>1, <1>2 DEF RestFrom
<1>4. QED
  BY <1>1, <1>2, <1>3, StringRecursion

\* One piece, and what is read behind it.
LEMMA RestOfPiece ==
  ASSUME NEW t \in Bytes, NEW q \in 1..Len(t), t[q] # Quote, NEW v, NEW e,
         ReadPiece(t, q) = Taken(v, e), NEW w, NEW end, StringRest(t)[e] = Taken(w, end)
  PROVE  StringRest(t)[q] = Taken(v \o w, end)
<1>1. q \in 1..(Len(t) + 1) /\ ~(q > Len(t))
  BY ByteAt
<1>2. /\ ReadPiece(t, q).ok /\ ReadPiece(t, q).end = e /\ ReadPiece(t, q).value = v
      /\ StringRest(t)[e].ok /\ StringRest(t)[e].value = w /\ StringRest(t)[e].end = end
  BY ResultLaws
<1>3. RestFrom(StringRest(t), t, q) = Taken(v \o w, end)
  BY <1>1, <1>2, Zenon DEF RestFrom
<1>4. QED
  BY <1>1, <1>3, StringRecursion

LEMMA RestOfFailure ==
  ASSUME NEW t \in Bytes, NEW q \in 1..Len(t), t[q] # Quote,
         \/ ReadPiece(t, q) = Failure
         \/ \E v, e : ReadPiece(t, q) = Taken(v, e) /\ StringRest(t)[e] = Failure
  PROVE  StringRest(t)[q] = Failure
<1>1. q \in 1..(Len(t) + 1) /\ ~(q > Len(t))
  BY ByteAt
<1>2. ~(ReadPiece(t, q).ok /\ StringRest(t)[ReadPiece(t, q).end].ok)
  BY ResultLaws
<1>3. RestFrom(StringRest(t), t, q) = Failure
  BY <1>1, <1>2, Zenon DEF RestFrom
<1>4. QED
  BY <1>1, <1>3, StringRecursion

InQuotes(body) == <<Quote>> \o body \o <<Quote>>

LEMMA HexType ==
  ASSUME NEW u \in UnitSet
  PROVE  Hex(u) \in Bytes /\ Len(Hex(u)) = 6
  BY HexLaws DEF HexOf

LEMMA Utf8OfUnit ==
  ASSUME NEW u \in UnitSet
  PROVE  Utf8(u) \in Bytes /\ IsUtf8Of(Utf8(u), u)
  BY UnitIsCodePoint, Utf8IsExact

LEMMA EmptyTail ==
  ASSUME NEW s \in Bytes
  PROVE  s \o <<>> = s
  BY ConcatEmptySeq DEF Bytes

LEMMA RestOfLastPiece ==
  ASSUME NEW t \in Bytes, NEW q \in 1..Len(t), t[q] # Quote, NEW v \in Bytes, NEW e,
         ReadPiece(t, q) = Taken(v, e), NEW end, StringRest(t)[e] = Taken(<<>>, end)
  PROVE  StringRest(t)[q] = Taken(v, end)
<1> DEFINE w == <<>>
<1>1. v \o w = v
  BY EmptyTail
<1>2. StringRest(t)[e] = Taken(w, end)
  OBVIOUS
<1> HIDE DEF w
<1>3. StringRest(t)[q] = Taken(v \o w, end)
  BY <1>2, RestOfPiece
<1>4. QED
  BY <1>1, <1>3

LEMMA NoUnitIsRead ==
  /\ Len(InQuotes(<<>>)) = 2
  /\ ReadString(InQuotes(<<>>), 1) = Taken(<<>>, 3)
<1> DEFINE t == InQuotes(<<>>)
<1>1. <<>> \in Bytes /\ Len(<<>>) = 0
  BY EmptySeq DEF Bytes
<1>2. Enclosed(t, <<>>)
  BY <1>1, QuotesEnclose DEF InQuotes
<1>3. StringRest(t)[Len(<<>>) + 2] = Taken(<<>>, Len(<<>>) + 3)
  BY <1>1, <1>2, ClosingQuote
<1>4. Len(t) = Len(<<>>) + 2
  BY <1>2 DEF Enclosed
<1>5. ReadString(t, 1) = StringRest(t)[1 + 1]
  BY StringIsRest
<1> HIDE DEF t
<1>6. Len(t) = 2 /\ 1 + 1 = 0 + 2 /\ 0 + 3 = 3
  BY <1>1, <1>4
<1>7. StringRest(t)[0 + 2] = Taken(<<>>, 0 + 3)
  BY <1>1, <1>3
<1>8. ReadString(t, 1) = Taken(<<>>, 3)
  BY <1>5, <1>6, <1>7
<1>9. QED
  BY <1>6, <1>8 DEF t

OneUnit(t, u) ==
  /\ Len(t) = 8
  /\ ReadString(t, 1) = IF u \in LowSurrogate \/ u \in HighSurrogate THEN Failure
                        ELSE Taken(Utf8(u), 9)

LEMMA OneUnitIsRead ==
  ASSUME NEW u \in UnitSet
  PROVE  OneUnit(InQuotes(Hex(u)), u)
<1> DEFINE t == InQuotes(Hex(u))
           R == StringRest(t)
<1>1. Hex(u) \in Bytes /\ Len(Hex(u)) = 6 /\ Utf8(u) \in Bytes
  BY HexType, Utf8OfUnit
<1>2. Enclosed(t, Hex(u))
  BY <1>1, QuotesEnclose DEF InQuotes
<1> HIDE DEF t
<1>3. t \in Bytes /\ Len(t) = 8 /\ Placed(Hex(u), 2, t) /\ t[8] = Quote
  BY <1>1, <1>2 DEF Enclosed
<1>4. R[8] = Taken(<<>>, 9)
  <2>1. R[Len(Hex(u)) + 2] = Taken(<<>>, Len(Hex(u)) + 3)
    BY <1>1, <1>2, ClosingQuote
  <2>2. 6 + 2 = 8 /\ 6 + 3 = 9
    OBVIOUS
  <2> HIDE DEF R
  <2>3. R[6 + 2] = Taken(<<>>, 6 + 3)
    BY <1>1, <2>1
  <2>4. QED
    BY <2>2, <2>3
<1>5. ReadString(t, 1) = R[2]
  <2>1. ReadString(t, 1) = R[1 + 1] /\ 1 + 1 = 2
    BY StringIsRest
  <2>2. QED
    BY <2>1
<1>6. 2 \in Nat /\ 2 > 0 /\ 2 + 6 = 8 /\ Quote # Backslash
  BY DEF Quote, Backslash
<1>7. t[2 + 6] # Backslash
  BY <1>3, <1>6
<1>8. /\ 2 \in 1..Len(t) /\ t[2] # Quote
      /\ ReadPiece(t, 2) = IF u \in LowSurrogate \/ u \in HighSurrogate THEN Failure
                           ELSE Taken(Utf8(u), 2 + 6)
  BY <1>3, <1>6, <1>7, LoneUnitIsRead
<1>9. CASE u \in LowSurrogate \/ u \in HighSurrogate
  <2>1. ReadPiece(t, 2) = Failure
    BY <1>8, <1>9
  <2>2. R[2] = Failure
    BY <1>3, <1>8, <2>1, RestOfFailure
  <2>3. QED
    BY <1>3, <1>5, <1>9, <2>2, Zenon DEF OneUnit, t
<1>10. CASE ~(u \in LowSurrogate \/ u \in HighSurrogate)
  <2>1. ReadPiece(t, 2) = Taken(Utf8(u), 8)
    BY <1>6, <1>8, <1>10
  <2>2. R[2] = Taken(Utf8(u), 9)
    BY <1>1, <1>3, <1>4, <1>8, <2>1, RestOfLastPiece
  <2>3. QED
    BY <1>3, <1>5, <1>10, <2>2, Zenon DEF OneUnit, t
<1>11. QED
  BY <1>9, <1>10 DEF t

TwoUnits(t, u, v) ==
  /\ Len(t) = 14
  /\ ReadString(t, 1) =
       IF u \in LowSurrogate THEN Failure
       ELSE IF u \in HighSurrogate
            THEN IF v \in LowSurrogate THEN Taken(Utf8(PairOf(u, v)), 15) ELSE Failure
       ELSE IF v \in LowSurrogate \/ v \in HighSurrogate THEN Failure
       ELSE Taken(Utf8(u) \o Utf8(v), 15)

LEMMA TwoUnitsTogether ==
  ASSUME NEW u \in UnitSet, NEW v \in UnitSet
  PROVE  TwoUnits(InQuotes(Hex(u) \o Hex(v)), u, v)
<1> DEFINE body == Hex(u) \o Hex(v)
           t == InQuotes(body)
           R == StringRest(t)
<1>1. /\ Hex(u) \in Bytes /\ Len(Hex(u)) = 6 /\ Hex(v) \in Bytes /\ Len(Hex(v)) = 6
      /\ Utf8(u) \in Bytes /\ Utf8(v) \in Bytes
  BY HexType, Utf8OfUnit
<1>2. body \in Bytes /\ Len(body) = 12
  <2>1. Joined(body, Hex(u), Hex(v), 6, 6)
    BY <1>1, JoinedParts, Zenon
  <2> HIDE DEF body
  <2>2. QED
    BY <2>1 DEF Joined
<1>3. Enclosed(t, body)
  BY <1>2, QuotesEnclose DEF InQuotes
<1> HIDE DEF t
<1>4. t \in Bytes /\ Len(t) = 14 /\ Placed(body, 2, t) /\ t[14] = Quote
  <2> HIDE DEF body
  <2>1. QED
    BY <1>2, <1>3 DEF Enclosed
<1>5. 2 \in Nat /\ 2 > 0 /\ 2 + 6 = 8 /\ 8 \in Nat /\ 8 > 0 /\ 8 + 6 = 14 /\ Quote # Backslash
      /\ 12 + 2 = 14 /\ 12 + 3 = 15 /\ 2 + 12 = 14
  BY DEF Quote, Backslash
<1>6. Placed(Hex(u), 2, t) /\ Placed(Hex(v), 8, t)
  <2>1. Placed(Hex(u), 2, t) /\ Placed(Hex(v), 2 + Len(Hex(u)), t)
    BY <1>1, <1>4, <1>5, PlacedParts
  <2>2. Placed(Hex(v), 2 + 6, t)
    BY <1>1, <2>1
  <2>3. QED
    BY <1>5, <2>1, <2>2
<1> HIDE DEF R
<1>7. R[14] = Taken(<<>>, 15)
  <2>1. R[Len(body) + 2] = Taken(<<>>, Len(body) + 3)
    BY <1>2, <1>3, ClosingQuote DEF R
  <2> HIDE DEF body
  <2>2. R[12 + 2] = Taken(<<>>, 12 + 3)
    BY <1>2, <2>1
  <2>3. QED
    BY <1>5, <2>2
<1> HIDE DEF body
<1>8. ReadString(t, 1) = R[2]
  <2>1. ReadString(t, 1) = R[1 + 1] /\ 1 + 1 = 2
    BY StringIsRest DEF R
  <2>2. QED
    BY <2>1
<1>9. /\ 2 \in 1..Len(t) /\ t[2] # Quote
      /\ ReadPiece(t, 2) = IF u \in LowSurrogate THEN Failure
                           ELSE IF u \notin HighSurrogate THEN Taken(Utf8(u), 8)
                           ELSE IF v \in LowSurrogate THEN Taken(Utf8(PairOf(u, v)), 14)
                           ELSE Failure
  <2>1. Placed(Hex(v), 2 + 6, t)
    BY <1>5, <1>6
  <2>2. /\ 2 \in 1..Len(t) /\ t[2] # Quote
        /\ ReadPiece(t, 2) = IF u \in LowSurrogate THEN Failure
                             ELSE IF u \notin HighSurrogate THEN Taken(Utf8(u), 2 + 6)
                             ELSE IF v \in LowSurrogate THEN Taken(Utf8(PairOf(u, v)), 2 + 12)
                             ELSE Failure
    BY <1>4, <1>5, <1>6, <2>1, TwoUnitsAreRead
  <2>3. QED
    BY <1>5, <2>2
<1>10. /\ 8 \in 1..Len(t) /\ t[8] # Quote
       /\ ReadPiece(t, 8) = IF v \in LowSurrogate \/ v \in HighSurrogate THEN Failure
                            ELSE Taken(Utf8(v), 14)
  <2>1. t[8 + 6] # Backslash
    BY <1>4, <1>5
  <2>2. /\ 8 \in 1..Len(t) /\ t[8] # Quote
        /\ ReadPiece(t, 8) = IF v \in LowSurrogate \/ v \in HighSurrogate THEN Failure
                             ELSE Taken(Utf8(v), 8 + 6)
    BY <1>4, <1>5, <1>6, <2>1, LoneUnitIsRead
  <2>3. QED
    BY <1>5, <2>2
<1>11. CASE u \in LowSurrogate \/ (u \in HighSurrogate /\ v \notin LowSurrogate)
  <2>1. ReadPiece(t, 2) = Failure
    BY <1>9, <1>11, Zenon
  <2>2. R[2] = Failure
    BY <1>4, <1>9, <2>1, RestOfFailure DEF R
  <2>3. QED
    BY <1>4, <1>8, <1>11, <2>2, Zenon DEF TwoUnits, t, body
<1>12. CASE u \notin LowSurrogate /\ u \in HighSurrogate /\ v \in LowSurrogate
  <2>1. ReadPiece(t, 2) = Taken(Utf8(PairOf(u, v)), 14)
    BY <1>9, <1>12, Zenon
  <2>2. Utf8(PairOf(u, v)) \in Bytes
    BY <1>12, PairOfType, Utf8IsExact
  <2>3. R[2] = Taken(Utf8(PairOf(u, v)), 15)
    BY <1>4, <1>7, <1>9, <2>1, <2>2, RestOfLastPiece DEF R
  <2>4. QED
    BY <1>4, <1>8, <1>12, <2>3, Zenon DEF TwoUnits, t, body
<1>13. CASE u \notin LowSurrogate /\ u \notin HighSurrogate /\ (v \in LowSurrogate \/ v \in HighSurrogate)
  <2>1. ReadPiece(t, 2) = Taken(Utf8(u), 8)
    BY <1>9, <1>13, Zenon
  <2>2. ReadPiece(t, 8) = Failure
    BY <1>10, <1>13, Zenon
  <2>3. R[8] = Failure
    BY <1>4, <1>10, <2>2, RestOfFailure DEF R
  <2>4. R[2] = Failure
    BY <1>4, <1>9, <2>1, <2>3, RestOfFailure DEF R
  <2>5. QED
    BY <1>4, <1>8, <1>13, <2>4, Zenon DEF TwoUnits, t, body
<1>14. CASE u \notin LowSurrogate /\ u \notin HighSurrogate /\ ~(v \in LowSurrogate \/ v \in HighSurrogate)
  <2>1. ReadPiece(t, 2) = Taken(Utf8(u), 8)
    BY <1>9, <1>14, Zenon
  <2>2. ReadPiece(t, 8) = Taken(Utf8(v), 14)
    BY <1>10, <1>14, Zenon
  <2>3. R[8] = Taken(Utf8(v), 15)
    BY <1>1, <1>4, <1>7, <1>10, <2>2, RestOfLastPiece DEF R
  <2>4. R[2] = Taken(Utf8(u) \o Utf8(v), 15)
    BY <1>4, <1>9, <2>1, <2>3, RestOfPiece DEF R
  <2>5. QED
    BY <1>4, <1>8, <1>14, <2>4, Zenon DEF TwoUnits, t, body
<1>15. QED
  BY <1>11, <1>12, <1>13, <1>14, Zenon DEF t, body

LEMMA PartsOfJoined ==
  ASSUME NEW x \in Bytes, NEW y \in Bytes, Len(x) > 0, Len(y) > 0
  PROVE  /\ Len(x) \in 1..Len(x \o y)
         /\ SubSeq(x \o y, 1, Len(x)) = x
         /\ SubSeq(x \o y, Len(x) + 1, Len(x \o y)) = y
<1> DEFINE m == Len(x)
           n == Len(y)
<1>1. m \in Nat /\ n \in Nat /\ m > 0 /\ n > 0
  BY ByteAt
<1>2. Len(x \o y) = m + n
  BY ConcatProperties DEF Bytes
<1>3. SubSeq(x \o y, 1, m) = x
  <2>1. 1 \in 1..Len(x) /\ m \in 1..Len(x)
    BY <1>1
  <2>2. SubSeq(x \o y, 1, m) = SubSeq(x, 1, m)
    BY <2>1, SubSeqOfConcat1 DEF Bytes
  <2>3. SubSeq(x, 1, Len(x)) = x
    BY SubSeqFull DEF Bytes
  <2>4. QED
    BY <2>2, <2>3
<1>4. SubSeq(x \o y, m + 1, m + n) = y
  <2> DEFINE i == m + 1
             j == m + n
  <2>1. /\ i \in Len(x) + 1..Len(x) + Len(y) /\ j \in Len(x) + 1..Len(x) + Len(y)
        /\ i - Len(x) = 1 /\ j - Len(x) = n
    BY <1>1
  <2> HIDE DEF i, j
  <2>2. SubSeq(x \o y, i, j) = SubSeq(y, i - Len(x), j - Len(x))
    BY <2>1, SubSeqOfConcat2 DEF Bytes
  <2>3. SubSeq(x \o y, i, j) = SubSeq(y, 1, n)
    BY <2>1, <2>2
  <2>4. SubSeq(y, 1, Len(y)) = y
    BY SubSeqFull DEF Bytes
  <2>5. QED
    BY <2>3, <2>4 DEF i, j
<1>5. m \in 1..(m + n)
  BY <1>1
<1>6. QED
  BY <1>2, <1>3, <1>4, <1>5

LEMMA Utf8HasBytes ==
  ASSUME NEW bytes, NEW cp, IsUtf8Of(bytes, cp)
  PROVE  Len(bytes) > 0
<1>1. Len(bytes) = 1 \/ Len(bytes) = 2 \/ Len(bytes) = 3 \/ Len(bytes) = 4
  BY SMT DEF IsUtf8Of
<1>2. QED
  BY <1>1

UnitList(us) == us \in Seq(UnitSet) /\ Len(us) <= 2

LEMMA OneUnitStandsFor ==
  ASSUME NEW us, UnitList(us), Len(us) = 1
  PROVE  CodePoints(us) = IF us[1] \in LowSurrogate \/ us[1] \in HighSurrogate THEN <<>> ELSE us
<1>1. DOMAIN us = {1}
  BY LenProperties DEF UnitList
<1>2. (\A i \in DOMAIN us : ~(us[i] \in HighSurrogate) /\ ~(us[i] \in LowSurrogate))
         <=> ~(us[1] \in LowSurrogate \/ us[1] \in HighSurrogate)
  BY <1>1
<1>3. Len(us) # 2
  OBVIOUS
<1>4. QED
  BY <1>2, <1>3, SMT DEF CodePoints

LEMMA TwoUnitsStandFor ==
  ASSUME NEW us, UnitList(us), Len(us) = 2
  PROVE  CodePoints(us) =
           IF us[1] \in LowSurrogate THEN <<>>
           ELSE IF us[1] \in HighSurrogate
                THEN IF us[2] \in LowSurrogate THEN << PairOf(us[1], us[2]) >> ELSE <<>>
           ELSE IF us[2] \in LowSurrogate \/ us[2] \in HighSurrogate THEN <<>>
           ELSE us
<1>1. DOMAIN us = {1, 2} /\ us[1] \in UnitSet /\ us[2] \in UnitSet
  <2>1. DOMAIN us = 1..2
    BY LenProperties DEF UnitList
  <2>2. 1..2 = {1, 2} /\ 1 \in 1..Len(us) /\ 2 \in 1..Len(us)
    OBVIOUS
  <2>3. us[1] \in UnitSet /\ us[2] \in UnitSet
    BY <2>2, ElementOfSeq DEF UnitList
  <2>4. QED
    BY <2>1, <2>2, <2>3
<1>2. (\A i \in DOMAIN us : ~(us[i] \in HighSurrogate) /\ ~(us[i] \in LowSurrogate))
         <=> /\ ~(us[1] \in LowSurrogate \/ us[1] \in HighSurrogate)
             /\ ~(us[2] \in LowSurrogate \/ us[2] \in HighSurrogate)
  BY <1>1
<1>3. us[1] \in HighSurrogate => us[1] \notin LowSurrogate
  BY <1>1, Halves
<1>4. PairOf(us[1], us[2]) = 65536 + (us[1] - 55296) * 1024 + (us[2] - 56320)
  BY SMT DEF PairOf
<1>5. CodePoints(us) =
        IF /\ ~(us[1] \in LowSurrogate \/ us[1] \in HighSurrogate)
           /\ ~(us[2] \in LowSurrogate \/ us[2] \in HighSurrogate) THEN us
        ELSE IF Len(us) = 2 /\ us[1] \in HighSurrogate /\ us[2] \in LowSurrogate
             THEN << PairOf(us[1], us[2]) >> ELSE <<>>
  BY <1>2, <1>4, SMT DEF CodePoints
<1>6. QED
  BY <1>3, <1>5, Zenon

\* EscapesAreUnicode of a list of units and of what was read of its text.
ReadAsUnicode(us, cps, read, end) ==
  IF cps = <<>> /\ us # <<>> THEN ~read.ok
  ELSE /\ read.ok /\ read.end = end
       /\ \/ cps = <<>> /\ read.value = <<>>
          \/ Len(cps) = 1 /\ IsUtf8Of(read.value, cps[1])
          \/ /\ Len(cps) = 2
             /\ \E k \in 1..Len(read.value) :
                  /\ IsUtf8Of(SubSeq(read.value, 1, k), cps[1])
                  /\ IsUtf8Of(SubSeq(read.value, k + 1, Len(read.value)), cps[2])

TextOfUnits(us) ==
  <<Quote>> \o (IF us = <<>> THEN <<>>
                ELSE IF Len(us) = 1 THEN Hex(us[1])
                ELSE Hex(us[1]) \o Hex(us[2])) \o <<Quote>>

LEMMA FailureIsRead ==
  ASSUME NEW us, us # <<>>, NEW end
  PROVE  ReadAsUnicode(us, <<>>, Failure, end)
  BY ResultLaws DEF ReadAsUnicode

LEMMA OnePointIsRead ==
  ASSUME NEW us, NEW cps, NEW bytes, NEW end, cps # <<>>, Len(cps) = 1, IsUtf8Of(bytes, cps[1])
  PROVE  ReadAsUnicode(us, cps, Taken(bytes, end), end)
  BY ResultLaws, Zenon DEF ReadAsUnicode

LEMMA TwoPointsAreRead ==
  ASSUME NEW us, NEW cps, NEW x \in Bytes, NEW y \in Bytes, NEW end, cps # <<>>, Len(cps) = 2,
         IsUtf8Of(x, cps[1]), IsUtf8Of(y, cps[2])
  PROVE  ReadAsUnicode(us, cps, Taken(x \o y, end), end)
<1> DEFINE z == x \o y
           k == Len(x)
<1>1. /\ k \in 1..Len(z) /\ SubSeq(z, 1, k) = x /\ SubSeq(z, k + 1, Len(z)) = y
  BY Utf8HasBytes, PartsOfJoined
<1> HIDE DEF z, k
<1>2. \E j \in 1..Len(z) : /\ IsUtf8Of(SubSeq(z, 1, j), cps[1])
                           /\ IsUtf8Of(SubSeq(z, j + 1, Len(z)), cps[2])
  BY <1>1, Zenon
<1>3. QED
  BY <1>2, ResultLaws, Zenon DEF ReadAsUnicode, z

LEMMA UnitsAreRead ==
  ASSUME NEW us, UnitList(us)
  PROVE  ReadAsUnicode(us, CodePoints(us), ReadString(TextOfUnits(us), 1), Len(TextOfUnits(us)) + 1)
<1> DEFINE t == TextOfUnits(us)
           read == ReadString(t, 1)
           Goal == ReadAsUnicode(us, CodePoints(us), read, Len(t) + 1)
<1>1. us \in Seq(UnitSet) /\ (Len(us) = 0 \/ Len(us) = 1 \/ Len(us) = 2)
  <2>1. us \in Seq(UnitSet) /\ Len(us) <= 2
    BY DEF UnitList
  <2>2. Len(us) \in Nat
    BY <2>1, LenProperties
  <2>3. \A n \in Nat : n <= 2 => n = 0 \/ n = 1 \/ n = 2
    OBVIOUS
  <2>4. QED
    BY <2>1, <2>2, <2>3, Zenon
<1>2. CASE Len(us) = 0
  <2>1. us = <<>>
    BY <1>1, <1>2, EmptySeq
  <2>2. t = InQuotes(<<>>)
    BY <2>1 DEF TextOfUnits, InQuotes
  <2>3. CodePoints(us) = <<>>
    <3>1. DOMAIN us = {}
      BY <1>1, <1>2, LenProperties
    <3>2. \A i \in DOMAIN us : ~(us[i] \in HighSurrogate) /\ ~(us[i] \in LowSurrogate)
      BY <3>1
    <3>3. CodePoints(us) = us
      BY <3>2, SMT DEF CodePoints
    <3>4. QED
      BY <2>1, <3>3
  <2>4. Len(t) = 2 /\ read = Taken(<<>>, 3)
    BY <2>2, NoUnitIsRead
  <2>5. read.ok /\ read.end = 3 /\ read.value = <<>>
    BY <2>4, ResultLaws
  <2>6. Len(t) + 1 = 3
    BY <2>4
  <2> HIDE DEF read, t
  <2>7. Goal
    BY <2>1, <2>3, <2>5, <2>6, Zenon DEF ReadAsUnicode
  <2>8. QED
    BY <2>7 DEF read, t
<1>3. CASE Len(us) = 1
  <2> DEFINE u == us[1]
  <2>1. us # <<>> /\ u \in UnitSet
    <3>1. 1 \in 1..Len(us)
      BY <1>3
    <3>2. QED
      BY <1>1, <1>3, <3>1, ElementOfSeq, EmptySeq
  <2>2. t = InQuotes(Hex(u))
    BY <1>3, <2>1, Zenon DEF TextOfUnits, InQuotes
  <2>3. OneUnit(t, u)
    BY <2>1, <2>2, OneUnitIsRead
  <2>4. CodePoints(us) = IF u \in LowSurrogate \/ u \in HighSurrogate THEN <<>> ELSE us
    BY <1>3, OneUnitStandsFor
  <2>5. IsUtf8Of(Utf8(u), u)
    BY <2>1, Utf8OfUnit
  <2>6. /\ Len(t) + 1 = 9
        /\ read = IF u \in LowSurrogate \/ u \in HighSurrogate THEN Failure ELSE Taken(Utf8(u), 9)
    <3> HIDE DEF t
    <3>1. QED
      BY <2>3 DEF OneUnit
  <2> HIDE DEF read, t
  <2>7. CASE u \in LowSurrogate \/ u \in HighSurrogate
    <3>1. read = Failure /\ CodePoints(us) = <<>>
      BY <2>4, <2>6, <2>7, Zenon
    <3>2. Goal
      BY <2>1, <3>1, FailureIsRead
    <3>3. QED
      BY <3>2 DEF read, t
  <2>8. CASE ~(u \in LowSurrogate \/ u \in HighSurrogate)
    <3>1. read = Taken(Utf8(u), 9) /\ CodePoints(us) = us
      BY <2>4, <2>6, <2>8, Zenon
    <3>2. ReadAsUnicode(us, us, Taken(Utf8(u), 9), 9)
      BY <1>3, <2>1, <2>5, OnePointIsRead
    <3>3. Goal
      BY <2>6, <3>1, <3>2, Zenon
    <3>4. QED
      BY <3>3 DEF read, t
  <2>9. QED
    BY <2>7, <2>8
<1>4. CASE Len(us) = 2
  <2> DEFINE u == us[1]
             v == us[2]
  <2>1. us # <<>> /\ u \in UnitSet /\ v \in UnitSet /\ Len(us) # 1
    <3>1. 1 \in 1..Len(us) /\ 2 \in 1..Len(us) /\ Len(us) # 0
      BY <1>4
    <3>2. QED
      BY <1>1, <1>4, <3>1, ElementOfSeq, EmptySeq
  <2>2. t = InQuotes(Hex(u) \o Hex(v))
    BY <2>1, Zenon DEF TextOfUnits, InQuotes
  <2>3. TwoUnits(t, u, v)
    BY <2>1, <2>2, TwoUnitsTogether
  <2>4. CodePoints(us) =
          IF u \in LowSurrogate THEN <<>>
          ELSE IF u \in HighSurrogate
               THEN IF v \in LowSurrogate THEN << PairOf(u, v) >> ELSE <<>>
          ELSE IF v \in LowSurrogate \/ v \in HighSurrogate THEN <<>>
          ELSE us
    BY <1>4, TwoUnitsStandFor
  <2>5. /\ IsUtf8Of(Utf8(u), u) /\ IsUtf8Of(Utf8(v), v) /\ Utf8(u) \in Bytes /\ Utf8(v) \in Bytes
    BY <2>1, Utf8OfUnit
  <2>6. /\ Len(t) + 1 = 15
        /\ read = IF u \in LowSurrogate THEN Failure
                  ELSE IF u \in HighSurrogate
                       THEN IF v \in LowSurrogate THEN Taken(Utf8(PairOf(u, v)), 15) ELSE Failure
                  ELSE IF v \in LowSurrogate \/ v \in HighSurrogate THEN Failure
                  ELSE Taken(Utf8(u) \o Utf8(v), 15)
    <3> HIDE DEF t
    <3>1. QED
      BY <2>3 DEF TwoUnits
  <2> HIDE DEF read, t
  <2>7. CASE CodePoints(us) = <<>>
    <3>1. us # <<>> /\ << PairOf(u, v) >> # <<>>
      BY <2>1
    <3>2. read = Failure
      BY <2>4, <2>6, <2>7, <3>1, Zenon
    <3>3. Goal
      BY <2>1, <2>7, <3>2, FailureIsRead
    <3>4. QED
      BY <3>3 DEF read, t
  <2>8. CASE u \notin LowSurrogate /\ u \in HighSurrogate /\ v \in LowSurrogate
    <3> DEFINE cp == PairOf(u, v)
               cps == << cp >>
    <3>1. read = Taken(Utf8(cp), 15) /\ CodePoints(us) = cps
      BY <2>4, <2>6, <2>8, Zenon
    <3>2. IsUtf8Of(Utf8(cp), cp)
      BY <2>8, PairOfType, Utf8IsExact
    <3>3. cps # <<>> /\ Len(cps) = 1 /\ cps[1] = cp
      OBVIOUS
    <3> HIDE DEF cps, cp
    <3>4. ReadAsUnicode(us, cps, Taken(Utf8(cp), 15), 15)
      BY <3>2, <3>3, OnePointIsRead
    <3>5. Goal
      BY <2>6, <3>1, <3>4, Zenon
    <3>6. QED
      BY <3>5 DEF read, t
  <2>9. CASE ~(u \in LowSurrogate \/ u \in HighSurrogate) /\ ~(v \in LowSurrogate \/ v \in HighSurrogate)
    <3>1. read = Taken(Utf8(u) \o Utf8(v), 15) /\ CodePoints(us) = us
      BY <2>4, <2>6, <2>9, Zenon
    <3>2. ReadAsUnicode(us, us, Taken(Utf8(u) \o Utf8(v), 15), 15)
      BY <1>4, <2>1, <2>5, TwoPointsAreRead
    <3>3. Goal
      BY <2>6, <3>1, <3>2, Zenon
    <3>4. QED
      BY <3>3 DEF read, t
  <2>10. QED
    BY <2>4, <2>7, <2>8, <2>9, Zenon
<1>5. QED
  BY <1>1, <1>2, <1>3, <1>4

CharactersTyped == characters \in Bytes /\ UnitList(units)

LEMMA StringsHold ==
  ASSUME CharactersTyped
  PROVE  StringsAreExact
<1>1. WrittenStringsAreReadBack
  BY WrittenIsRead DEF CharactersTyped, WrittenStringsAreReadBack
<1>2. ReadAsUnicode(units, CodePoints(units), ReadString(TextOfUnits(units), 1),
                    Len(TextOfUnits(units)) + 1)
  BY UnitsAreRead DEF CharactersTyped
<1>3. TextOfUnits(units) = EscapedUnits
  BY Zenon DEF TextOfUnits, EscapedUnits
<1>4. EscapesAreUnicode
  BY <1>2, <1>3, Zenon DEF ReadAsUnicode, EscapesAreUnicode
<1>5. QED
  BY <1>1, <1>4 DEF StringsAreExact

LEMMA UnitsInUnitSet == Units \subseteq UnitSet
  BY CharactersAssumption, SMT DEF UnitSet

LEMMA CharactersInvariant == CharactersSpec => []CharactersTyped
<1>1. CharactersInit => CharactersTyped
  <2>1. <<>> \in Seq(Byte) /\ <<>> \in Seq(UnitSet) /\ Len(<<>>) = 0
    BY EmptySeq
  <2>2. QED
    BY <2>1 DEF CharactersInit, CharactersTyped, UnitList, Bytes
<1>2. CharactersTyped /\ [CharactersNext]_<<characters, units>> => CharactersTyped'
  <2>1. SUFFICES ASSUME CharactersTyped, [CharactersNext]_<<characters, units>>
                 PROVE  CharactersTyped'
    OBVIOUS
  <2>2. characters \in Seq(Byte) /\ units \in Seq(UnitSet) /\ Len(units) <= 2
    BY <2>1 DEF CharactersTyped, UnitList, Bytes
  <2>3. CASE UNCHANGED <<characters, units>>
    BY <2>2, <2>3 DEF CharactersTyped, UnitList, Bytes
  <2>4. CASE units' = units /\ \E c \in Byte : characters' = Append(characters, c)
    <3>1. PICK c \in Byte : characters' = Append(characters, c)
      BY <2>4
    <3>2. characters' \in Seq(Byte)
      BY <2>2, <3>1, AppendProperties
    <3>3. QED
      BY <2>2, <2>4, <3>2 DEF CharactersTyped, UnitList, Bytes
  <2>5. CASE characters' = characters /\ Len(units) < 2 /\ \E u \in UnitSet : units' = Append(units, u)
    <3>1. PICK u \in UnitSet : units' = Append(units, u)
      BY <2>5
    <3>2. units' \in Seq(UnitSet) /\ Len(units') = Len(units) + 1
      BY <2>2, <3>1, AppendProperties
    <3>3. Len(units') <= 2
      BY <2>2, <2>5, <3>2, LenProperties
    <3>4. QED
      BY <2>2, <2>5, <3>2, <3>3 DEF CharactersTyped, UnitList, Bytes
  <2>6. StringBytes \subseteq Byte /\ NumberBytes \subseteq Byte /\ Units \subseteq UnitSet
    BY CharactersAssumption, UnitsInUnitSet, SMT
  <2>7. CASE units' = units /\ \E c \in StringBytes : characters' = Append(characters, c)
    BY <2>4, <2>6, <2>7
  <2>8. CASE units' = units /\ \E c \in NumberBytes : characters' = Append(characters, c)
    BY <2>4, <2>6, <2>8
  <2>9. CASE characters' = characters /\ Len(units) < 2 /\ \E u \in Units : units' = Append(units, u)
    BY <2>5, <2>6, <2>9
  <2>10. QED
    BY <2>1, <2>3, <2>7, <2>8, <2>9, Zenon DEF CharactersNext
<1>3. QED
  BY <1>1, <1>2, PTL DEF CharactersSpec

\* Whatever the bytes of a string are, what is written of it is read back, and
\* whatever the code units are, an escaped list of them is read as the UTF-8
\* of its code points, or refused if it is ill-formed: for every set of bytes
\* and code units and every length of strings.
THEOREM StringsAreExactHolds == CharactersSpec => []StringsAreExact
<1>1. CharactersTyped => StringsAreExact
  BY StringsHold
<1>2. QED
  BY <1>1, CharactersInvariant, PTL

-----------------------------------------------------------------------------
(***************************************************************************)
(* Number tokens, by positions in the text.                                *)
(***************************************************************************)
\* The digits from p end before e.
Run(t, p, e) ==
  /\ e \in p..(Len(t) + 1)
  /\ \A i \in p..(e - 1) : t[i] \in Digit
  /\ e <= Len(t) => t[e] \notin Digit

DigitsAfter(t, p) ==
  LET after[q \in p..(Len(t) + 1)] ==
        IF q <= Len(t) /\ t[q] \in Digit THEN after[q + 1] ELSE q
  IN  after

NextDigit(f, t, q) == IF q <= Len(t) /\ t[q] \in Digit THEN f[q + 1] ELSE q

LEMMA DigitsRecursion ==
  ASSUME NEW t \in Bytes, NEW p \in 1..(Len(t) + 1)
  PROVE  \A q \in p..(Len(t) + 1) : DigitsAfter(t, p)[q] = NextDigit(DigitsAfter(t, p), t, q)
<1> DEFINE n == Len(t)
           S == p..(n + 1)
           mu == [q \in S |-> n + 1 - q]
           step == [q \in S |-> [g \in [S -> S] |-> NextDigit(g, t, q)]]
           F(f) == f = [q \in S |-> NextDigit(f, t, q)]
           R == DigitsAfter(t, p)
<1>1. n \in Nat /\ p \in Nat /\ p > 0 /\ p <= n + 1
  BY ByteAt
<1>2. R = CHOOSE f : F(f)
  BY Zenon DEF DigitsAfter, NextDigit
<1>3. mu \in [S -> 0..n] /\ n + 1 \in S
  BY <1>1
<1>4. \A q \in S : q <= n => q + 1 \in S /\ mu[q + 1] < mu[q]
  BY <1>1
<1> HIDE DEF S, mu
<1>5. ASSUME NEW q \in S, NEW g \in [S -> S] PROVE NextDigit(g, t, q) \in S
  BY <1>4 DEF NextDigit
<1>6. ASSUME NEW q \in S, NEW g \in [S -> S], NEW h \in [S -> S],
             \A j \in S : mu[j] < mu[q] => g[j] = h[j]
      PROVE  NextDigit(g, t, q) = NextDigit(h, t, q)
  BY <1>4, <1>6 DEF NextDigit
<1>7. step \in [S -> [[S -> S] -> S]]
  BY <1>5
<1>8. \A q \in S : \A g \in [S -> S] : step[q][g] = NextDigit(g, t, q)
  OBVIOUS
<1> HIDE DEF step
<1>9. DependsOnSmaller(step, S, mu, S)
  BY <1>6, <1>8 DEF DependsOnSmaller
<1>10. PICK f \in [S -> S] : Solution(f, step, S)
  BY <1>1, <1>3, <1>7, <1>9, RecursionHasSolution, Zenon
<1>11. F(f)
  <2>1. \A q \in S : f[q] = NextDigit(f, t, q)
    BY <1>8, <1>10 DEF Solution
  <2>2. QED
    BY <2>1
<1>12. F(R)
  <2> HIDE DEF F, R
  <2>1. QED
    BY <1>2, <1>11
<1> HIDE DEF R
<1>13. \A q \in S : R[q] = NextDigit(R, t, q)
  BY <1>12
<1>14. QED
  BY <1>13 DEF R, S

LEMMA AfterDigitsIsRun ==
  ASSUME NEW t \in Bytes, NEW p \in 1..(Len(t) + 1)
  PROVE  Run(t, p, AfterDigits(t, p))
<1> DEFINE n == Len(t)
           R == DigitsAfter(t, p)
           G == {k \in 0..n : k <= (n + 1) - p => Run(t, (n + 1) - k, R[(n + 1) - k])}
<1>1. n \in Nat /\ p \in Nat /\ p > 0 /\ p <= n + 1
  BY ByteAt
<1>2. \A q \in p..(n + 1) : R[q] = NextDigit(R, t, q)
  BY DigitsRecursion
<1>3. AfterDigits(t, p) = IF p > n THEN p ELSE R[p]
  BY Zenon DEF AfterDigits, DigitsAfter
<1> HIDE DEF R
<1>4. ASSUME NEW q \in p..(n + 1), q <= n => Run(t, q + 1, R[q + 1]) PROVE Run(t, q, R[q])
  <2>1. R[q] = NextDigit(R, t, q)
    BY <1>2
  <2>2. CASE q <= n /\ t[q] \in Digit
    <3> DEFINE e == R[q + 1]
    <3>1. R[q] = e
      BY <2>1, <2>2 DEF NextDigit
    <3>2. Run(t, q + 1, e)
      BY <1>4, <2>2
    <3> HIDE DEF e
    <3>4. \A i \in q..(e - 1) : i = q \/ i \in (q + 1)..(e - 1)
      BY <1>1, <3>2 DEF Run
    <3>5. \A i \in q..(e - 1) : t[i] \in Digit
      BY <2>2, <3>2, <3>4 DEF Run
    <3>6. e \in q..(n + 1) /\ (e <= n => t[e] \notin Digit)
      BY <1>1, <3>2 DEF Run
    <3>7. QED
      BY <3>1, <3>5, <3>6 DEF Run
  <2>3. CASE ~(q <= n /\ t[q] \in Digit)
    <3>1. R[q] = q
      BY <2>1, <2>3 DEF NextDigit
    <3>2. q \in q..(n + 1) /\ \A i \in q..(q - 1) : FALSE
      BY <1>1
    <3>3. QED
      BY <2>3, <3>1, <3>2 DEF Run
  <2>4. QED
    BY <2>2, <2>3
<1>5. \A k \in 0..n : k \in G
  <2>1. ASSUME NEW k \in 0..n, \A j \in 0..(k - 1) : j \in G PROVE k \in G
    <3> DEFINE q == (n + 1) - k
    <3>1. SUFFICES ASSUME k <= (n + 1) - p PROVE Run(t, q, R[q])
      OBVIOUS
    <3>2. q \in p..(n + 1)
      BY <1>1, <3>1
    <3>3. ASSUME q <= n PROVE Run(t, q + 1, R[q + 1])
      <4>1. k - 1 \in 0..(k - 1) /\ k - 1 <= (n + 1) - p /\ (n + 1) - (k - 1) = q + 1
        BY <1>1, <3>1, <3>3
      <4>2. Run(t, (n + 1) - (k - 1), R[(n + 1) - (k - 1)])
        BY <2>1, <4>1
      <4>3. QED
        BY <4>1, <4>2
    <3> HIDE DEF q
    <3>4. QED
      BY <1>4, <3>2, <3>3
  <2> HIDE DEF G
  <2>2. QED
    BY <1>1, <2>1, UpTo
<1>6. Run(t, p, R[p])
  <2> DEFINE k == (n + 1) - p
  <2>1. k \in 0..n /\ k <= (n + 1) - p /\ (n + 1) - k = p
    BY <1>1
  <2>2. Run(t, (n + 1) - k, R[(n + 1) - k])
    BY <1>5, <2>1
  <2>3. QED
    BY <2>1, <2>2
<1>7. CASE p > n
  <2>1. p \in p..(n + 1) /\ ~(p <= n) /\ \A i \in p..(p - 1) : FALSE
    BY <1>1, <1>7
  <2>2. AfterDigits(t, p) = p
    BY <1>3, <1>7
  <2>3. QED
    BY <2>1, <2>2 DEF Run
<1>8. CASE ~(p > n)
  BY <1>3, <1>6, <1>8
<1>9. QED
  BY <1>7, <1>8

DigitsFrom(t, a, b) == a <= b /\ \A i \in a..b : t[i] \in Digit

IntegerAt(t, a, b) == DigitsFrom(t, a, b) /\ (t[a] = Zero => a = b)

ExponentAt(t, a, b) ==
  /\ a <= b /\ t[a] \in Exponent
  /\ \/ DigitsFrom(t, a + 1, b)
     \/ b > a + 1 /\ t[a + 1] \in {Plus, Minus} /\ DigitsFrom(t, a + 2, b)

\* The first e bytes are a number.
NumberParts(t, e, sign, i, f) ==
  /\ sign < i /\ i <= f
  /\ sign = 1 => t[1] = Minus
  /\ IntegerAt(t, 1 + sign, i)
  /\ f > i => t[i + 1] = Point /\ DigitsFrom(t, i + 2, f)
  /\ f < e => ExponentAt(t, f + 1, e)

NumberAt(t, e) ==
  \E sign \in {0, 1}, i \in 1..e, f \in 1..e : NumberParts(t, e, sign, i, f)

\* A part of a text, by positions in the text.
PartOf(x, s, a, b) ==
  /\ x \in Bytes /\ Len(x) = b - a + 1
  /\ \A j \in 1..(b - a + 1) : x[j] = s[a + j - 1]

LEMMA PartLaws ==
  ASSUME NEW s \in Bytes, NEW a \in Nat, NEW b \in Nat, a > 0, a <= b, b <= Len(s)
  PROVE  PartOf(SubSeq(s, a, b), s, a, b)
<1>1. \A i \in a..b : i \in 1..Len(s)
  BY ByteAt
<1>2. a \in Int /\ b \in Int /\ \A i \in a..b : s[i] \in Byte
  BY <1>1, ByteAt
<1> DEFINE x == SubSeq(s, a, b)
<1>3. /\ x \in Seq(Byte) /\ Len(x) = IF a <= b THEN b - a + 1 ELSE 0
      /\ \A j \in 1..(b - a + 1) : x[j] = s[a + j - 1]
  BY <1>2, SubSeqProperties
<1> HIDE DEF x
<1>4. x \in Seq(Byte) /\ Len(x) = b - a + 1 /\ \A j \in 1..(b - a + 1) : x[j] = s[a + j - 1]
  BY <1>3
<1>5. PartOf(x, s, a, b)
  BY <1>4 DEF PartOf, Bytes
<1>6. QED
  BY <1>5 DEF x

LEMMA NoPart ==
  ASSUME NEW s \in Bytes, NEW a \in Nat, NEW b \in Nat, ~(a <= b)
  PROVE  SubSeq(s, a, b) = <<>>
  BY SubSeqEmpty

LEMMA DigitsOfPart ==
  ASSUME NEW s \in Bytes, NEW a \in Nat, NEW b \in Nat, a > 0, b <= Len(s)
  PROVE  AllDigits(SubSeq(s, a, b)) <=> DigitsFrom(s, a, b)
<1>1. CASE a <= b
  <2> DEFINE x == SubSeq(s, a, b)
  <2>1. PartOf(x, s, a, b)
    BY <1>1, PartLaws
  <2> HIDE DEF x
  <2>2. x # <<>>
    BY <1>1, <2>1, EmptySeq DEF PartOf, Bytes
  <2>3. ASSUME \A j \in 1..Len(x) : x[j] \in Digit, NEW i \in a..b PROVE s[i] \in Digit
    <3> DEFINE j == i - a + 1
    <3>1. j \in 1..(b - a + 1) /\ a + j - 1 = i
      OBVIOUS
    <3> HIDE DEF j
    <3>2. x[j] = s[i] /\ x[j] \in Digit
      BY <2>1, <2>3, <3>1 DEF PartOf
    <3>3. QED
      BY <3>2
  <2>4. ASSUME \A i \in a..b : s[i] \in Digit, NEW j \in 1..Len(x) PROVE x[j] \in Digit
    <3>1. j \in 1..(b - a + 1) /\ a + j - 1 \in a..b
      BY <2>1 DEF PartOf
    <3>2. QED
      BY <2>1, <2>4, <3>1 DEF PartOf
  <2>5. AllDigits(x) <=> DigitsFrom(s, a, b)
    BY <1>1, <2>2, <2>3, <2>4 DEF AllDigits, DigitsFrom
  <2>6. QED
    BY <2>5 DEF x
<1>2. CASE ~(a <= b)
  BY <1>2, NoPart DEF AllDigits, DigitsFrom
<1>3. QED
  BY <1>1, <1>2

LEMMA IntegerOfPart ==
  ASSUME NEW s \in Bytes, NEW a \in Nat, NEW b \in Nat, a > 0, b <= Len(s)
  PROVE  IsInteger(SubSeq(s, a, b)) <=> IntegerAt(s, a, b)
<1>1. AllDigits(SubSeq(s, a, b)) <=> DigitsFrom(s, a, b)
  BY DigitsOfPart
<1>2. CASE a <= b
  <2> DEFINE x == SubSeq(s, a, b)
  <2>1. PartOf(x, s, a, b)
    BY <1>2, PartLaws
  <2> HIDE DEF x
  <2>2. 1 \in 1..(b - a + 1) /\ a + 1 - 1 = a
    BY <1>2
  <2>3. x[1] = s[a] /\ (Len(x) = 1 <=> a = b)
    BY <1>2, <2>1, <2>2 DEF PartOf
  <2>4. IsInteger(x) <=> IntegerAt(s, a, b)
    BY <1>1, <2>3 DEF IsInteger, IntegerAt, x
  <2>5. QED
    BY <2>4 DEF x
<1>3. CASE ~(a <= b)
  BY <1>1, <1>3 DEF IsInteger, IntegerAt, DigitsFrom
<1>4. QED
  BY <1>2, <1>3

LEMMA ExponentOfPart ==
  ASSUME NEW s \in Bytes, NEW a \in Nat, NEW b \in Nat, a > 0, a <= b, b <= Len(s)
  PROVE  IsExponent(SubSeq(s, a, b)) <=> ExponentAt(s, a, b)
<1> DEFINE x == SubSeq(s, a, b)
<1>1. PartOf(x, s, a, b)
  BY PartLaws
<1>2. a \in 1..Len(s) /\ b \in a..Len(s)
  BY ByteAt
<1>3. Tail(x) = SubSeq(s, a + 1, b)
  BY <1>2, HeadTailOfSubSeq DEF Bytes
<1>4. AllDigits(Tail(x)) <=> DigitsFrom(s, a + 1, b)
  <2>1. a + 1 \in Nat /\ a + 1 > 0
    OBVIOUS
  <2>2. AllDigits(SubSeq(s, a + 1, b)) <=> DigitsFrom(s, a + 1, b)
    BY <2>1, DigitsOfPart
  <2>3. QED
    BY <1>3, <2>2
<1>5. Len(x) > 2 => (AllDigits(SubSeq(x, 3, Len(x))) <=> DigitsFrom(s, a + 2, b))
  <2> DEFINE m == 3
             n == Len(x)
             c == a + 2
  <2>1. SUFFICES ASSUME n > 2 PROVE AllDigits(SubSeq(x, m, n)) <=> DigitsFrom(s, c, b)
    OBVIOUS
  <2> HIDE DEF x
  <2>2. /\ a \in 1..Len(s) /\ b \in 1..Len(s) /\ m \in 1..b - a + 1 /\ n \in 1..b - a + 1
        /\ a + m - 1 = c /\ a + n - 1 = b /\ c \in Nat /\ c > 0
    BY <1>1, <1>2, <2>1, ByteAt DEF PartOf
  <2> HIDE DEF m, n, c
  <2>3. SubSeq(SubSeq(s, a, b), m, n) = SubSeq(s, a + m - 1, a + n - 1)
    <3>1. s \in Seq(Byte)
      BY DEF Bytes
    <3>2. QED
      BY <2>2, <3>1, SubSeqOfSubSeq
  <2>4. SubSeq(x, m, n) = SubSeq(s, c, b)
    BY <2>2, <2>3 DEF x
  <2>5. AllDigits(SubSeq(s, c, b)) <=> DigitsFrom(s, c, b)
    BY <2>2, DigitsOfPart
  <2>6. QED
    BY <2>4, <2>5
<1> HIDE DEF x
<1>6. x # <<>> /\ x[1] = s[a] /\ (Len(x) > 2 <=> b > a + 1) /\ (Len(x) > 2 => x[2] = s[a + 1])
  <2>1. 1 \in 1..(b - a + 1) /\ a + 1 - 1 = a /\ a + 2 - 1 = a + 1
    OBVIOUS
  <2>2. x # <<>> /\ x[1] = s[a]
    BY <1>1, <2>1, EmptySeq DEF PartOf
  <2>3. Len(x) = b - a + 1
    BY <1>1 DEF PartOf
  <2>4. Len(x) > 2 <=> b > a + 1
    BY <2>3
  <2>5. ASSUME Len(x) > 2 PROVE x[2] = s[a + 1]
    <3>1. 2 \in 1..(b - a + 1)
      BY <2>3, <2>5
    <3>2. x[2] = s[a + 2 - 1]
      BY <1>1, <3>1 DEF PartOf
    <3>3. QED
      BY <2>1, <3>2
  <2>6. QED
    BY <2>2, <2>4, <2>5
<1>7. IsExponent(x) <=> ExponentAt(s, a, b)
  BY <1>4, <1>5, <1>6, Zenon DEF IsExponent, ExponentAt
<1>8. QED
  BY <1>7 DEF x

LEMMA NumberPartsOf ==
  ASSUME NEW s \in Bytes, NEW sign \in {0, 1}, NEW i \in 1..Len(s), NEW f \in 1..Len(s)
  PROVE  (/\ sign < i /\ i <= f
          /\ sign = 1 => s[1] = Minus
          /\ IsInteger(SubSeq(s, 1 + sign, i))
          /\ f > i => s[i + 1] = Point /\ AllDigits(SubSeq(s, i + 2, f))
          /\ f < Len(s) => IsExponent(SubSeq(s, f + 1, Len(s))))
         <=> NumberParts(s, Len(s), sign, i, f)
<1> DEFINE n == Len(s)
           a == 1 + sign
           c == i + 2
           g == f + 1
<1>1. /\ n \in Nat /\ a \in Nat /\ a > 0 /\ i \in Nat /\ i <= n /\ c \in Nat /\ c > 0
      /\ f \in Nat /\ f <= n /\ g \in Nat /\ g > 0 /\ (f < n => g <= n)
  BY ByteAt
<1> HIDE DEF a, c, g
<1>2. IsInteger(SubSeq(s, a, i)) <=> IntegerAt(s, a, i)
  BY <1>1, IntegerOfPart
<1>3. AllDigits(SubSeq(s, c, f)) <=> DigitsFrom(s, c, f)
  BY <1>1, DigitsOfPart
<1>4. f < n => (IsExponent(SubSeq(s, g, n)) <=> ExponentAt(s, g, n))
  <2>1. SUFFICES ASSUME f < n PROVE IsExponent(SubSeq(s, g, n)) <=> ExponentAt(s, g, n)
    OBVIOUS
  <2>2. n <= Len(s) /\ g <= n
    BY <1>1, <2>1
  <2>3. QED
    BY <1>1, <2>2, ExponentOfPart
<1>5. QED
  BY <1>2, <1>3, <1>4, Zenon DEF NumberParts, a, c, g

LEMMA NumberByPositions ==
  ASSUME NEW s \in Bytes
  PROVE  IsNumber(s) <=> NumberAt(s, Len(s))
  BY NumberPartsOf, Zenon DEF IsNumber, NumberAt

\* Whether the first e bytes are a number depends on no others.
Agree(s, t, e) == \A i \in 1..e : s[i] = t[i]

LEMMA NumberIsLocal ==
  ASSUME NEW s, NEW t, NEW e \in Nat, Agree(s, t, e), NumberAt(s, e)
  PROVE  NumberAt(t, e)
<1>1. PICK sign \in {0, 1}, i \in 1..e, f \in 1..e : NumberParts(s, e, sign, i, f)
  BY DEF NumberAt
<1>2. /\ sign < i /\ i <= f
      /\ sign = 1 => s[1] = Minus
      /\ IntegerAt(s, 1 + sign, i)
      /\ f > i => s[i + 1] = Point /\ DigitsFrom(s, i + 2, f)
      /\ f < e => ExponentAt(s, f + 1, e)
  BY <1>1 DEF NumberParts
<1>3. ASSUME NEW a \in Nat, NEW b \in Nat, a > 0, b <= e, DigitsFrom(s, a, b) PROVE DigitsFrom(t, a, b)
  <2>1. \A j \in a..b : j \in 1..e
    BY <1>3
  <2>2. QED
    BY <1>3, <2>1 DEF DigitsFrom, Agree
<1>4. IntegerAt(t, 1 + sign, i)
  <2> DEFINE a == 1 + sign
  <2>1. a \in Nat /\ a > 0 /\ i \in Nat /\ i <= e
    OBVIOUS
  <2>2. DigitsFrom(s, a, i) /\ (s[a] = Zero => a = i)
    BY <1>2 DEF IntegerAt
  <2> HIDE DEF a
  <2>3. DigitsFrom(t, a, i)
    BY <1>3, <2>1, <2>2
  <2>4. s[a] = t[a]
    <3>1. a \in 1..e
      BY <2>1, <2>2 DEF DigitsFrom
    <3>2. QED
      BY <3>1 DEF Agree
  <2>5. IntegerAt(t, a, i)
    BY <2>2, <2>3, <2>4 DEF IntegerAt
  <2>6. QED
    BY <2>5 DEF a
<1>5. f > i => t[i + 1] = Point /\ DigitsFrom(t, i + 2, f)
  <2> DEFINE a == i + 2
  <2>1. SUFFICES ASSUME f > i PROVE t[i + 1] = Point /\ DigitsFrom(t, a, f)
    OBVIOUS
  <2>2. i + 1 \in 1..e /\ a \in Nat /\ a > 0 /\ f \in Nat /\ f <= e
    BY <2>1
  <2>3. s[i + 1] = Point /\ DigitsFrom(s, a, f)
    BY <1>2, <2>1
  <2> HIDE DEF a
  <2>4. QED
    BY <1>3, <2>2, <2>3 DEF Agree
<1>6. f < e => ExponentAt(t, f + 1, e)
  <2> DEFINE a == f + 1
             b == a + 1
             c == a + 2
  <2>1. SUFFICES ASSUME f < e PROVE ExponentAt(t, a, e)
    OBVIOUS
  <2>2. /\ a \in 1..e /\ b \in Nat /\ b > 0 /\ c \in Nat /\ c > 0 /\ e <= e /\ a <= e
        /\ (e > b => b \in 1..e)
    BY <2>1
  <2>3. ExponentAt(s, a, e)
    BY <1>2, <2>1
  <2>4. /\ s[a] \in Exponent
        /\ \/ DigitsFrom(s, b, e)
           \/ e > b /\ s[b] \in {Plus, Minus} /\ DigitsFrom(s, c, e)
    BY <2>3 DEF ExponentAt
  <2> HIDE DEF a, b, c
  <2>5. DigitsFrom(s, b, e) => DigitsFrom(t, b, e)
    BY <1>3, <2>2
  <2>6. DigitsFrom(s, c, e) => DigitsFrom(t, c, e)
    BY <1>3, <2>2
  <2>7. t[a] = s[a] /\ (e > b => t[b] = s[b])
    BY <2>2 DEF Agree
  <2>8. /\ t[a] \in Exponent
        /\ \/ DigitsFrom(t, b, e)
           \/ e > b /\ t[b] \in {Plus, Minus} /\ DigitsFrom(t, c, e)
    BY <2>4, <2>5, <2>6, <2>7, Zenon
  <2>9. QED
    BY <2>2, <2>8 DEF ExponentAt, b, c
<1>7. sign = 1 => t[1] = Minus
  <2>1. 1 \in 1..e
    OBVIOUS
  <2>2. QED
    BY <1>2, <2>1 DEF Agree
<1>8. NumberParts(t, e, sign, i, f)
  BY <1>2, <1>4, <1>5, <1>6, <1>7, Zenon DEF NumberParts
<1>9. QED
  BY <1>8 DEF NumberAt

\* A prefix is a number by the same positions.
LEMMA NumberOfPrefix ==
  ASSUME NEW t \in Bytes, NEW e \in 0..Len(t)
  PROVE  IsNumber(SubSeq(t, 1, e)) <=> NumberAt(t, e)
<1>1. CASE e = 0
  <2>1. SubSeq(t, 1, e) = <<>>
    BY <1>1, NoPart
  <2>2. ~NumberAt(t, e)
    <3>1. \A i \in 1..e : FALSE
      BY <1>1
    <3>2. QED
      BY <3>1, Zenon DEF NumberAt
  <2>3. ~IsNumber(<<>>)
    <3>1. \A i \in 1..Len(<<>>) : FALSE
      BY EmptySeq
    <3>2. QED
      BY <3>1, Zenon DEF IsNumber
  <2>4. QED
    BY <2>1, <2>2, <2>3
<1>2. CASE e # 0
  <2> DEFINE x == SubSeq(t, 1, e)
  <2>1. e \in Nat /\ 1 \in Nat /\ 1 > 0 /\ 1 <= e /\ e <= Len(t) /\ e - 1 + 1 = e
        /\ \A i \in 1..e : 1 + i - 1 = i
    BY <1>2, ByteAt
  <2>2. PartOf(x, t, 1, e)
    BY <2>1, PartLaws, Zenon
  <2> HIDE DEF x
  <2>3. x \in Bytes /\ Len(x) = e /\ Agree(x, t, e) /\ Agree(t, x, e)
    BY <2>1, <2>2 DEF PartOf, Agree
  <2>4. IsNumber(x) <=> NumberAt(x, e)
    BY <2>3, NumberByPositions
  <2>5. NumberAt(x, e) <=> NumberAt(t, e)
    BY <2>1, <2>3, NumberIsLocal
  <2>6. QED
    BY <2>4, <2>5 DEF x
<1>3. QED
  BY <1>1, <1>2

LEMMA NumberBytesDiffer ==
  /\ Point \notin Digit /\ Minus \notin Digit
  /\ \A c \in Exponent : c \notin Digit /\ c # Point
  /\ \A c \in {Plus, Minus} : c \notin Digit
  BY DEF Point, Minus, Plus, Digit, Exponent

LEMMA RunCovers ==
  ASSUME NEW t, NEW p \in Nat, NEW e, NEW b \in Nat, Len(t) \in Nat,
         Run(t, p, e), DigitsFrom(t, p, b), b <= Len(t)
  PROVE  /\ b + 1 <= e /\ e <= Len(t) + 1
         /\ b + 1 <= Len(t) /\ t[b + 1] \notin Digit => e = b + 1
<1>1. /\ e \in p..(Len(t) + 1) /\ (e <= Len(t) => t[e] \notin Digit)
      /\ \A i \in p..(e - 1) : t[i] \in Digit
  BY DEF Run
<1>2. p <= b /\ \A i \in p..b : t[i] \in Digit
  BY DEF DigitsFrom
<1>3. b + 1 <= e
  <2>1. SUFFICES ASSUME e <= b PROVE FALSE
    BY <1>1
  <2>2. e \in p..b /\ e <= Len(t)
    BY <1>1, <2>1
  <2>3. QED
    BY <1>1, <1>2, <2>2
<1>4. ASSUME b + 1 <= Len(t), t[b + 1] \notin Digit PROVE e = b + 1
  <2>1. SUFFICES ASSUME b + 1 < e PROVE FALSE
    BY <1>1, <1>3
  <2>2. b + 1 \in p..(e - 1)
    BY <1>1, <1>2, <2>1
  <2>3. QED
    BY <1>1, <1>4, <2>2
<1>5. QED
  BY <1>1, <1>3, <1>4

\* The marks ReadNumber finds in a text.
Scan(t, int, point, exp, sign, end) ==
  /\ int = IF Has(t, 1, {Minus}) THEN 2 ELSE 1
  /\ Run(t, int, point)
  /\ IF Has(t, point, {Point}) THEN Run(t, point + 1, exp) ELSE exp = point
  /\ sign = IF Has(t, exp + 1, {Plus, Minus}) THEN exp + 2 ELSE exp + 1
  /\ IF Has(t, exp, Exponent) THEN Run(t, sign, end) ELSE end = exp

Refused(t, int, point, exp, sign, end) ==
  \/ point = int
  \/ point - int > 1 /\ t[int] = Zero
  \/ Has(t, point, {Point}) /\ exp = point + 1
  \/ Has(t, exp, Exponent) /\ end = sign

Outcome(t, int, point, exp, sign, end) ==
  ReadNumber(t, 1) = IF Refused(t, int, point, exp, sign, end) THEN Failure
                     ELSE Taken(SubSeq(t, 1, end - 1), end)

LEMMA NumberScan ==
  ASSUME NEW t \in Bytes
  PROVE  \E int, point, exp, sign, end :
           Scan(t, int, point, exp, sign, end) /\ Outcome(t, int, point, exp, sign, end)
<1> DEFINE int   == IF Has(t, 1, {Minus}) THEN 1 + 1 ELSE 1
           point == AfterDigits(t, int)
           exp   == IF Has(t, point, {Point}) THEN AfterDigits(t, point + 1) ELSE point
           sign  == IF Has(t, exp + 1, {Plus, Minus}) THEN exp + 2 ELSE exp + 1
           end   == IF Has(t, exp, Exponent) THEN AfterDigits(t, sign) ELSE exp
<1>1. Outcome(t, int, point, exp, sign, end)
  BY Zenon DEF Outcome, Refused, ReadNumber
<1>2. Len(t) \in Nat
  BY ByteAt
<1>3. int = (IF Has(t, 1, {Minus}) THEN 2 ELSE 1) /\ int \in 1..(Len(t) + 1)
  BY <1>2 DEF Has
<1>4. point = AfterDigits(t, int)
  OBVIOUS
<1>5. exp = IF Has(t, point, {Point}) THEN AfterDigits(t, point + 1) ELSE point
  OBVIOUS
<1>6. sign = IF Has(t, exp + 1, {Plus, Minus}) THEN exp + 2 ELSE exp + 1
  OBVIOUS
<1>7. end = IF Has(t, exp, Exponent) THEN AfterDigits(t, sign) ELSE exp
  OBVIOUS
<1> HIDE DEF int, point, exp, sign, end
<1>8. Run(t, int, point)
  BY <1>3, <1>4, AfterDigitsIsRun
<1>9. point \in 1..(Len(t) + 1)
  BY <1>2, <1>3, <1>8 DEF Run
<1>10. /\ IF Has(t, point, {Point}) THEN Run(t, point + 1, exp) ELSE exp = point
       /\ exp \in 1..(Len(t) + 1)
  <2>1. CASE Has(t, point, {Point})
    <3>1. point + 1 \in 1..(Len(t) + 1)
      BY <1>2, <1>9, <2>1 DEF Has
    <3>2. Run(t, point + 1, exp)
      BY <1>5, <2>1, <3>1, AfterDigitsIsRun
    <3>3. exp \in 1..(Len(t) + 1)
      BY <1>2, <3>1, <3>2 DEF Run
    <3>4. QED
      BY <2>1, <3>2, <3>3
  <2>2. CASE ~Has(t, point, {Point})
    BY <1>5, <1>9, <2>2
  <2>3. QED
    BY <2>1, <2>2
<1>11. IF Has(t, exp, Exponent) THEN Run(t, sign, end) ELSE end = exp
  <2>1. CASE Has(t, exp, Exponent)
    <3>1. sign \in 1..(Len(t) + 1)
      BY <1>2, <1>6, <1>10, <2>1 DEF Has
    <3>2. Run(t, sign, end)
      BY <1>7, <2>1, <3>1, AfterDigitsIsRun
    <3>3. QED
      BY <2>1, <3>2
  <2>2. CASE ~Has(t, exp, Exponent)
    BY <1>7, <2>2
  <2>3. QED
    BY <2>1, <2>2
<1>12. Scan(t, int, point, exp, sign, end)
  BY <1>3, <1>6, <1>8, <1>10, <1>11, Zenon DEF Scan
<1>13. QED
  BY <1>1, <1>12

\* Where the marks stand.
LEMMA ScanOrder ==
  ASSUME NEW t \in Bytes, NEW int, NEW point, NEW exp, NEW sign, NEW end,
         Scan(t, int, point, exp, sign, end)
  PROVE  /\ int \in {1, 2} /\ int <= point /\ point <= exp /\ exp <= end /\ end <= Len(t) + 1
         /\ point \in Nat /\ exp \in Nat /\ end \in Nat /\ sign \in Nat
         /\ exp < sign
         /\ Has(t, exp, Exponent) => sign <= end
         /\ Has(t, point, {Point}) => point + 1 <= exp
<1>1. Len(t) \in Nat
  BY ByteAt
<1>2. int \in {1, 2}
  BY DEF Scan
<1>3. point \in int..(Len(t) + 1)
  BY DEF Scan, Run
<1>4. /\ exp \in point..(Len(t) + 1)
      /\ Has(t, point, {Point}) => point + 1 <= exp
  <2>1. CASE Has(t, point, {Point})
    <3>1. exp \in (point + 1)..(Len(t) + 1)
      BY <2>1 DEF Scan, Run
    <3>2. QED
      BY <1>1, <1>2, <1>3, <3>1
  <2>2. CASE ~Has(t, point, {Point})
    <3>1. exp = point
      BY <2>2 DEF Scan
    <3>2. QED
      BY <1>1, <1>2, <1>3, <2>2, <3>1
  <2>3. QED
    BY <2>1, <2>2
<1>5. sign = exp + 1 \/ sign = exp + 2
  BY DEF Scan
<1>6. /\ end \in exp..(Len(t) + 1)
      /\ Has(t, exp, Exponent) => sign <= end
  <2>1. CASE Has(t, exp, Exponent)
    <3>1. end \in sign..(Len(t) + 1)
      BY <2>1 DEF Scan, Run
    <3>2. QED
      BY <1>1, <1>2, <1>3, <1>4, <1>5, <3>1
  <2>2. CASE ~Has(t, exp, Exponent)
    <3>1. end = exp
      BY <2>2 DEF Scan
    <3>2. QED
      BY <1>1, <1>2, <1>3, <1>4, <2>2, <3>1
  <2>3. QED
    BY <2>1, <2>2
<1>7. QED
  BY <1>1, <1>2, <1>3, <1>4, <1>5, <1>6

\* What is taken is a number.
LEMMA TakenIsNumber ==
  ASSUME NEW t \in Bytes, NEW int, NEW point, NEW exp, NEW sign, NEW end,
         Scan(t, int, point, exp, sign, end), ~Refused(t, int, point, exp, sign, end)
  PROVE  NumberAt(t, end - 1) /\ end \in Nat /\ end >= 1 /\ end <= Len(t) + 1
<1> DEFINE s == int - 1
           i == point - 1
           f == exp - 1
           e == end - 1
<1>1. /\ int \in {1, 2} /\ int <= point /\ point <= exp /\ exp <= end /\ end <= Len(t) + 1
      /\ point \in Nat /\ exp \in Nat /\ end \in Nat /\ sign \in Nat
      /\ Len(t) \in Nat
  BY ScanOrder, ByteAt
<1>2. /\ point # int
      /\ ~(point - int > 1 /\ t[int] = Zero)
      /\ ~(Has(t, point, {Point}) /\ exp = point + 1)
      /\ ~(Has(t, exp, Exponent) /\ end = sign)
  BY DEF Refused
<1>3. /\ s \in {0, 1} /\ i \in 1..e /\ f \in 1..e /\ s < i /\ i <= f
      /\ 1 + s = int /\ i + 1 = point /\ i + 2 = point + 1 /\ f + 1 = exp /\ e \in Nat
  BY <1>1, <1>2
<1>4. s = 1 => t[1] = Minus
  <2>1. SUFFICES ASSUME int = 2 PROVE t[1] = Minus
    BY <1>3
  <2>2. Has(t, 1, {Minus})
    BY <2>1 DEF Scan
  <2>3. QED
    BY <2>2 DEF Has
<1>5. IntegerAt(t, int, i)
  <2>1. int <= i /\ \A j \in int..i : t[j] \in Digit
    <3>1. Run(t, int, point)
      BY DEF Scan
    <3>2. \A j \in int..i : t[j] \in Digit
      BY <3>1 DEF Run
    <3>3. int <= i
      BY <1>1, <1>2
    <3>4. QED
      BY <3>2, <3>3
  <2>2. t[int] = Zero => int = i
    BY <1>1, <1>2
  <2>3. QED
    BY <2>1, <2>2 DEF IntegerAt, DigitsFrom
<1>6. f > i => t[point] = Point /\ DigitsFrom(t, point + 1, f)
  <2>1. SUFFICES ASSUME exp # point PROVE t[point] = Point /\ DigitsFrom(t, point + 1, f)
    BY <1>1
  <2>2. Has(t, point, {Point}) /\ Run(t, point + 1, exp)
    BY <2>1 DEF Scan
  <2>3. t[point] = Point
    BY <2>2 DEF Has
  <2>4. point + 1 <= f /\ \A j \in (point + 1)..f : t[j] \in Digit
    BY <1>1, <1>2, <2>2 DEF Run
  <2>5. QED
    BY <2>3, <2>4 DEF DigitsFrom
<1>7. f < e => ExponentAt(t, exp, e)
  <2>1. SUFFICES ASSUME end # exp PROVE ExponentAt(t, exp, e)
    BY <1>1
  <2>2. Has(t, exp, Exponent) /\ Run(t, sign, end)
    BY <2>1 DEF Scan
  <2>3. t[exp] \in Exponent /\ exp <= e
    BY <1>1, <2>1, <2>2 DEF Has
  <2>4. sign <= e /\ \A j \in sign..e : t[j] \in Digit
    BY <1>1, <1>2, <2>2 DEF Run
  <2>5. DigitsFrom(t, sign, e)
    BY <2>4 DEF DigitsFrom
  <2>6. CASE sign = exp + 1
    BY <2>3, <2>5, <2>6 DEF ExponentAt
  <2>7. CASE sign # exp + 1
    <3>1. Has(t, exp + 1, {Plus, Minus}) /\ sign = exp + 2
      BY <2>7 DEF Scan
    <3>2. t[exp + 1] \in {Plus, Minus} /\ e > exp + 1
      BY <1>1, <2>4, <3>1 DEF Has
    <3>3. QED
      BY <2>3, <2>5, <3>1, <3>2 DEF ExponentAt
  <2>8. QED
    BY <2>6, <2>7
<1>8. NumberParts(t, e, s, i, f)
  BY <1>3, <1>4, <1>5, <1>6, <1>7 DEF NumberParts
<1>9. NumberAt(t, e)
  BY <1>3, <1>8 DEF NumberAt
<1>10. QED
  BY <1>1, <1>2, <1>9

\* An exponent that stands behind the mark is covered.
LEMMA ExponentEndsBefore ==
  ASSUME NEW t \in Bytes, NEW int, NEW point, NEW exp, NEW sign, NEW end,
         Scan(t, int, point, exp, sign, end), NEW e \in 0..Len(t), ExponentAt(t, exp, e)
  PROVE  sign <= e /\ e < end
<1>1. exp \in Nat /\ exp >= 1 /\ end \in Nat /\ sign \in Nat /\ Len(t) \in Nat
  BY ScanOrder, ByteAt
<1>2. /\ exp <= e /\ t[exp] \in Exponent
      /\ \/ DigitsFrom(t, exp + 1, e)
         \/ e > exp + 1 /\ t[exp + 1] \in {Plus, Minus} /\ DigitsFrom(t, exp + 2, e)
  BY DEF ExponentAt
<1>3. Has(t, exp, Exponent)
  BY <1>1, <1>2 DEF Has
<1>4. Run(t, sign, end) /\ sign = IF Has(t, exp + 1, {Plus, Minus}) THEN exp + 2 ELSE exp + 1
  BY <1>3 DEF Scan
<1>5. DigitsFrom(t, sign, e)
  <2>1. CASE DigitsFrom(t, exp + 1, e)
    <3>1. t[exp + 1] \in Digit
      BY <1>1, <2>1 DEF DigitsFrom
    <3>2. ~Has(t, exp + 1, {Plus, Minus})
      BY <3>1, NumberBytesDiffer DEF Has
    <3>3. QED
      BY <1>4, <2>1, <3>2
  <2>2. CASE e > exp + 1 /\ t[exp + 1] \in {Plus, Minus} /\ DigitsFrom(t, exp + 2, e)
    <3>1. Has(t, exp + 1, {Plus, Minus})
      BY <1>1, <2>2 DEF Has
    <3>2. QED
      BY <1>4, <2>2, <3>1
  <2>3. QED
    BY <1>2, <2>1, <2>2
<1>6. sign <= e
  BY <1>5 DEF DigitsFrom
<1>7. e + 1 <= end
  BY <1>1, <1>4, <1>5, RunCovers
<1>8. QED
  BY <1>1, <1>6, <1>7

\* The marks stand behind every prefix that is a number, and where such a
\* prefix goes on they stand in it.
LEMMA NumberEndsBefore ==
  ASSUME NEW t \in Bytes, NEW int, NEW point, NEW exp, NEW sign, NEW end,
         Scan(t, int, point, exp, sign, end), NEW e \in 0..Len(t), NumberAt(t, e)
  PROVE  e < end /\ (e = Len(t) => ~Refused(t, int, point, exp, sign, end))
<1> DEFINE n == Len(t)
<1>1. /\ int \in {1, 2} /\ int <= point /\ point <= exp /\ exp <= end /\ end <= n + 1
      /\ point \in Nat /\ exp \in Nat /\ end \in Nat /\ sign \in Nat /\ n \in Nat
  BY ScanOrder, ByteAt
<1>2. PICK s \in {0, 1}, i \in 1..e, f \in 1..e : NumberParts(t, e, s, i, f)
  BY DEF NumberAt
<1>3. /\ s < i /\ i <= f
      /\ s = 1 => t[1] = Minus
      /\ IntegerAt(t, 1 + s, i)
      /\ f > i => t[i + 1] = Point /\ DigitsFrom(t, i + 2, f)
      /\ f < e => ExponentAt(t, f + 1, e)
  BY <1>2 DEF NumberParts
<1>4. 1 <= n /\ i <= n /\ f <= n /\ i \in Nat /\ f \in Nat /\ s \in Nat
  BY <1>1
<1>5. DigitsFrom(t, 1 + s, i) /\ (t[1 + s] = Zero => 1 + s = i)
  BY <1>3 DEF IntegerAt
<1>6. int = 1 + s
  <2>1. t[1 + s] \in Digit
    BY <1>4, <1>5 DEF DigitsFrom
  <2>2. CASE s = 1
    <3>1. Has(t, 1, {Minus})
      BY <1>3, <1>4, <2>2 DEF Has
    <3>2. QED
      BY <2>2, <3>1 DEF Scan
  <2>3. CASE s = 0
    <3>1. ~Has(t, 1, {Minus})
      BY <2>1, <2>3, NumberBytesDiffer DEF Has
    <3>2. QED
      BY <2>3, <3>1 DEF Scan
  <2>4. QED
    BY <2>2, <2>3
<1>7. /\ i + 1 <= point
      /\ i + 1 <= n /\ t[i + 1] \notin Digit => point = i + 1
  <2>1. Run(t, int, point) /\ int \in Nat /\ DigitsFrom(t, int, i)
    BY <1>1, <1>5, <1>6 DEF Scan
  <2>2. QED
    BY <1>1, <1>4, <2>1, RunCovers
<1>8. CASE f > i
  <2>1. t[i + 1] = Point /\ DigitsFrom(t, i + 2, f) /\ i + 2 <= f
    BY <1>3, <1>8 DEF DigitsFrom
  <2>2. point = i + 1
    BY <1>1, <1>4, <1>7, <2>1, NumberBytesDiffer
  <2>3. Has(t, point, {Point}) /\ point + 1 = i + 2
    BY <1>1, <1>4, <2>1, <2>2 DEF Has
  <2>4. Run(t, point + 1, exp) /\ point + 1 \in Nat /\ DigitsFrom(t, point + 1, f)
    BY <1>1, <2>1, <2>3 DEF Scan
  <2>5. f + 1 <= exp /\ (f + 1 <= n /\ t[f + 1] \notin Digit => exp = f + 1)
    BY <1>1, <1>4, <2>4, RunCovers
  <2>6. ~(point - int > 1 /\ t[int] = Zero) /\ point # int
    BY <1>1, <1>3, <1>5, <1>6, <1>7, <2>2
  <2>7. exp # point + 1
    BY <1>1, <1>4, <2>1, <2>3, <2>5
  <2>8. CASE f = e
    <3>1. e < end
      BY <1>1, <2>5, <2>8
    <3>2. e = n => ~Has(t, exp, Exponent)
      BY <1>1, <2>5, <2>8 DEF Has
    <3>3. QED
      BY <2>6, <2>7, <3>1, <3>2 DEF Refused
  <2>9. CASE f < e
    <3>1. ExponentAt(t, f + 1, e)
      BY <1>3, <2>9
    <3>2. f + 1 <= n /\ t[f + 1] \in Exponent
      BY <1>1, <2>9, <3>1 DEF ExponentAt
    <3>3. exp = f + 1
      BY <2>5, <3>2, NumberBytesDiffer
    <3>4. exp \in Nat /\ ExponentAt(t, exp, e)
      BY <1>1, <3>1, <3>3
    <3>5. sign <= e /\ e < end
      BY <3>4, ExponentEndsBefore
    <3>6. end # sign \/ e # n
      BY <1>1, <3>5
    <3>7. QED
      BY <2>6, <2>7, <3>5, <3>6 DEF Refused
  <2>10. QED
    BY <2>8, <2>9
<1>9. CASE f = i /\ f < e
  <2>1. ExponentAt(t, f + 1, e)
    BY <1>3, <1>9
  <2>2. i + 1 <= n /\ t[i + 1] \in Exponent
    BY <1>1, <1>9, <2>1 DEF ExponentAt
  <2>3. point = i + 1 /\ t[point] # Point
    BY <1>7, <2>2, NumberBytesDiffer
  <2>4. ~Has(t, point, {Point})
    BY <2>3 DEF Has
  <2>5. exp = point
    BY <2>4 DEF Scan
  <2>6. ExponentAt(t, exp, e)
    BY <1>9, <2>1, <2>3, <2>5
  <2>7. sign <= e /\ e < end
    BY <2>6, ExponentEndsBefore
  <2>8. ~(point - int > 1 /\ t[int] = Zero) /\ point # int
    BY <1>1, <1>3, <1>5, <1>6, <1>7, <2>3
  <2>9. end # sign
    BY <1>1, <2>7
  <2>10. QED
    BY <2>4, <2>7, <2>8, <2>9 DEF Refused
<1>10. CASE f = i /\ f = e
  <2>1. e < end
    BY <1>1, <1>7, <1>10
  <2>2. ASSUME e = n PROVE ~Refused(t, int, point, exp, sign, end)
    <3>1. point = n + 1 /\ exp = n + 1 /\ point = i + 1
      BY <1>1, <1>7, <1>10, <2>2
    <3>2. ~Has(t, point, {Point}) /\ ~Has(t, exp, Exponent)
      BY <1>1, <3>1 DEF Has
    <3>3. ~(point - int > 1 /\ t[int] = Zero) /\ point # int
      BY <1>1, <1>3, <1>5, <1>6, <3>1
    <3>4. QED
      BY <3>2, <3>3 DEF Refused
  <2>3. QED
    BY <2>1, <2>2
<1>11. QED
  BY <1>1, <1>3, <1>8, <1>9, <1>10

LEMMA NumbersHold ==
  ASSUME CharactersTyped
  PROVE  NumbersFollowTheGrammar
<1> DEFINE t == characters
           n == Len(t)
           number == ReadNumber(t, 1)
<1>1. t \in Bytes /\ n \in Nat
  BY ByteAt DEF CharactersTyped
<1> HIDE DEF t
<1>2. PICK int, point, exp, sign, end :
        Scan(t, int, point, exp, sign, end) /\ Outcome(t, int, point, exp, sign, end)
  BY <1>1, NumberScan
<1> DEFINE bad == Refused(t, int, point, exp, sign, end)
<1>3. number = IF bad THEN Failure ELSE Taken(SubSeq(t, 1, end - 1), end)
  BY <1>2 DEF Outcome
<1>4. ~bad => NumberAt(t, end - 1) /\ end \in Nat /\ end >= 1 /\ end <= n + 1
  BY <1>1, <1>2, TakenIsNumber
<1>5. \A e \in 0..n : NumberAt(t, e) => e < end /\ (e = n => ~bad)
  BY <1>1, <1>2, NumberEndsBefore
<1>6. end \in Nat /\ end <= n + 1
  BY <1>1, <1>2, ScanOrder
<1> HIDE DEF bad, number
<1>7. \A e \in 0..n : IsNumber(SubSeq(t, 1, e)) <=> NumberAt(t, e)
  BY <1>1, NumberOfPrefix
<1>8. n \in 0..n /\ SubSeq(t, 1, n) = t
  BY <1>1, SubSeqFull DEF Bytes
<1>9. ASSUME IsNumber(t) PROVE number = Taken(t, n + 1)
  <2>1. NumberAt(t, n)
    BY <1>7, <1>8, <1>9
  <2>2. n < end /\ ~bad
    BY <1>5, <1>8, <2>1
  <2>3. end = n + 1 /\ end - 1 = n
    BY <1>1, <1>6, <2>2
  <2>4. number = Taken(SubSeq(t, 1, n), n + 1)
    BY <1>3, <2>2, <2>3
  <2>5. QED
    BY <1>8, <2>4
<1>10. ASSUME number = Taken(t, n + 1) PROVE IsNumber(t)
  <2>1. number.ok /\ number.end = n + 1
    BY <1>10, ResultLaws
  <2>2. ~bad /\ end = n + 1
    BY <1>3, <2>1, ResultLaws
  <2>3. end - 1 = n
    BY <1>1, <2>2
  <2>4. NumberAt(t, n)
    BY <1>4, <2>2, <2>3
  <2>5. QED
    BY <1>7, <1>8, <2>4
<1>11. ASSUME number.ok
       PROVE  /\ IsNumber(SubSeq(t, 1, number.end - 1))
              /\ \A e \in (number.end)..n : ~IsNumber(SubSeq(t, 1, e))
  <2>1. ~bad /\ number.end = end
    BY <1>3, <1>11, ResultLaws
  <2>2. NumberAt(t, end - 1) /\ end - 1 \in 0..n
    BY <1>1, <1>4, <2>1
  <2>3. IsNumber(SubSeq(t, 1, end - 1))
    BY <1>7, <2>2
  <2>4. ASSUME NEW e \in end..n PROVE ~IsNumber(SubSeq(t, 1, e))
    <3>1. e \in 0..n /\ ~(e < end)
      BY <1>1, <1>6
    <3>2. QED
      BY <1>5, <1>7, <3>1
  <2>5. QED
    BY <2>1, <2>3, <2>4
<1>12. QED
  BY <1>9, <1>10, <1>11, Zenon DEF NumbersFollowTheGrammar, number, t

\* A number token is taken exactly when it is in the grammar of RFC 8259, and
\* then the longest one, whatever the bytes and however many.
THEOREM NumbersFollowTheGrammarHolds == CharactersSpec => []NumbersFollowTheGrammar
<1>1. CharactersTyped => NumbersFollowTheGrammar
  BY NumbersHold
<1>2. QED
  BY <1>1, CharactersInvariant, PTL
-----------------------------------------------------------------------------
(***************************************************************************)
(* Texts put together.                                                     *)
(***************************************************************************)
PrefixAt(f, ss, i) == IF i = 1 THEN ss[i] ELSE f[i - 1] \o ss[i]
Flat(ss) == CHOOSE f : f = [i \in 1..Len(ss) |-> PrefixAt(f, ss, i)]

LEMMA FlattenIsFlat ==
  ASSUME NEW ss
  PROVE  FlattenSeq(ss) = IF Len(ss) = 0 THEN ss ELSE Flat(ss)[Len(ss)]
  BY Zenon DEF FlattenSeq, Flat, PrefixAt

LEMMA FlatRecursion ==
  ASSUME NEW A, NEW ss \in Seq(Seq(A))
  PROVE  /\ Flat(ss) \in [1..Len(ss) -> Seq(A)]
         /\ \A i \in 1..Len(ss) : Flat(ss)[i] = PrefixAt(Flat(ss), ss, i)
<1> DEFINE n == Len(ss)
           S == 1..n
           V == Seq(A)
           mu == [i \in S |-> i]
           step == [i \in S |-> [g \in [S -> V] |-> PrefixAt(g, ss, i)]]
           F(f) == f = [i \in S |-> PrefixAt(f, ss, i)]
           R == Flat(ss)
<1>1. n \in Nat /\ \A i \in S : ss[i] \in V
  BY LenProperties, ElementOfSeq
<1>2. R = CHOOSE f : F(f)
  BY Zenon DEF Flat
<1>4. ASSUME NEW i \in S, NEW g \in [S -> V] PROVE PrefixAt(g, ss, i) \in V
  <2>1. CASE i = 1
    BY <1>1, <2>1 DEF PrefixAt
  <2>2. CASE i # 1
    <3>1. i - 1 \in S
      BY <1>1, <2>2
    <3>2. g[i - 1] \in V /\ ss[i] \in V
      BY <1>1, <3>1
    <3>3. g[i - 1] \o ss[i] \in V
      BY <3>2, ConcatProperties
    <3>4. QED
      BY <2>2, <3>3 DEF PrefixAt
  <2>3. QED
    BY <2>1, <2>2
<1>5. mu \in [S -> 0..n]
  BY <1>1
<1>6. ASSUME NEW i \in S, NEW g \in [S -> V], NEW h \in [S -> V],
             \A j \in S : mu[j] < mu[i] => g[j] = h[j]
      PROVE  PrefixAt(g, ss, i) = PrefixAt(h, ss, i)
  <2>1. CASE i = 1
    BY <2>1 DEF PrefixAt
  <2>2. CASE i # 1
    <3>1. i - 1 \in S /\ mu[i - 1] < mu[i]
      BY <1>1, <2>2
    <3>2. g[i - 1] = h[i - 1]
      BY <1>6, <3>1
    <3>3. QED
      BY <3>2 DEF PrefixAt
  <2>3. QED
    BY <2>1, <2>2
<1> HIDE DEF S, mu, V
<1>7. step \in [S -> [[S -> V] -> V]]
  BY <1>4
<1>8. \A i \in S : \A g \in [S -> V] : step[i][g] = PrefixAt(g, ss, i)
  OBVIOUS
<1> HIDE DEF step
<1>9. DependsOnSmaller(step, S, mu, V)
  <2>1. ASSUME NEW i \in S, NEW g \in [S -> V], NEW h \in [S -> V],
               \A j \in S : mu[j] < mu[i] => g[j] = h[j]
        PROVE  step[i][g] = step[i][h]
    <3>1. PrefixAt(g, ss, i) = PrefixAt(h, ss, i)
      BY <1>6, <2>1
    <3>2. QED
      BY <1>8, <3>1
  <2>2. QED
    BY <2>1 DEF DependsOnSmaller
<1>10. <<>> \in V
  BY EmptySeq DEF V
<1>11. PICK f \in [S -> V] : Solution(f, step, S)
  BY <1>1, <1>5, <1>7, <1>9, <1>10, RecursionHasSolution, Zenon
<1>12. F(f)
  <2>1. \A i \in S : f[i] = PrefixAt(f, ss, i)
    BY <1>8, <1>11 DEF Solution
  <2>2. QED
    BY <2>1
<1>13. F(R)
  <2> HIDE DEF F, R
  <2>1. QED
    BY <1>2, <1>12
<1> HIDE DEF R
<1>14. DOMAIN R = S /\ \A i \in S : R[i] = PrefixAt(R, ss, i)
  BY <1>13
<1>15. \A i \in 0..n : i \in {k \in 0..n : k \in S => R[k] \in V}
  <2> DEFINE G == {k \in 0..n : k \in S => R[k] \in V}
  <2>1. ASSUME NEW k \in 0..n, \A j \in 0..(k - 1) : j \in G PROVE k \in G
    <3>1. SUFFICES ASSUME k \in S PROVE R[k] \in V
      OBVIOUS
    <3>2. CASE k = 1
      <4>1. R[k] = ss[k]
        BY <1>14, <3>1, <3>2 DEF PrefixAt
      <4>2. QED
        BY <1>1, <3>1, <4>1
    <3>3. CASE k # 1
      <4>1. k - 1 \in 0..(k - 1) /\ k - 1 \in S
        BY <1>1, <3>1, <3>3 DEF S
      <4>2. R[k - 1] \in V
        BY <2>1, <4>1
      <4>3. R[k - 1] \o ss[k] \in V
        BY <1>1, <3>1, <4>2, ConcatProperties DEF V
      <4>4. QED
        BY <1>14, <3>1, <3>3, <4>3 DEF PrefixAt
    <3>4. QED
      BY <3>2, <3>3
  <2> HIDE DEF G
  <2>2. QED
    BY <1>1, <2>1, UpTo DEF G
<1>16. \A i \in S : R[i] \in V
  BY <1>1, <1>15 DEF S
<1>17. R \in [S -> V]
  <2>1. R = [i \in S |-> R[i]]
    BY <1>13
  <2>2. QED
    BY <1>16, <2>1
<1>18. QED
  BY <1>14, <1>17 DEF R, S, V

LEMMA FlattenLaws ==
  ASSUME NEW A, NEW ss \in Seq(Seq(A))
  PROVE  /\ FlattenSeq(ss) \in Seq(A)
         /\ \A t \in Seq(A) : FlattenSeq(Append(ss, t)) = FlattenSeq(ss) \o t
         /\ FlattenSeq(<<>>) = <<>>
<1>1. Len(ss) \in Nat /\ (Len(ss) = 0 <=> ss = <<>>)
  BY LenProperties, EmptySeq
<1>2. \A x : Len(x) = 0 => FlattenSeq(x) = x
  BY FlattenIsFlat
<1>3. FlattenSeq(<<>>) = <<>>
  BY <1>2, EmptySeq
<1>4. FlattenSeq(ss) \in Seq(A)
  <2>1. CASE Len(ss) = 0
    BY <1>1, <1>3, <2>1, EmptySeq
  <2>2. CASE Len(ss) # 0
    <3>1. Len(ss) \in 1..Len(ss)
      BY <1>1, <2>2
    <3>2. Flat(ss)[Len(ss)] \in Seq(A)
      BY <3>1, FlatRecursion
    <3>3. QED
      BY <2>2, <3>2, FlattenIsFlat
  <2>3. QED
    BY <2>1, <2>2
<1>5. ASSUME NEW t \in Seq(A) PROVE FlattenSeq(Append(ss, t)) = FlattenSeq(ss) \o t
  <2> DEFINE n == Len(ss)
             tt == Append(ss, t)
  <2>1. /\ tt \in Seq(Seq(A)) /\ Len(tt) = n + 1
        /\ \A i \in 1..n : tt[i] = ss[i]
        /\ tt[n + 1] = t
    BY AppendProperties
  <2> HIDE DEF tt
  <2>2. /\ \A i \in 1..n : Flat(ss)[i] = PrefixAt(Flat(ss), ss, i)
        /\ \A i \in 1..(n + 1) : Flat(tt)[i] = PrefixAt(Flat(tt), tt, i)
    <3>1. \A i \in 1..Len(tt) : Flat(tt)[i] = PrefixAt(Flat(tt), tt, i)
      BY <2>1, FlatRecursion
    <3>2. QED
      BY <2>1, <3>1, FlatRecursion
  <2>3. \A i \in 0..n : i \in {k \in 0..n : k # 0 => Flat(tt)[k] = Flat(ss)[k]}
    <3> DEFINE G == {k \in 0..n : k # 0 => Flat(tt)[k] = Flat(ss)[k]}
    <3>1. ASSUME NEW k \in 0..n, \A j \in 0..(k - 1) : j \in G PROVE k \in G
      <4>1. SUFFICES ASSUME k # 0 PROVE Flat(tt)[k] = Flat(ss)[k]
        OBVIOUS
      <4>2. k \in 1..n /\ k \in 1..(n + 1) /\ tt[k] = ss[k]
        BY <1>1, <2>1, <4>1
      <4>3. CASE k = 1
        BY <2>2, <4>2, <4>3 DEF PrefixAt
      <4>4. CASE k # 1
        <5>1. k - 1 \in 0..(k - 1) /\ k - 1 # 0
          BY <4>2, <4>4
        <5>2. Flat(tt)[k - 1] = Flat(ss)[k - 1]
          BY <3>1, <5>1
        <5>3. QED
          BY <2>2, <4>2, <4>4, <5>2 DEF PrefixAt
      <4>5. QED
        BY <4>3, <4>4
    <3> HIDE DEF G
    <3>2. QED
      BY <1>1, <3>1, UpTo DEF G
  <2>4. FlattenSeq(tt) = Flat(tt)[n + 1] /\ n + 1 \in 1..(n + 1)
    BY <1>1, <2>1, FlattenIsFlat
  <2>5. CASE n = 0
    <3>1. Flat(tt)[n + 1] = t
      BY <2>1, <2>2, <2>4, <2>5 DEF PrefixAt
    <3>2. <<>> \o t = t
      BY ConcatEmptySeq
    <3>3. FlattenSeq(ss) = <<>>
      BY <1>1, <1>3, <2>5
    <3>4. QED
      BY <2>4, <3>1, <3>2, <3>3 DEF tt
  <2>6. CASE n # 0
    <3>1. n \in 0..n /\ n + 1 # 1 /\ (n + 1) - 1 = n
      BY <1>1, <2>6
    <3>2. Flat(tt)[n] = Flat(ss)[n]
      BY <2>3, <2>6, <3>1
    <3>3. Flat(tt)[n + 1] = Flat(ss)[n] \o t
      BY <2>1, <2>2, <2>4, <3>1, <3>2 DEF PrefixAt
    <3>4. FlattenSeq(ss) = Flat(ss)[n]
      BY <2>6, FlattenIsFlat
    <3>5. QED
      BY <2>4, <3>3, <3>4 DEF tt
  <2>7. QED
    BY <2>5, <2>6
<1>6. QED
  BY <1>3, <1>4, <1>5

\* The last text is put behind the others.
LEMMA FlattenLast ==
  ASSUME NEW A, NEW ss \in Seq(Seq(A)), NEW tt \in Seq(Seq(A)),
         Len(ss) = Len(tt) + 1, \A i \in 1..Len(tt) : ss[i] = tt[i]
  PROVE  FlattenSeq(ss) = FlattenSeq(tt) \o ss[Len(ss)]
<1> DEFINE t == ss[Len(ss)]
<1>1. Len(tt) \in Nat
  BY LenProperties
<1>2. t \in Seq(A)
  <2>1. Len(ss) \in 1..Len(ss)
    BY <1>1
  <2>2. QED
    BY <2>1, ElementOfSeq
<1>3. /\ Append(tt, t) \in Seq(Seq(A)) /\ Len(Append(tt, t)) = Len(tt) + 1
      /\ \A i \in 1..Len(tt) : Append(tt, t)[i] = tt[i]
      /\ Append(tt, t)[Len(tt) + 1] = t
  <2> HIDE DEF t
  <2>1. QED
    BY <1>2, AppendProperties
<1>4. \A i \in 1..Len(ss) : ss[i] = Append(tt, t)[i]
  BY <1>1, <1>3
<1>5. ss = Append(tt, t)
  BY <1>3, <1>4, SeqEqual
<1>6. QED
  BY <1>2, <1>5, FlattenLaws

-----------------------------------------------------------------------------
(***************************************************************************)
(* Texts of tokens.                                                        *)
(***************************************************************************)
TokenText == Seq(Token)

Comma == Mark(",")
Colon == Mark(":")
ArrayBegin == Mark("[")
ArrayEnd == Mark("]")
ObjectBegin == Mark("{")
ObjectEnd == Mark("}")

\* A text of one token.
IsOne(t, x) == t \in TokenText /\ Len(t) = 1 /\ t[1] = x

LEMMA OneToken ==
  ASSUME NEW x \in Token
  PROVE  IsOne(<<x>>, x)
  BY DEF TokenText, IsOne

LEMMA WordIsText ==
  ASSUME NEW c \in {"string", "scalar"}, NEW x \in Nat
  PROVE  IsOne(Word(c, x), [is |-> c, text |-> x])
<1>1. [is |-> c, text |-> x] \in Token
  BY DEF Token
<1>2. QED
  BY <1>1, OneToken DEF Word

LEMMA MarkIsText ==
  ASSUME NEW c \in Punctuation
  PROVE  IsOne(Mark(c), [is |-> c])
<1>1. [is |-> c] \in Token
  BY DEF Token
<1>2. QED
  BY <1>1, OneToken DEF Mark

LEMMA Marks ==
  /\ IsOne(Comma, [is |-> ","]) /\ IsOne(Colon, [is |-> ":"])
  /\ IsOne(ArrayBegin, [is |-> "["]) /\ IsOne(ArrayEnd, [is |-> "]"])
  /\ IsOne(ObjectBegin, [is |-> "{"]) /\ IsOne(ObjectEnd, [is |-> "}"])
<1>1. /\ "," \in Punctuation /\ ":" \in Punctuation /\ "[" \in Punctuation
      /\ "]" \in Punctuation /\ "{" \in Punctuation /\ "}" \in Punctuation
  BY Zenon DEF Punctuation
<1>2. QED
  BY <1>1, MarkIsText, Zenon DEF Comma, Colon, ArrayBegin, ArrayEnd, ObjectBegin, ObjectEnd

LEMMA MarksAreTexts ==
  /\ Comma \in TokenText /\ Len(Comma) = 1
  /\ Colon \in TokenText /\ Len(Colon) = 1
  /\ ArrayBegin \in TokenText /\ Len(ArrayBegin) = 1
  /\ ArrayEnd \in TokenText /\ Len(ArrayEnd) = 1
  /\ ObjectBegin \in TokenText /\ Len(ObjectBegin) = 1
  /\ ObjectEnd \in TokenText /\ Len(ObjectEnd) = 1
  /\ <<>> \in TokenText /\ Len(<<>>) = 0
<1>1. <<>> \in TokenText /\ Len(<<>>) = 0
  BY EmptySeq DEF TokenText
<1>2. QED
  BY <1>1, Marks, Zenon DEF IsOne

LEMMA TextLaws ==
  ASSUME NEW s \in TokenText, NEW t \in TokenText
  PROVE  /\ s \o t \in TokenText
         /\ Len(s) \in Nat /\ Len(s \o t) = Len(s) + Len(t)
         /\ s \o <<>> = s /\ <<>> \o s = s
         /\ \A u \in TokenText : (s \o t) \o u = s \o (t \o u)
  BY ConcatProperties, ConcatEmptySeq, ConcatAssociative, LenProperties DEF TokenText

LEMMA Assoc ==
  ASSUME NEW s \in TokenText, NEW t \in TokenText, NEW u \in TokenText
  PROVE  s \o (t \o u) = (s \o t) \o u
  BY ConcatAssociative DEF TokenText

LEMMA NamedIsText ==
  ASSUME NEW k \in Nat, NEW t \in TokenText
  PROVE  /\ Named(k, t) \in TokenText
         /\ Named(k, t) = Named(k, <<>>) \o t
         /\ Len(Named(k, t)) = 2 + Len(t)
         /\ Named(k, t) = (Word("string", k) \o Colon) \o t
<1>1. /\ Word("string", k) \in TokenText /\ Colon \in TokenText /\ <<>> \in TokenText
      /\ Len(Word("string", k)) = 1 /\ Len(Colon) = 1
  BY WordIsText, MarksAreTexts DEF IsOne
<1>2. Word("string", k) \o Colon \in TokenText
  BY <1>1, TextLaws
<1>3. Named(k, t) = (Word("string", k) \o Colon) \o t
  BY Zenon DEF Named, Colon
<1>4. Named(k, <<>>) = Word("string", k) \o Colon
  <2>1. Named(k, <<>>) = (Word("string", k) \o Colon) \o <<>>
    BY Zenon DEF Named, Colon
  <2>2. QED
    BY <1>2, <2>1, TextLaws
<1>5. Len(Word("string", k) \o Colon) = 2
  <2>1. Len(Word("string", k) \o Colon) = Len(Word("string", k)) + Len(Colon)
    BY <1>1, TextLaws, Zenon
  <2>2. QED
    BY <1>1, <2>1
<1>6. QED
  BY <1>1, <1>2, <1>3, <1>4, <1>5, TextLaws

\* The text of an item after the comma, if there is one before it.
ItemText(items, i) == IF i = 1 THEN items[i] ELSE Comma \o items[i]

LEMMA ListedLaws ==
  ASSUME NEW items \in Seq(TokenText)
  PROVE  /\ Listed(items) \in TokenText
         /\ Listed(<<>>) = <<>>
         /\ \A t \in TokenText :
              Listed(Append(items, t)) =
                IF items = <<>> THEN t ELSE Listed(items) \o Comma \o t
<1> DEFINE n == Len(items)
           Parts(x) == [i \in DOMAIN x |-> ItemText(x, i)]
<1>1. \A x : Listed(x) = FlattenSeq(Parts(x))
  BY Zenon DEF Listed, ItemText, Comma
<1>2. ASSUME NEW x \in Seq(TokenText)
      PROVE  Parts(x) \in Seq(TokenText) /\ Len(Parts(x)) = Len(x) /\ Len(x) \in Nat
             /\ \A i \in 1..Len(x) : Parts(x)[i] = ItemText(x, i)
  <2>1. Len(x) \in Nat /\ DOMAIN x = 1..Len(x) /\ \A i \in 1..Len(x) : x[i] \in TokenText
    BY LenProperties, ElementOfSeq
  <2>2. \A i \in 1..Len(x) : ItemText(x, i) \in TokenText
    BY <2>1, TextLaws, MarksAreTexts DEF ItemText
  <2>3. Parts(x) = [i \in 1..Len(x) |-> ItemText(x, i)]
    BY <2>1
  <2>4. QED
    BY <2>1, <2>2, <2>3
<1>3. Listed(items) \in TokenText
  BY <1>1, <1>2, FlattenLaws DEF TokenText
<1>4. Listed(<<>>) = <<>>
  <2>1. <<>> \in Seq(TokenText) /\ Len(<<>>) = 0
    BY EmptySeq
  <2>2. Len(Parts(<<>>)) = 0 /\ Parts(<<>>) \in Seq(TokenText)
    BY <1>2, <2>1
  <2>3. Parts(<<>>) = <<>>
    BY <2>2, EmptySeq
  <2>4. FlattenSeq(<<>>) = <<>>
    BY <2>1, FlattenIsFlat
  <2> HIDE DEF Parts
  <2>5. QED
    BY <1>1, <2>3, <2>4, Zenon
<1>5. ASSUME NEW t \in TokenText
      PROVE  Listed(Append(items, t)) = IF items = <<>> THEN t ELSE Listed(items) \o Comma \o t
  <2> DEFINE new == Append(items, t)
  <2>1. /\ new \in Seq(TokenText) /\ Len(new) = n + 1
        /\ \A i \in 1..n : new[i] = items[i]
        /\ new[n + 1] = t
    BY AppendProperties
  <2> HIDE DEF new
  <2>2. n \in Nat /\ (n = 0 <=> items = <<>>)
    BY LenProperties, EmptySeq
  <2>3. \A i \in 1..n : ItemText(new, i) = ItemText(items, i)
    BY <2>1 DEF ItemText
  <2>4. /\ Parts(new) \in Seq(TokenText) /\ Len(Parts(new)) = n + 1
        /\ Parts(items) \in Seq(TokenText) /\ Len(Parts(items)) = n
        /\ \A i \in 1..n : Parts(new)[i] = Parts(items)[i]
        /\ Parts(new)[n + 1] = ItemText(new, n + 1)
    <3>1. \A i \in 1..n : i \in 1..(n + 1)
      BY <2>2
    <3>2. n + 1 \in 1..(n + 1)
      BY <2>2
    <3> HIDE DEF Parts
    <3>3. QED
      BY <1>2, <2>1, <2>3, <3>1, <3>2
  <2> HIDE DEF Parts
  <2>5. Listed(new) = Listed(items) \o ItemText(new, n + 1)
    BY <1>1, <2>4, FlattenLast DEF TokenText
  <2>6. CASE items = <<>>
    <3>1. ItemText(new, n + 1) = t
      BY <2>1, <2>2, <2>6 DEF ItemText
    <3>2. QED
      BY <1>4, <2>5, <2>6, <3>1, TextLaws DEF new
  <2>7. CASE items # <<>>
    <3>1. ItemText(new, n + 1) = Comma \o t
      BY <2>1, <2>2, <2>7 DEF ItemText
    <3>2. Listed(items) \o (Comma \o t) = (Listed(items) \o Comma) \o t
      BY <1>3, MarksAreTexts, Assoc, Zenon
    <3>3. QED
      BY <2>5, <2>7, <3>1, <3>2 DEF new
  <2>8. QED
    BY <2>6, <2>7
<1>6. QED
  BY <1>3, <1>4, <1>5

-----------------------------------------------------------------------------
(***************************************************************************)
(* Values. They are built from smaller ones, so that functions on them can *)
(* be defined, and facts about them proved, by recursion on the items.     *)
(***************************************************************************)
Inner(n) == IF n = 0 THEN {} ELSE Value[n - 1]

ValueUpTo(f, m) == f = [k \in 0..m |-> ValueOver(IF k = 0 THEN {} ELSE f[k - 1])]

LEMMA ValuesUpToExist ==
  ASSUME NEW n \in Nat
  PROVE  \E f : ValueUpTo(f, n)
<1> DEFINE G == {m \in 0..n : \E f : ValueUpTo(f, m)}
<1>1. ASSUME NEW m \in 0..n, \A j \in 0..(m - 1) : j \in G PROVE m \in G
  <2>1. CASE m = 0
    <3> DEFINE f == [k \in 0..0 |-> ValueOver({})]
    <3>1. f = [k \in 0..0 |-> ValueOver(IF k = 0 THEN {} ELSE f[k - 1])]
      OBVIOUS
    <3> HIDE DEF f
    <3>2. ValueUpTo(f, 0)
      BY <3>1 DEF ValueUpTo
    <3>3. QED
      BY <2>1, <3>2
  <2>2. CASE m # 0
    <3>1. m - 1 \in 0..(m - 1) /\ m - 1 \in Nat
      BY <2>2
    <3>2. PICK f : ValueUpTo(f, m - 1)
      BY <1>1, <3>1
    <3> DEFINE g == [k \in 0..m |-> IF k = m THEN ValueOver(f[m - 1]) ELSE f[k]]
    <3>3. \A k \in 0..(m - 1) : f[k] = ValueOver(IF k = 0 THEN {} ELSE f[k - 1])
      BY <3>2 DEF ValueUpTo
    <3>4. ASSUME NEW k \in 0..m PROVE g[k] = ValueOver(IF k = 0 THEN {} ELSE g[k - 1])
      <4>1. CASE k = m
        <5>1. g[m] = ValueOver(f[m - 1]) /\ g[m - 1] = f[m - 1]
          BY <2>2
        <5>2. QED
          BY <2>2, <4>1, <5>1
      <4>2. CASE k # m
        <5>1. k \in 0..(m - 1) /\ (k # 0 => k - 1 \in 0..m /\ k - 1 # m)
          BY <4>2
        <5>2. g[k] = f[k] /\ (k # 0 => g[k - 1] = f[k - 1])
          BY <4>2, <5>1
        <5> HIDE DEF g
        <5>3. QED
          BY <3>3, <5>1, <5>2
      <4>3. QED
        BY <4>1, <4>2
    <3>5. DOMAIN g = 0..m /\ g = [k \in 0..m |-> g[k]]
      OBVIOUS
    <3> HIDE DEF g
    <3>6. [k \in 0..m |-> g[k]] = [k \in 0..m |-> ValueOver(IF k = 0 THEN {} ELSE g[k - 1])]
      BY <3>4
    <3>7. ValueUpTo(g, m)
      BY <3>5, <3>6, Zenon DEF ValueUpTo
    <3>8. QED
      BY <3>7
  <2>3. QED
    BY <2>1, <2>2
<1> HIDE DEF G
<1>2. \A m \in 0..n : m \in G
  BY <1>1, UpTo
<1>3. n \in 0..n
  OBVIOUS
<1>4. QED
  BY <1>2, <1>3 DEF G

LEMMA ValuesUpToAgree ==
  ASSUME NEW n \in Nat, NEW l \in Nat, n <= l, NEW f, NEW g, ValueUpTo(f, n), ValueUpTo(g, l)
  PROVE  \A m \in 0..n : f[m] = g[m]
<1> DEFINE G == {m \in 0..n : f[m] = g[m]}
<1>1. /\ \A k \in 0..n : f[k] = ValueOver(IF k = 0 THEN {} ELSE f[k - 1])
      /\ \A k \in 0..l : g[k] = ValueOver(IF k = 0 THEN {} ELSE g[k - 1])
  BY DEF ValueUpTo
<1>2. ASSUME NEW m \in 0..n, \A j \in 0..(m - 1) : j \in G PROVE m \in G
  <2>1. m \in 0..l /\ (m # 0 => m - 1 \in 0..(m - 1))
    OBVIOUS
  <2>2. m # 0 => f[m - 1] = g[m - 1]
    BY <1>2, <2>1
  <2>3. f[m] = g[m]
    BY <1>1, <2>1, <2>2
  <2>4. QED
    BY <2>3
<1> HIDE DEF G
<1>3. \A m \in 0..n : m \in G
  BY <1>2, UpTo
<1>4. QED
  BY <1>3 DEF G

LEMMA ValueRecursion ==
  ASSUME NEW n \in Nat
  PROVE  Value[n] = ValueOver(Inner(n))
<1> DEFINE F(f) == f = [m \in Nat |-> UNION {ValueOver(S) : S \in {IF m = 0 THEN {} ELSE f[m - 1]}}]
           part(m) == CHOOSE f : ValueUpTo(f, m)
           h == [m \in Nat |-> part(m)[m]]
<1>1. Value = CHOOSE f : F(f)
  BY Zenon DEF Value
<1>2. \A S : UNION {ValueOver(T) : T \in {S}} = ValueOver(S)
  OBVIOUS
<1>3. \A m \in Nat : ValueUpTo(part(m), m)
  BY ValuesUpToExist
<1> HIDE DEF part
<1>4. ASSUME NEW m \in Nat PROVE h[m] = ValueOver(IF m = 0 THEN {} ELSE h[m - 1])
  <2>1. m \in 0..m
    OBVIOUS
  <2>2. part(m)[m] = ValueOver(IF m = 0 THEN {} ELSE part(m)[m - 1])
    <3>1. ValueUpTo(part(m), m)
      BY <1>3
    <3>2. QED
      BY <2>1, <3>1 DEF ValueUpTo
  <2>3. CASE m = 0
    BY <2>2, <2>3
  <2>4. CASE m # 0
    <3>1. m - 1 \in Nat /\ m - 1 <= m /\ m - 1 \in 0..(m - 1)
      BY <2>4
    <3>2. ValueUpTo(part(m), m) /\ ValueUpTo(part(m - 1), m - 1)
      BY <1>3, <3>1
    <3>3. part(m - 1)[m - 1] = part(m)[m - 1]
      BY <3>1, <3>2, ValuesUpToAgree
    <3>4. QED
      BY <2>2, <2>4, <3>1, <3>3
  <2>5. QED
    BY <2>3, <2>4
<1>5. h = [m \in Nat |-> h[m]]
  OBVIOUS
<1> HIDE DEF h
<1>6. F(h)
  BY <1>2, <1>4, <1>5
<1>7. F(Value)
  <2> HIDE DEF F
  <2>1. QED
    BY <1>1, <1>6
<1>8. Value[n] = UNION {ValueOver(S) : S \in {IF n = 0 THEN {} ELSE Value[n - 1]}}
  BY <1>7
<1>9. QED
  BY <1>2, <1>8 DEF Inner

-----------------------------------------------------------------------------
MemberOver(S) == [key : Nat, value : S]

LEMMA Constructors ==
  /\ \A s : Str(s).kind = "string" /\ Str(s).string = s
  /\ \A x : Scalar(x).kind = "scalar" /\ Scalar(x).token = x
  /\ \A vs : Arr(vs).kind = "array" /\ Arr(vs).array = vs
  /\ \A ms : Obj(ms).kind = "object" /\ Obj(ms).object = ms
  /\ \A k, v : Member(k, v).key = k /\ Member(k, v).value = v
  BY DEF Str, Scalar, Arr, Obj, Member

LEMMA ValueOverCases ==
  ASSUME NEW S, NEW v
  PROVE  v \in ValueOver(S) <=>
           \/ \E s \in Nat : v = Str(s)
           \/ \E x \in Nat : v = Scalar(x)
           \/ \E vs \in Seq(S) : v = Arr(vs)
           \/ \E ms \in Seq(MemberOver(S)) : NamedOnce(ms) /\ v = Obj(ms)
<1>1. v \in [kind : {"string"}, string : Nat] <=> \E s \in Nat : v = Str(s)
  BY DEF Str
<1>2. v \in [kind : {"scalar"}, token : Nat] <=> \E x \in Nat : v = Scalar(x)
  BY DEF Scalar
<1>3. v \in [kind : {"array"}, array : Seq(S)] <=> \E vs \in Seq(S) : v = Arr(vs)
  BY DEF Arr
<1>4. \A M : v \in [kind : {"object"}, object : M] <=> \E ms \in M : v = Obj(ms)
  BY DEF Obj
<1> DEFINE M == {ms \in Seq(MemberOver(S)) : NamedOnce(ms)}
<1>5. v \in ValueOver(S) <=>
        \/ v \in [kind : {"string"}, string : Nat]
        \/ v \in [kind : {"scalar"}, token : Nat]
        \/ v \in [kind : {"array"}, array : Seq(S)]
        \/ v \in [kind : {"object"}, object : M]
  <2>1. ValueOver(S) =
          [kind : {"string"}, string : Nat] \cup [kind : {"scalar"}, token : Nat]
            \cup [kind : {"array"}, array : Seq(S)] \cup [kind : {"object"}, object : M]
    BY Zenon DEF ValueOver, MemberOver
  <2>2. \A a, b, c, d : v \in a \cup b \cup c \cup d <=> v \in a \/ v \in b \/ v \in c \/ v \in d
    BY Zenon
  <2>3. QED
    BY <2>1, <2>2, Zenon
<1>6. (\E ms \in M : v = Obj(ms)) <=> \E ms \in Seq(MemberOver(S)) : NamedOnce(ms) /\ v = Obj(ms)
  BY Zenon
<1> HIDE DEF M
<1>7. QED
  BY <1>1, <1>2, <1>3, <1>4, <1>5, <1>6, Zenon

LEMMA ValueOverMonotone ==
  ASSUME NEW S, NEW T, S \subseteq T
  PROVE  ValueOver(S) \subseteq ValueOver(T)
<1> SUFFICES ASSUME NEW v \in ValueOver(S) PROVE v \in ValueOver(T)
  OBVIOUS
<1>1. \A vs \in Seq(S) : vs \in Seq(T)
  BY SeqMonotonic
<1>2. MemberOver(S) \subseteq MemberOver(T)
  BY DEF MemberOver
<1>3. \A ms \in Seq(MemberOver(S)) : ms \in Seq(MemberOver(T))
  BY <1>2, SeqMonotonic
<1>4. QED
  BY <1>1, <1>3, ValueOverCases, Zenon

LEMMA ValueGrows ==
  ASSUME NEW n \in Nat
  PROVE  \A m \in 0..n : Inner(m) \subseteq Value[m] /\ Value[m] \subseteq Value[n]
<1> DEFINE G == {m \in 0..n : Inner(m) \subseteq Value[m]}
           H == {j \in 0..n : Value[n - j] \subseteq Value[n]}
<1>1. \A m \in 0..n : m \in G
  <2>1. ASSUME NEW m \in 0..n, \A j \in 0..(m - 1) : j \in G PROVE m \in G
    <3>1. CASE m = 0
      BY <3>1 DEF Inner
    <3>2. CASE m # 0
      <4>1. m \in Nat /\ m - 1 \in Nat /\ m - 1 \in 0..(m - 1)
        BY <3>2
      <4>2. Inner(m - 1) \subseteq Value[m - 1] /\ Inner(m) = Value[m - 1]
        BY <2>1, <3>2, <4>1 DEF Inner
      <4>3. Value[m - 1] = ValueOver(Inner(m - 1)) /\ Value[m] = ValueOver(Inner(m))
        BY <4>1, ValueRecursion
      <4>4. QED
        BY <4>2, <4>3, ValueOverMonotone
    <3>3. QED
      BY <3>1, <3>2
  <2> HIDE DEF G
  <2>2. QED
    BY <2>1, UpTo
<1>2. \A j \in 0..n : j \in H
  <2>1. ASSUME NEW j \in 0..n, \A i \in 0..(j - 1) : i \in H PROVE j \in H
    <3>1. CASE j = 0
      BY <3>1
    <3>2. CASE j # 0
      <4>1. j - 1 \in 0..(j - 1) /\ n - (j - 1) \in 0..n /\ n - (j - 1) # 0
            /\ (n - (j - 1)) - 1 = n - j
        BY <3>2
      <4>2. Value[n - (j - 1)] \subseteq Value[n]
        BY <2>1, <4>1
      <4>3. Inner(n - (j - 1)) \subseteq Value[n - (j - 1)]
        BY <1>1, <4>1
      <4>4. Inner(n - (j - 1)) = Value[n - j]
        BY <4>1 DEF Inner
      <4>5. QED
        BY <4>2, <4>3, <4>4
    <3>3. QED
      BY <3>1, <3>2
  <2> HIDE DEF H
  <2>2. QED
    BY <2>1, UpTo
<1>3. \A m \in 0..n : n - m \in 0..n /\ n - (n - m) = m
  OBVIOUS
<1>4. \A m \in 0..n : Value[m] \subseteq Value[n]
  BY <1>2, <1>3
<1>5. QED
  BY <1>1, <1>4

\* The values directly in v.
Items(v) ==
  IF v.kind = "array" THEN {v.array[i] : i \in DOMAIN v.array}
  ELSE IF v.kind = "object" THEN {v.object[i].value : i \in DOMAIN v.object}
  ELSE {}

LEMMA ItemLaws ==
  /\ \A s : Items(Str(s)) = {}
  /\ \A x : Items(Scalar(x)) = {}
  /\ \A vs : Items(Arr(vs)) = {vs[i] : i \in DOMAIN vs}
  /\ \A ms : Items(Obj(ms)) = {ms[i].value : i \in DOMAIN ms}
  BY Constructors DEF Items

LEMMA ItemsAreInner ==
  ASSUME NEW S, NEW v \in ValueOver(S)
  PROVE  Items(v) \subseteq S
<1>1. CASE \E s \in Nat : v = Str(s)
  BY <1>1, ItemLaws
<1>2. CASE \E x \in Nat : v = Scalar(x)
  BY <1>2, ItemLaws
<1>3. CASE \E vs \in Seq(S) : v = Arr(vs)
  <2>1. PICK vs \in Seq(S) : v = Arr(vs)
    BY <1>3
  <2>2. \A i \in DOMAIN vs : vs[i] \in S
    BY LenProperties, ElementOfSeq
  <2>3. QED
    BY <2>1, <2>2, ItemLaws
<1>4. CASE \E ms \in Seq(MemberOver(S)) : NamedOnce(ms) /\ v = Obj(ms)
  <2>1. PICK ms \in Seq(MemberOver(S)) : v = Obj(ms)
    BY <1>4
  <2>2. \A i \in DOMAIN ms : ms[i] \in MemberOver(S)
    BY LenProperties, ElementOfSeq
  <2>3. \A i \in DOMAIN ms : ms[i].value \in S
    BY <2>2 DEF MemberOver
  <2>4. QED
    BY <2>1, <2>3, ItemLaws
<1>5. QED
  BY <1>1, <1>2, <1>3, <1>4, ValueOverCases

\* How deep a value is nested: less for its items.
Measures(mu, n) ==
  /\ mu \in [Value[n] -> 0..n]
  /\ \A v \in Value[n] : \A x \in Items(v) : x \in Value[n] /\ mu[x] < mu[v]

LEMMA NestingIsMeasure ==
  ASSUME NEW n \in Nat
  PROVE  \E mu : Measures(mu, n)
<1> DEFINE Least(v, d) == d \in 0..n /\ v \in Value[d] /\ \A e \in 0..n : v \in Value[e] => d <= e
           mu == [v \in Value[n] |-> CHOOSE d : Least(v, d)]
<1>1. ASSUME NEW v \in Value[n] PROVE \E d : Least(v, d)
  <2> DEFINE D == {e \in 0..n : v \in Value[e]}
  <2>1. D \in SUBSET Nat /\ n \in D
    OBVIOUS
  <2>2. PICK d \in D : \A e \in D : d <= e
    <3> HIDE DEF D
    <3>1. QED
      BY <2>1, LeastExists
  <2>3. Least(v, d)
    BY <2>2
  <2>4. QED
    BY <2>3
<1>2. \A v \in Value[n] : Least(v, mu[v])
  <2> HIDE DEF Least
  <2>1. QED
    BY <1>1
<1>3. mu = [v \in Value[n] |-> mu[v]]
  OBVIOUS
<1> HIDE DEF mu
<1>4. mu \in [Value[n] -> 0..n]
  BY <1>2, <1>3
<1>5. ASSUME NEW v \in Value[n], NEW x \in Items(v)
      PROVE  x \in Value[n] /\ mu[x] < mu[v]
  <2> DEFINE d == mu[v]
  <2>1. d \in 0..n /\ d \in Nat /\ v \in Value[d]
    BY <1>2
  <2> HIDE DEF d
  <2>2. x \in Inner(d)
    BY <2>1, ValueRecursion, ItemsAreInner
  <2>3. d # 0 /\ x \in Value[d - 1] /\ d - 1 \in 0..n
    BY <2>1, <2>2 DEF Inner
  <2>4. x \in Value[n]
    BY <2>3, ValueGrows
  <2>5. mu[x] <= d - 1 /\ mu[x] \in 0..n
    BY <1>2, <2>3, <2>4
  <2>6. QED
    BY <2>1, <2>4, <2>5 DEF d
<1>6. QED
  BY <1>4, <1>5 DEF Measures

\* What is true of a value if it is true of its items is true of all values.
LEMMA ValueInduction ==
  ASSUME NEW n \in Nat, NEW G, \A v \in Value[n] : Items(v) \subseteq G => v \in G
  PROVE  Value[n] \subseteq G
<1>1. PICK mu : Measures(mu, n)
  BY NestingIsMeasure
<1> DEFINE H == {d \in 0..n : \A v \in Value[n] : mu[v] = d => v \in G}
<1>2. ASSUME NEW d \in 0..n, \A e \in 0..(d - 1) : e \in H PROVE d \in H
  <2>1. SUFFICES ASSUME NEW v \in Value[n], mu[v] = d PROVE v \in G
    OBVIOUS
  <2>2. ASSUME NEW x \in Items(v) PROVE x \in G
    <3>1. x \in Value[n] /\ mu[x] < d /\ mu[x] \in 0..n
      BY <1>1, <2>1 DEF Measures
    <3>2. mu[x] \in 0..(d - 1)
      BY <3>1
    <3>3. mu[x] \in H
      BY <1>2, <3>2
    <3>4. QED
      BY <3>1, <3>3
  <2>3. QED
    BY <2>2
<1> HIDE DEF H
<1>3. \A d \in 0..n : d \in H
  BY <1>2, UpTo
<1>4. \A v \in Value[n] : mu[v] \in 0..n
  BY <1>1 DEF Measures
<1>5. QED
  BY <1>3, <1>4 DEF H

\* Each value's result depends only on those of its items.
DependsOnItems(step, n, V) ==
  \A v \in Value[n] : \A g, h \in [Value[n] -> V] :
    (\A x \in Items(v) : g[x] = h[x]) => step[v][g] = step[v][h]

LEMMA ValueRecursionHasSolution ==
  ASSUME NEW n \in Nat, NEW V, NEW v0 \in V,
         NEW step \in [Value[n] -> [[Value[n] -> V] -> V]], DependsOnItems(step, n, V)
  PROVE  \E f \in [Value[n] -> V] : Solution(f, step, Value[n])
<1>1. PICK mu : Measures(mu, n)
  BY NestingIsMeasure
<1>2. mu \in [Value[n] -> 0..n]
  BY <1>1 DEF Measures
<1>3. ASSUME NEW v \in Value[n], NEW g \in [Value[n] -> V], NEW h \in [Value[n] -> V],
             \A x \in Value[n] : mu[x] < mu[v] => g[x] = h[x]
      PROVE  step[v][g] = step[v][h]
  <2>1. \A x \in Items(v) : g[x] = h[x]
    BY <1>1, <1>3 DEF Measures
  <2>2. QED
    BY <2>1 DEF DependsOnItems
<1>4. DependsOnSmaller(step, Value[n], mu, V)
  BY <1>3 DEF DependsOnSmaller
<1>5. QED
  BY <1>2, <1>4, RecursionHasSolution, Zenon

LEMMA ValueOfItems ==
  ASSUME NEW S, NEW v \in ValueOver(S)
  PROVE  v \in ValueOver(Items(v))
<1>1. CASE \E s \in Nat : v = Str(s)
  BY <1>1, ValueOverCases
<1>2. CASE \E x \in Nat : v = Scalar(x)
  BY <1>2, ValueOverCases
<1>3. CASE \E vs \in Seq(S) : v = Arr(vs)
  <2>1. PICK vs \in Seq(S) : v = Arr(vs)
    BY <1>3
  <2>2. DOMAIN vs = 1..Len(vs) /\ Len(vs) \in Nat /\ vs \in [1..Len(vs) -> S]
    BY LenProperties
  <2>3. \A i \in 1..Len(vs) : vs[i] \in Items(v)
    BY <2>1, <2>2, ItemLaws
  <2>4. vs \in [1..Len(vs) -> Items(v)]
    BY <2>2, <2>3
  <2>5. vs \in Seq(Items(v))
    BY <2>2, <2>4, SeqDef
  <2>6. QED
    BY <2>1, <2>5, ValueOverCases
<1>4. CASE \E ms \in Seq(MemberOver(S)) : NamedOnce(ms) /\ v = Obj(ms)
  <2>1. PICK ms \in Seq(MemberOver(S)) : NamedOnce(ms) /\ v = Obj(ms)
    BY <1>4
  <2>2. DOMAIN ms = 1..Len(ms) /\ Len(ms) \in Nat /\ ms \in [1..Len(ms) -> MemberOver(S)]
    BY LenProperties
  <2>3. \A i \in 1..Len(ms) : ms[i].value \in Items(v)
    BY <2>1, <2>2, ItemLaws
  <2>4. \A i \in 1..Len(ms) : ms[i] \in MemberOver(Items(v))
    BY <2>2, <2>3 DEF MemberOver
  <2>5. ms \in [1..Len(ms) -> MemberOver(Items(v))]
    BY <2>2, <2>4
  <2>6. ms \in Seq(MemberOver(Items(v)))
    BY <2>2, <2>5, SeqDef
  <2>7. QED
    BY <2>1, <2>6, ValueOverCases
<1>5. QED
  BY <1>1, <1>2, <1>3, <1>4, ValueOverCases

-----------------------------------------------------------------------------
(***************************************************************************)
(* Writing values.                                                         *)
(***************************************************************************)
ArrayTexts(f, vs) == [i \in DOMAIN vs |-> f[vs[i]]]
ObjectTexts(f, ms) == [i \in DOMAIN ms |-> Named(ms[i].key, f[ms[i].value])]

\* The text of v, when f has those of its items.
Spelled(f, v) ==
  IF v.kind = "object" THEN ObjectBegin \o Listed(ObjectTexts(f, v.object)) \o ObjectEnd
  ELSE IF v.kind = "array" THEN ArrayBegin \o Listed(ArrayTexts(f, v.array)) \o ArrayEnd
  ELSE IF v.kind = "string" THEN Word("string", v.string)
  ELSE Word("scalar", v.token)

LEMMA SpelledCases ==
  ASSUME NEW f
  PROVE  /\ \A s : Spelled(f, Str(s)) = Word("string", s)
         /\ \A x : Spelled(f, Scalar(x)) = Word("scalar", x)
         /\ \A vs : Spelled(f, Arr(vs)) = ArrayBegin \o Listed(ArrayTexts(f, vs)) \o ArrayEnd
         /\ \A ms : Spelled(f, Obj(ms)) = ObjectBegin \o Listed(ObjectTexts(f, ms)) \o ObjectEnd
  BY Constructors DEF Spelled

LEMMA ArrayTextsType ==
  ASSUME NEW S, NEW f, \A x \in S : f[x] \in TokenText, NEW vs \in Seq(S)
  PROVE  /\ ArrayTexts(f, vs) \in Seq(TokenText)
         /\ Len(ArrayTexts(f, vs)) = Len(vs)
         /\ \A i \in 1..Len(vs) : ArrayTexts(f, vs)[i] = f[vs[i]]
         /\ \A v \in S : ArrayTexts(f, Append(vs, v)) = Append(ArrayTexts(f, vs), f[v])
<1>1. \A ws \in Seq(S) : /\ Len(ws) \in Nat
                         /\ ArrayTexts(f, ws) = [i \in 1..Len(ws) |-> f[ws[i]]]
                         /\ \A i \in 1..Len(ws) : f[ws[i]] \in TokenText
  BY LenProperties, ElementOfSeq DEF ArrayTexts
<1>2. \A ws \in Seq(S) : /\ ArrayTexts(f, ws) \in Seq(TokenText)
                         /\ Len(ArrayTexts(f, ws)) = Len(ws)
                         /\ \A i \in 1..Len(ws) : ArrayTexts(f, ws)[i] = f[ws[i]]
  <2>1. ASSUME NEW ws \in Seq(S), NEW t, t = [i \in 1..Len(ws) |-> f[ws[i]]]
        PROVE  t \in Seq(TokenText) /\ Len(t) = Len(ws) /\ \A i \in 1..Len(ws) : t[i] = f[ws[i]]
    BY <1>1, <2>1
  <2>2. QED
    BY <1>1, <2>1
<1>3. ASSUME NEW v \in S PROVE ArrayTexts(f, Append(vs, v)) = Append(ArrayTexts(f, vs), f[v])
  <2> DEFINE ws == Append(vs, v)
             s == ArrayTexts(f, ws)
             t == Append(ArrayTexts(f, vs), f[v])
  <2>1. /\ ws \in Seq(S) /\ Len(ws) = Len(vs) + 1 /\ Len(vs) \in Nat
        /\ \A i \in 1..Len(vs) : ws[i] = vs[i]
        /\ ws[Len(vs) + 1] = v
    BY AppendProperties, LenProperties
  <2> HIDE DEF ws
  <2>2. /\ s \in Seq(TokenText) /\ Len(s) = Len(vs) + 1
        /\ \A i \in 1..(Len(vs) + 1) : s[i] = f[ws[i]]
    BY <1>2, <2>1
  <2>3. ArrayTexts(f, vs) \in Seq(TokenText) /\ Len(ArrayTexts(f, vs)) = Len(vs)
        /\ \A i \in 1..Len(vs) : ArrayTexts(f, vs)[i] = f[vs[i]]
    BY <1>2
  <2>4. /\ t \in Seq(TokenText) /\ Len(t) = Len(vs) + 1
        /\ \A i \in 1..Len(vs) : t[i] = f[vs[i]]
        /\ t[Len(vs) + 1] = f[v]
    BY <2>3, AppendProperties
  <2> HIDE DEF s, t
  <2>5. \A i \in 1..Len(s) : s[i] = t[i]
    <3>1. \A i \in 1..(Len(vs) + 1) : i \in 1..Len(vs) \/ i = Len(vs) + 1
      BY <2>1
    <3>2. QED
      BY <2>1, <2>2, <2>4, <3>1
  <2>6. s = t
    BY <2>2, <2>4, <2>5, SeqEqual
  <2>7. QED
    BY <2>6 DEF s, t, ws
<1>4. QED
  BY <1>2, <1>3

LEMMA ObjectTextsType ==
  ASSUME NEW S, NEW f, \A x \in S : f[x] \in TokenText, NEW ms \in Seq(MemberOver(S))
  PROVE  /\ ObjectTexts(f, ms) \in Seq(TokenText)
         /\ Len(ObjectTexts(f, ms)) = Len(ms)
         /\ \A i \in 1..Len(ms) : ObjectTexts(f, ms)[i] = Named(ms[i].key, f[ms[i].value])
         /\ \A m \in MemberOver(S) :
              ObjectTexts(f, Append(ms, m)) = Append(ObjectTexts(f, ms), Named(m.key, f[m.value]))
<1>1. \A ws \in Seq(MemberOver(S)) :
        /\ Len(ws) \in Nat
        /\ ObjectTexts(f, ws) = [i \in 1..Len(ws) |-> Named(ws[i].key, f[ws[i].value])]
        /\ \A i \in 1..Len(ws) : ws[i] \in MemberOver(S)
  BY LenProperties, ElementOfSeq DEF ObjectTexts
<1>2. \A m \in MemberOver(S) : Named(m.key, f[m.value]) \in TokenText
  <2>1. ASSUME NEW m \in MemberOver(S) PROVE Named(m.key, f[m.value]) \in TokenText
    <3>1. m.key \in Nat /\ f[m.value] \in TokenText
      BY DEF MemberOver
    <3>2. QED
      BY <3>1, NamedIsText
  <2>2. QED
    BY <2>1
<1>3. \A ws \in Seq(MemberOver(S)) :
        /\ ObjectTexts(f, ws) \in Seq(TokenText)
        /\ Len(ObjectTexts(f, ws)) = Len(ws)
        /\ \A i \in 1..Len(ws) : ObjectTexts(f, ws)[i] = Named(ws[i].key, f[ws[i].value])
  BY <1>1, <1>2
<1>4. ASSUME NEW m \in MemberOver(S)
      PROVE  ObjectTexts(f, Append(ms, m)) = Append(ObjectTexts(f, ms), Named(m.key, f[m.value]))
  <2> DEFINE ws == Append(ms, m)
             s == ObjectTexts(f, ws)
             x == Named(m.key, f[m.value])
             t == Append(ObjectTexts(f, ms), x)
  <2>1. /\ ws \in Seq(MemberOver(S)) /\ Len(ws) = Len(ms) + 1 /\ Len(ms) \in Nat
        /\ \A i \in 1..Len(ms) : ws[i] = ms[i]
        /\ ws[Len(ms) + 1] = m
    BY AppendProperties, LenProperties
  <2> HIDE DEF ws
  <2>2. /\ s \in Seq(TokenText) /\ Len(s) = Len(ms) + 1
        /\ \A i \in 1..(Len(ms) + 1) : s[i] = Named(ws[i].key, f[ws[i].value])
    BY <1>3, <2>1
  <2>3. /\ ObjectTexts(f, ms) \in Seq(TokenText) /\ Len(ObjectTexts(f, ms)) = Len(ms)
        /\ \A i \in 1..Len(ms) : ObjectTexts(f, ms)[i] = Named(ms[i].key, f[ms[i].value])
        /\ x \in TokenText
    BY <1>2, <1>3
  <2> HIDE DEF x
  <2>4. /\ t \in Seq(TokenText) /\ Len(t) = Len(ms) + 1
        /\ \A i \in 1..Len(ms) : t[i] = Named(ms[i].key, f[ms[i].value])
        /\ t[Len(ms) + 1] = x
    BY <2>3, AppendProperties
  <2> HIDE DEF s, t
  <2>5. \A i \in 1..Len(s) : s[i] = t[i]
    <3>1. \A i \in 1..(Len(ms) + 1) : i \in 1..Len(ms) \/ i = Len(ms) + 1
      BY <2>1
    <3>2. s[Len(ms) + 1] = x
      BY <2>1, <2>2 DEF x
    <3>3. QED
      BY <2>1, <2>2, <2>4, <3>1, <3>2
  <2>6. s = t
    BY <2>2, <2>4, <2>5, SeqEqual
  <2>7. QED
    BY <2>6 DEF s, t, ws, x
<1>5. QED
  BY <1>3, <1>4

LEMMA SpelledType ==
  ASSUME NEW S, NEW f, \A x \in S : f[x] \in TokenText, NEW v \in ValueOver(S)
  PROVE  Spelled(f, v) \in TokenText
<1>1. CASE \E s \in Nat : v = Str(s)
  <2>1. PICK s \in Nat : v = Str(s)
    BY <1>1
  <2>2. Word("string", s) \in TokenText
    BY WordIsText DEF IsOne
  <2>3. QED
    BY <2>1, <2>2, SpelledCases
<1>2. CASE \E x \in Nat : v = Scalar(x)
  <2>1. PICK x \in Nat : v = Scalar(x)
    BY <1>2
  <2>2. Word("scalar", x) \in TokenText
    BY WordIsText DEF IsOne
  <2>3. QED
    BY <2>1, <2>2, SpelledCases
<1>3. CASE \E vs \in Seq(S) : v = Arr(vs)
  <2>1. PICK vs \in Seq(S) : v = Arr(vs)
    BY <1>3
  <2>2. Listed(ArrayTexts(f, vs)) \in TokenText
    BY ArrayTextsType, ListedLaws
  <2>3. (ArrayBegin \o Listed(ArrayTexts(f, vs))) \o ArrayEnd \in TokenText
    BY <2>2, MarksAreTexts, TextLaws
  <2>4. QED
    BY <2>1, <2>3, SpelledCases
<1>4. CASE \E ms \in Seq(MemberOver(S)) : NamedOnce(ms) /\ v = Obj(ms)
  <2>1. PICK ms \in Seq(MemberOver(S)) : v = Obj(ms)
    BY <1>4
  <2>2. Listed(ObjectTexts(f, ms)) \in TokenText
    BY ObjectTextsType, ListedLaws
  <2>3. (ObjectBegin \o Listed(ObjectTexts(f, ms))) \o ObjectEnd \in TokenText
    BY <2>2, MarksAreTexts, TextLaws
  <2>4. QED
    BY <2>1, <2>3, SpelledCases
<1>5. QED
  BY <1>1, <1>2, <1>3, <1>4, ValueOverCases

LEMMA SpelledDepends ==
  ASSUME NEW S, NEW v \in ValueOver(S), NEW f, NEW g, \A x \in Items(v) : f[x] = g[x]
  PROVE  Spelled(f, v) = Spelled(g, v)
<1>1. CASE \E s \in Nat : v = Str(s)
  BY <1>1, SpelledCases
<1>2. CASE \E x \in Nat : v = Scalar(x)
  BY <1>2, SpelledCases
<1>3. CASE \E vs \in Seq(S) : v = Arr(vs)
  <2>1. PICK vs \in Seq(S) : v = Arr(vs)
    BY <1>3
  <2>2. \A i \in DOMAIN vs : f[vs[i]] = g[vs[i]]
    BY <2>1, ItemLaws
  <2>3. ArrayTexts(f, vs) = ArrayTexts(g, vs)
    BY <2>2 DEF ArrayTexts
  <2>4. QED
    BY <2>1, <2>3, SpelledCases
<1>4. CASE \E ms \in Seq(MemberOver(S)) : NamedOnce(ms) /\ v = Obj(ms)
  <2>1. PICK ms \in Seq(MemberOver(S)) : v = Obj(ms)
    BY <1>4
  <2>2. \A i \in DOMAIN ms : f[ms[i].value] = g[ms[i].value]
    BY <2>1, ItemLaws
  <2>3. ObjectTexts(f, ms) = ObjectTexts(g, ms)
    BY <2>2 DEF ObjectTexts
  <2>4. QED
    BY <2>1, <2>3, SpelledCases
<1>5. QED
  BY <1>1, <1>2, <1>3, <1>4, ValueOverCases

\* The texts of the values nested at most n deep.
Written(n) == CHOOSE f : f = [v \in Value[n] |-> Spelled(f, v)]

LEMMA WriteIntoRecursion ==
  ASSUME NEW n \in Nat
  PROVE  /\ Written(n) \in [Value[n] -> TokenText]
         /\ \A v \in Value[n] : Written(n)[v] = Spelled(Written(n), v)
         /\ \A v : json_write_into(n, v) = Written(n)[v]
<1> DEFINE S == Value[n]
           V == TokenText
           step == [v \in S |-> [g \in [S -> V] |-> Spelled(g, v)]]
           F(f) == f = [v \in S |-> Spelled(f, v)]
           R == Written(n)
<1>0. \A v : json_write_into(n, v) = R[v]
  BY Zenon DEF json_write_into, Written, Spelled, ArrayTexts, ObjectTexts,
               ArrayBegin, ArrayEnd, ObjectBegin, ObjectEnd
<1>1. R = CHOOSE f : F(f)
  BY Zenon DEF Written
<1>2. \A v \in S : v \in ValueOver(Inner(n)) /\ Items(v) \subseteq Inner(n)
  BY ValueRecursion, ItemsAreInner
<1>3. Inner(n) \subseteq S
  BY ValueGrows
<1> HIDE DEF S
<1>4. ASSUME NEW v \in S, NEW g \in [S -> V] PROVE Spelled(g, v) \in V
  <2>1. \A x \in Inner(n) : g[x] \in TokenText
    BY <1>3
  <2>2. QED
    BY <1>2, <2>1, SpelledType
<1>5. step \in [S -> [[S -> V] -> V]]
  BY <1>4
<1>6. \A v \in S : \A g \in [S -> V] : step[v][g] = Spelled(g, v)
  OBVIOUS
<1> HIDE DEF step, V
<1>7. DependsOnItems(step, n, V)
  <2>1. ASSUME NEW v \in S, NEW g \in [S -> V], NEW h \in [S -> V],
               \A x \in Items(v) : g[x] = h[x]
        PROVE  step[v][g] = step[v][h]
    <3>1. Spelled(g, v) = Spelled(h, v)
      BY <1>2, <2>1, SpelledDepends
    <3>2. QED
      BY <1>6, <3>1
  <2>2. QED
    BY <2>1 DEF DependsOnItems, S
<1>8. <<>> \in V
  BY MarksAreTexts DEF V
<1>9. PICK f \in [S -> V] : Solution(f, step, S)
  BY <1>5, <1>7, <1>8, ValueRecursionHasSolution, Zenon DEF S
<1>10. F(f)
  <2>1. \A v \in S : f[v] = Spelled(f, v)
    BY <1>6, <1>9 DEF Solution
  <2>2. QED
    BY <2>1
<1>11. F(R)
  <2> HIDE DEF F, R
  <2>1. QED
    BY <1>1, <1>10
<1> HIDE DEF R
<1>12. DOMAIN R = S /\ \A v \in S : R[v] = Spelled(R, v)
  BY <1>11
<1>13. S \subseteq {v \in S : R[v] \in V}
  <2> DEFINE G == {v \in S : R[v] \in V}
  <2>1. ASSUME NEW v \in S, Items(v) \subseteq G PROVE v \in G
    <3>1. \A x \in Items(v) : R[x] \in TokenText
      BY <2>1 DEF V
    <3>2. v \in ValueOver(Items(v))
      <4>1. v \in ValueOver(Inner(n))
        BY <1>2
      <4>2. QED
        BY <4>1, ValueOfItems
    <3>3. Spelled(R, v) \in V
      BY <3>1, <3>2, SpelledType DEF V
    <3>4. QED
      BY <1>12, <3>3
  <2> HIDE DEF G
  <2>2. \A v \in Value[n] : Items(v) \subseteq G => v \in G
    BY <2>1 DEF S
  <2>3. S \subseteq G
    BY <2>2, ValueInduction DEF S
  <2>4. QED
    BY <2>3 DEF G
<1>14. R = [v \in S |-> R[v]]
  BY <1>11
<1>15. R \in [S -> V]
  BY <1>13, <1>14
<1>16. QED
  BY <1>0, <1>12, <1>15 DEF R, S, V

\* How deep the writer may go makes no difference to a value that is less deep.
LEMMA WrittenAgree ==
  ASSUME NEW n \in Nat, NEW l \in Nat, n <= l
  PROVE  \A v \in Value[n] : v \in Value[l] /\ Written(n)[v] = Written(l)[v]
<1> DEFINE G == {v \in Value[n] : Written(n)[v] = Written(l)[v]}
<1>1. Value[n] \subseteq Value[l]
  BY ValueGrows
<1>2. ASSUME NEW v \in Value[n], Items(v) \subseteq G PROVE v \in G
  <2>1. v \in ValueOver(Inner(n)) /\ v \in Value[l]
    BY <1>1, ValueRecursion
  <2>2. \A x \in Items(v) : Written(n)[x] = Written(l)[x]
    BY <1>2
  <2>3. Spelled(Written(n), v) = Spelled(Written(l), v)
    BY <2>1, <2>2, SpelledDepends
  <2>4. Written(n)[v] = Written(l)[v]
    BY <2>1, <2>3, WriteIntoRecursion
  <2>5. QED
    BY <2>4
<1> HIDE DEF G
<1>3. Value[n] \subseteq G
  BY <1>2, ValueInduction
<1>4. QED
  BY <1>1, <1>3 DEF G

-----------------------------------------------------------------------------
(***************************************************************************)
(* A text is the text of one value only: it is taken apart from its end.   *)
(***************************************************************************)
Cat(s, t) == s \o t
EndsWith(t, C) == t \in TokenText /\ Len(t) > 0 /\ Last(t).is \in C
EndsItem(t) == EndsWith(t, {"string", "scalar", "]", "}"})
EndsOpen(t) == EndsWith(t, {"[", "{"})
EndsComma(t) == EndsWith(t, {","})

LEMMA CatLaws ==
  ASSUME NEW s \in TokenText, NEW t \in TokenText
  PROVE  /\ Cat(s, t) \in TokenText
         /\ Len(t) > 0 => Len(Cat(s, t)) > 0 /\ Last(Cat(s, t)) = Last(t)
         /\ Cat(s, <<>>) = s /\ Cat(<<>>, t) = t
<1> DEFINE r == s \o t
<1>1. Len(s) \in Nat /\ Len(t) \in Nat
  BY LenProperties DEF TokenText
<1>2. /\ r \in TokenText /\ Len(r) = Len(s) + Len(t)
      /\ \A i \in 1..(Len(s) + Len(t)) : r[i] = IF i <= Len(s) THEN s[i] ELSE t[i - Len(s)]
  BY ConcatProperties DEF TokenText
<1> HIDE DEF r
<1>3. ASSUME Len(t) > 0 PROVE Len(r) > 0 /\ Last(r) = Last(t)
  <2>1. /\ Len(s) + Len(t) \in 1..(Len(s) + Len(t)) /\ ~(Len(s) + Len(t) <= Len(s))
        /\ (Len(s) + Len(t)) - Len(s) = Len(t)
    BY <1>1, <1>3
  <2>2. r[Len(s) + Len(t)] = t[Len(t)]
    BY <1>2, <2>1
  <2>3. QED
    BY <1>1, <1>2, <1>3, <2>2 DEF Last
<1>4. s \o <<>> = s /\ <<>> \o t = t
  BY TextLaws
<1>5. QED
  BY <1>2, <1>3, <1>4, Zenon DEF Cat, r

LEMMA CatAssoc ==
  ASSUME NEW s \in TokenText, NEW t \in TokenText, NEW u \in TokenText
  PROVE  Cat(s, Cat(t, u)) = Cat(Cat(s, t), u)
  BY Assoc DEF Cat

LEMMA CancelRight ==
  ASSUME NEW s \in TokenText, NEW t \in TokenText, NEW u \in TokenText, Cat(s, u) = Cat(t, u)
  PROVE  s = t
<1>1. \A S : \A a, b, v \in Seq(S) : a \o v = b \o v => a = b
  BY ConcatSimplifications
<1>2. QED
  BY <1>1, Zenon DEF TokenText, Cat

LEMMA CatEnds ==
  ASSUME NEW s \in TokenText, NEW t, NEW C, EndsWith(t, C)
  PROVE  EndsWith(Cat(s, t), C)
<1>1. t \in TokenText /\ Len(t) > 0 /\ Last(t).is \in C
  BY DEF EndsWith
<1>2. QED
  BY <1>1, CatLaws DEF EndsWith

LEMMA EndsDiffer ==
  /\ \A t : EndsItem(t) => ~EndsOpen(t) /\ ~EndsComma(t) /\ t \in TokenText
  /\ \A t : EndsOpen(t) => ~EndsComma(t) /\ t \in TokenText
<1>1. /\ \A c \in {"string", "scalar", "]", "}"} : c \notin {"[", "{"} /\ c \notin {","}
      /\ \A c \in {"[", "{"} : c \notin {","}
  BY Zenon
<1>2. QED
  BY <1>1, Zenon DEF EndsWith, EndsItem, EndsOpen, EndsComma

LEMMA OneEnds ==
  ASSUME NEW t, NEW c, NEW r, NEW C, IsOne(t, r), r.is = c, c \in C
  PROVE  EndsWith(t, C)
  BY DEF IsOne, Last, EndsWith

LEMMA MarkEnds ==
  /\ EndsOpen(ArrayBegin) /\ EndsOpen(ObjectBegin) /\ EndsComma(Comma)
  /\ EndsItem(ArrayEnd) /\ EndsItem(ObjectEnd)
<1>1. \A c : [is |-> c].is = c
  OBVIOUS
<1>2. \A t, c, C : IsOne(t, [is |-> c]) /\ c \in C => EndsWith(t, C)
  BY <1>1, OneEnds
<1>3. /\ "[" \in {"[", "{"} /\ "{" \in {"[", "{"} /\ "," \in {","}
      /\ "]" \in {"string", "scalar", "]", "}"} /\ "}" \in {"string", "scalar", "]", "}"}
  BY Zenon
<1>4. EndsOpen(ArrayBegin)
  BY <1>2, <1>3, Marks, Zenon DEF EndsOpen
<1>5. EndsOpen(ObjectBegin)
  BY <1>2, <1>3, Marks, Zenon DEF EndsOpen
<1>6. EndsComma(Comma)
  BY <1>2, <1>3, Marks, Zenon DEF EndsComma
<1>7. EndsItem(ArrayEnd)
  BY <1>2, <1>3, Marks, Zenon DEF EndsItem
<1>8. EndsItem(ObjectEnd)
  BY <1>2, <1>3, Marks, Zenon DEF EndsItem
<1>9. QED
  BY <1>4, <1>5, <1>6, <1>7, <1>8

\* The text x can be split off the end of a text that ends with a text in T.
SplitsOff(x, T) ==
  \A y \in T : \A s, t \in TokenText : Cat(s, x) = Cat(t, y) => x = y /\ s = t

\* What is before the next item: nothing, or the items so far and a comma.
Before(a, xs) == IF xs = <<>> THEN a ELSE Cat(Cat(a, Listed(xs)), Comma)

\* A list of texts, taken apart into its last and the others.
IsAppended(s, T, r, x) == r \in Seq(T) /\ x \in T /\ s = Append(r, x)

LEMMA TakenApart ==
  ASSUME NEW T, NEW s \in Seq(T), s # <<>>
  PROVE  \E r, x : IsAppended(s, T, r, x)
<1>1. \E r \in Seq(T), x \in T : s = Append(r, x)
  BY SequenceEmptyOrAppend
<1>2. QED
  BY <1>1 DEF IsAppended

LEMMA ListSplits ==
  ASSUME NEW a \in TokenText, NEW T, T \subseteq TokenText,
         NEW s, NEW r, NEW x, IsAppended(s, T, r, x)
  PROVE  /\ Before(a, r) \in TokenText
         /\ Cat(a, Listed(s)) = Cat(Before(a, r), x)
<1>1. r \in Seq(T) /\ x \in T /\ s = Append(r, x)
  BY DEF IsAppended
<1>2. r \in Seq(TokenText) /\ x \in TokenText
  BY <1>1, SeqMonotonic
<1> DEFINE l == Listed(r)
<1>3. l \in TokenText /\ Listed(s) = IF r = <<>> THEN x ELSE (l \o Comma) \o x
  BY <1>1, <1>2, ListedLaws
<1> HIDE DEF l
<1>4. Listed(s) = IF r = <<>> THEN x ELSE Cat(Cat(l, Comma), x)
  BY <1>3, Zenon DEF Cat
<1>5. /\ Comma \in TokenText /\ Cat(l, Comma) \in TokenText
      /\ Cat(a, l) \in TokenText /\ Cat(Cat(a, l), Comma) \in TokenText
  BY <1>3, MarksAreTexts, CatLaws
<1>6. Cat(a, Cat(Cat(l, Comma), x)) = Cat(Cat(a, Cat(l, Comma)), x)
  BY <1>2, <1>5, CatAssoc
<1>7. Cat(a, Cat(l, Comma)) = Cat(Cat(a, l), Comma)
  BY <1>3, <1>5, CatAssoc
<1>8. CASE r = <<>>
  <2>1. Before(a, r) = a /\ Listed(s) = x
    BY <1>4, <1>8 DEF Before
  <2>2. QED
    BY <2>1
<1>9. CASE r # <<>>
  <2>1. Before(a, r) = Cat(Cat(a, l), Comma) /\ Listed(s) = Cat(Cat(l, Comma), x)
    BY <1>4, <1>9 DEF Before, l
  <2>2. QED
    BY <1>5, <1>6, <1>7, <2>1
<1>10. QED
  BY <1>8, <1>9

\* Lists of items whose texts can be split off have different texts.
OneText(T, a, b, xs, ys) ==
  /\ \A i \in 1..Len(xs) : SplitsOff(xs[i], T)
  /\ Cat(a, Listed(xs)) = Cat(b, Listed(ys))
  => xs = ys /\ a = b

ListsDiffer(T, n) ==
  \A a, b, xs, ys :
    /\ EndsOpen(a) /\ EndsOpen(b) /\ xs \in Seq(T) /\ ys \in Seq(T) /\ Len(xs) = n
    => OneText(T, a, b, xs, ys)

LEMMA ListsDifferStep ==
  ASSUME NEW T, \A x \in T : EndsItem(x),
         NEW n \in Nat, \A m \in 0..(n - 1) : ListsDiffer(T, m)
  PROVE  ListsDiffer(T, n)
<1> SUFFICES ASSUME NEW a, NEW b, EndsOpen(a), EndsOpen(b),
                    NEW xs \in Seq(T), NEW ys \in Seq(T), Len(xs) = n
             PROVE  OneText(T, a, b, xs, ys)
  BY DEF ListsDiffer
<1>0. SUFFICES ASSUME \A i \in 1..Len(xs) : SplitsOff(xs[i], T),
                      Cat(a, Listed(xs)) = Cat(b, Listed(ys))
               PROVE  xs = ys /\ a = b
  BY DEF OneText
<1>1. a \in TokenText /\ b \in TokenText /\ T \subseteq TokenText
  BY EndsDiffer
<1>2. Listed(<<>>) = <<>>
  BY ListedLaws, EmptySeq
<1>3. Cat(a, <<>>) = a /\ Cat(b, <<>>) = b
  BY <1>1, CatLaws
<1>4. ASSUME NEW c \in TokenText, NEW s, NEW r, NEW x, IsAppended(s, T, r, x)
      PROVE  EndsItem(Cat(c, Listed(s)))
  <2>1. EndsItem(x)
    BY <1>4 DEF IsAppended
  <2>2. Before(c, r) \in TokenText /\ Cat(c, Listed(s)) = Cat(Before(c, r), x)
    BY <1>1, <1>4, ListSplits
  <2>3. EndsItem(Cat(Before(c, r), x))
    BY <2>1, <2>2, CatEnds, Zenon DEF EndsItem
  <2>4. QED
    BY <2>2, <2>3
<1>5. ASSUME NEW c \in TokenText, NEW r, r \in Seq(T), r # <<>>
      PROVE  EndsComma(Before(c, r))
  <2>1. r \in Seq(TokenText)
    BY <1>1, <1>5, SeqMonotonic
  <2>2. Cat(c, Listed(r)) \in TokenText
    BY <2>1, ListedLaws, CatLaws
  <2>3. EndsComma(Cat(Cat(c, Listed(r)), Comma))
    BY <2>2, MarkEnds, CatEnds, Zenon DEF EndsComma
  <2>4. QED
    BY <1>5, <2>3 DEF Before
<1>6. CASE xs = <<>> /\ ys = <<>>
  BY <1>0, <1>2, <1>3, <1>6
<1>7. CASE xs = <<>> /\ ys # <<>>
  <2>1. PICK r, x : IsAppended(ys, T, r, x)
    BY <1>7, TakenApart
  <2>2. EndsItem(Cat(b, Listed(ys)))
    BY <1>1, <1>4, <2>1
  <2>3. Cat(a, Listed(xs)) = a
    BY <1>2, <1>3, <1>7
  <2>4. QED
    BY <1>0, <2>2, <2>3, EndsDiffer
<1>8. CASE xs # <<>> /\ ys = <<>>
  <2>1. PICK r, x : IsAppended(xs, T, r, x)
    BY <1>8, TakenApart
  <2>2. EndsItem(Cat(a, Listed(xs)))
    BY <1>1, <1>4, <2>1
  <2>3. Cat(b, Listed(ys)) = b
    BY <1>2, <1>3, <1>8
  <2>4. QED
    BY <1>0, <2>2, <2>3, EndsDiffer
<1>9. CASE xs # <<>> /\ ys # <<>>
  <2>0. xs # <<>> /\ ys # <<>>
    BY <1>9
  <2>1. PICK vs, v : IsAppended(xs, T, vs, v)
    BY <2>0, TakenApart
  <2>2. PICK ws, w : IsAppended(ys, T, ws, w)
    BY <2>0, TakenApart
  <2>3. /\ xs = Append(vs, v) /\ vs \in Seq(T) /\ v \in T
        /\ ys = Append(ws, w) /\ ws \in Seq(T) /\ w \in T
    BY <2>1, <2>2 DEF IsAppended
  <2>4. /\ Len(xs) = Len(vs) + 1 /\ Len(vs) \in Nat
        /\ \A i \in 1..Len(vs) : xs[i] = vs[i]
        /\ xs[Len(vs) + 1] = v
    BY <2>3, AppendProperties, LenProperties
  <2>5. SplitsOff(v, T) /\ \A i \in 1..Len(vs) : SplitsOff(vs[i], T)
    BY <1>0, <2>4
  <2>6. Before(a, vs) \in TokenText /\ Cat(a, Listed(xs)) = Cat(Before(a, vs), v)
    BY <1>1, <2>1, ListSplits
  <2>7. Before(b, ws) \in TokenText /\ Cat(b, Listed(ys)) = Cat(Before(b, ws), w)
    BY <1>1, <2>2, ListSplits
  <2>8. Cat(Before(a, vs), v) = Cat(Before(b, ws), w)
    BY <1>0, <2>6, <2>7
  <2>9. v = w /\ Before(a, vs) = Before(b, ws)
    BY <2>3, <2>5, <2>6, <2>7, <2>8 DEF SplitsOff
  <2>10. CASE vs = <<>> /\ ws = <<>>
    <3>1. Before(a, vs) = a /\ Before(b, ws) = b
      BY <2>10 DEF Before
    <3>2. QED
      BY <2>3, <2>9, <2>10, <3>1
  <2>11. CASE vs = <<>> /\ ws # <<>>
    <3>1. Before(a, vs) = a
      BY <2>11 DEF Before
    <3>2. EndsComma(Before(b, ws))
      BY <1>1, <1>5, <2>3, <2>11
    <3>3. QED
      BY <2>9, <3>1, <3>2, EndsDiffer
  <2>12. CASE vs # <<>> /\ ws = <<>>
    <3>1. Before(b, ws) = b
      BY <2>12 DEF Before
    <3>2. EndsComma(Before(a, vs))
      BY <1>1, <1>5, <2>3, <2>12
    <3>3. QED
      BY <2>9, <3>1, <3>2, EndsDiffer
  <2>13. CASE vs # <<>> /\ ws # <<>>
    <3> DEFINE k == Cat(a, Listed(vs))
               l == Cat(b, Listed(ws))
    <3>1. k \in TokenText /\ l \in TokenText
      <4>1. vs \in Seq(TokenText) /\ ws \in Seq(TokenText)
        BY <1>1, <2>3, SeqMonotonic
      <4>2. QED
        BY <1>1, <4>1, ListedLaws, CatLaws
    <3>2. Cat(k, Comma) = Cat(l, Comma)
      BY <2>9, <2>13 DEF Before
    <3>3. k = l
      <4> HIDE DEF k, l
      <4>1. QED
        BY <3>1, <3>2, MarksAreTexts, CancelRight
    <3>4. ListsDiffer(T, Len(vs))
      BY <2>4
    <3>5. OneText(T, a, b, vs, ws)
      BY <2>3, <3>4 DEF ListsDiffer
    <3>6. vs = ws /\ a = b
      BY <2>5, <3>3, <3>5 DEF OneText
    <3>7. QED
      BY <2>3, <2>9, <3>6
  <2>14. QED
    BY <2>10, <2>11, <2>12, <2>13
<1>10. QED
  BY <1>6, <1>7, <1>8, <1>9

LEMMA ListsHaveOneText ==
  ASSUME NEW T, \A x \in T : EndsItem(x), NEW n \in Nat
  PROVE  ListsDiffer(T, n)
<1> DEFINE G == {m \in 0..n : ListsDiffer(T, m)}
<1>1. ASSUME NEW m \in 0..n, \A j \in 0..(m - 1) : j \in G PROVE m \in G
  <2>1. \A j \in 0..(m - 1) : ListsDiffer(T, j)
    BY <1>1
  <2>2. m \in Nat
    OBVIOUS
  <2>3. ListsDiffer(T, m)
    BY <2>1, <2>2, ListsDifferStep
  <2>4. QED
    BY <2>3
<1> HIDE DEF G
<1>2. \A m \in 0..n : m \in G
  BY <1>1, UpTo
<1>3. n \in 0..n
  OBVIOUS
<1>4. QED
  BY <1>2, <1>3 DEF G

\* The last token of the text of v.
Ending(v) ==
  IF v.kind = "object" THEN "}" ELSE IF v.kind = "array" THEN "]"
  ELSE IF v.kind = "string" THEN "string" ELSE "scalar"

LEMMA ValueKinds ==
  ASSUME NEW S, NEW v \in ValueOver(S)
  PROVE  /\ v.kind = "string" => \E s \in Nat : v = Str(s)
         /\ v.kind = "scalar" => \E x \in Nat : v = Scalar(x)
         /\ v.kind = "array" => \E vs \in Seq(S) : v = Arr(vs)
         /\ v.kind = "object" => \E ms \in Seq(MemberOver(S)) : NamedOnce(ms) /\ v = Obj(ms)
         /\ v.kind \in {"string", "scalar", "array", "object"}
<1>1. \/ \E s \in Nat : v = Str(s)
      \/ \E x \in Nat : v = Scalar(x)
      \/ \E vs \in Seq(S) : v = Arr(vs)
      \/ \E ms \in Seq(MemberOver(S)) : NamedOnce(ms) /\ v = Obj(ms)
  BY ValueOverCases
<1>2. /\ \A s : Str(s).kind = "string" /\ \A x : Scalar(x).kind = "scalar"
      /\ \A vs : Arr(vs).kind = "array" /\ \A ms : Obj(ms).kind = "object"
  BY Constructors
<1>3. QED
  BY <1>1, <1>2

LEMMA EndingTellsKind ==
  ASSUME NEW S, NEW v \in ValueOver(S), NEW w \in ValueOver(S), Ending(v) = Ending(w)
  PROVE  v.kind = w.kind
<1>1. /\ v.kind \in {"string", "scalar", "array", "object"}
      /\ w.kind \in {"string", "scalar", "array", "object"}
  BY ValueKinds
<1> DEFINE E(c) == IF c = "object" THEN "}" ELSE IF c = "array" THEN "]"
                   ELSE IF c = "string" THEN "string" ELSE "scalar"
<1>2. E("string") = "string" /\ E("scalar") = "scalar" /\ E("array") = "]" /\ E("object") = "}"
  BY Zenon
<1>3. E(v.kind) = E(w.kind)
  BY Zenon DEF Ending
<1> HIDE DEF E
<1>4. QED
  BY <1>1, <1>2, <1>3, Zenon

LEMMA WordSplits ==
  ASSUME NEW c \in {"string", "scalar"}, NEW x \in Nat, NEW y \in Nat,
         NEW s \in TokenText, NEW t \in TokenText, Cat(s, Word(c, x)) = Cat(t, Word(c, y))
  PROVE  x = y /\ s = t
<1>1. /\ IsOne(Word(c, x), [is |-> c, text |-> x]) /\ IsOne(Word(c, y), [is |-> c, text |-> y])
  BY WordIsText
<1>2. /\ Word(c, x) \in TokenText /\ Len(Word(c, x)) > 0
      /\ Last(Word(c, x)) = [is |-> c, text |-> x]
      /\ Word(c, y) \in TokenText /\ Len(Word(c, y)) > 0
      /\ Last(Word(c, y)) = [is |-> c, text |-> y]
  BY <1>1 DEF IsOne, Last
<1>3. Last(Word(c, x)) = Last(Word(c, y))
  BY <1>2, CatLaws
<1>4. x = y
  BY <1>2, <1>3
<1>5. QED
  BY <1>2, <1>4, CancelRight

LEMMA NamedIsCat ==
  ASSUME NEW k \in Nat, NEW t \in TokenText
  PROVE  /\ Word("string", k) \in TokenText /\ Colon \in TokenText
         /\ Cat(Word("string", k), Colon) \in TokenText
         /\ Named(k, t) = Cat(Cat(Word("string", k), Colon), t)
         /\ Named(k, t) \in TokenText
<1>1. Word("string", k) \in TokenText /\ Colon \in TokenText
  BY WordIsText, MarksAreTexts DEF IsOne
<1>2. Named(k, t) = Cat(Cat(Word("string", k), Colon), t) /\ Named(k, t) \in TokenText
  BY NamedIsText, Zenon DEF Cat
<1>3. QED
  BY <1>1, <1>2, CatLaws

LEMMA WrittenCases ==
  ASSUME NEW n \in Nat
  PROVE  /\ \A s \in Nat : Written(n)[Str(s)] = Word("string", s)
         /\ \A x \in Nat : Written(n)[Scalar(x)] = Word("scalar", x)
         /\ \A vs \in Seq(Inner(n)) :
              /\ Listed(ArrayTexts(Written(n), vs)) \in TokenText
              /\ Written(n)[Arr(vs)] =
                   Cat(Cat(ArrayBegin, Listed(ArrayTexts(Written(n), vs))), ArrayEnd)
         /\ \A ms \in Seq(MemberOver(Inner(n))) :
              /\ Listed(ObjectTexts(Written(n), ms)) \in TokenText
              /\ NamedOnce(ms) =>
                   Written(n)[Obj(ms)] =
                     Cat(Cat(ObjectBegin, Listed(ObjectTexts(Written(n), ms))), ObjectEnd)
<1> DEFINE W == Written(n)
<1>1. \A v \in ValueOver(Inner(n)) : W[v] = Spelled(W, v)
  BY WriteIntoRecursion, ValueRecursion
<1>2. \A x \in Inner(n) : W[x] \in TokenText
  <2>1. Inner(n) \subseteq Value[n]
    BY ValueGrows
  <2>2. QED
    BY <2>1, WriteIntoRecursion
<1> HIDE DEF W
<1>3. /\ \A vs \in Seq(Inner(n)) : Listed(ArrayTexts(W, vs)) \in TokenText
      /\ \A ms \in Seq(MemberOver(Inner(n))) : Listed(ObjectTexts(W, ms)) \in TokenText
  BY <1>2, ArrayTextsType, ObjectTextsType, ListedLaws
<1>4. /\ \A s \in Nat : Str(s) \in ValueOver(Inner(n))
      /\ \A x \in Nat : Scalar(x) \in ValueOver(Inner(n))
      /\ \A vs \in Seq(Inner(n)) : Arr(vs) \in ValueOver(Inner(n))
      /\ \A ms \in Seq(MemberOver(Inner(n))) : NamedOnce(ms) => Obj(ms) \in ValueOver(Inner(n))
  BY ValueOverCases, Zenon
<1>5. /\ \A vs : Spelled(W, Arr(vs)) = Cat(Cat(ArrayBegin, Listed(ArrayTexts(W, vs))), ArrayEnd)
      /\ \A ms : Spelled(W, Obj(ms)) = Cat(Cat(ObjectBegin, Listed(ObjectTexts(W, ms))), ObjectEnd)
  BY SpelledCases, Zenon DEF Cat
<1>6. \A s \in Nat : W[Str(s)] = Word("string", s)
  BY <1>1, <1>4, SpelledCases
<1>7. \A x \in Nat : W[Scalar(x)] = Word("scalar", x)
  BY <1>1, <1>4, SpelledCases
<1>8. \A vs \in Seq(Inner(n)) :
        W[Arr(vs)] = Cat(Cat(ArrayBegin, Listed(ArrayTexts(W, vs))), ArrayEnd)
  BY <1>1, <1>4, <1>5
<1>9. \A ms \in Seq(MemberOver(Inner(n))) :
        NamedOnce(ms) =>
          W[Obj(ms)] = Cat(Cat(ObjectBegin, Listed(ObjectTexts(W, ms))), ObjectEnd)
  BY <1>1, <1>4, <1>5
<1>10. QED
  BY <1>3, <1>6, <1>7, <1>8, <1>9 DEF W

LEMMA BracketEnds ==
  ASSUME NEW t \in TokenText
  PROVE  /\ EndsWith(Cat(t, ArrayEnd), {"]"})
         /\ EndsWith(Cat(t, ObjectEnd), {"}"})
<1>1. \A c : [is |-> c].is = c
  OBVIOUS
<1>2. \A u, c, C : IsOne(u, [is |-> c]) /\ c \in C => EndsWith(u, C)
  BY <1>1, OneEnds
<1>3. EndsWith(ArrayEnd, {"]"}) /\ EndsWith(ObjectEnd, {"}"})
  BY <1>2, Marks, Zenon
<1>4. QED
  BY <1>3, CatEnds, Zenon

LEMMA WrittenEnds ==
  ASSUME NEW n \in Nat, NEW v \in Value[n]
  PROVE  EndsWith(Written(n)[v], {Ending(v)}) /\ EndsItem(Written(n)[v])
<1>1. v \in ValueOver(Inner(n))
  BY ValueRecursion
<1>2. /\ \A s : Str(s).kind = "string" /\ \A x : Scalar(x).kind = "scalar"
      /\ \A vs : Arr(vs).kind = "array" /\ \A ms : Obj(ms).kind = "object"
  BY Constructors
<1>3. EndsWith(Written(n)[v], {Ending(v)})
  <2>1. CASE \E s \in Nat : v = Str(s)
    <3>1. PICK s \in Nat : v = Str(s)
      BY <2>1
    <3>2. Written(n)[v] = Word("string", s)
      BY <3>1, WrittenCases
    <3>3. Ending(v) = "string"
      BY <1>2, <3>1, Zenon DEF Ending
    <3>4. IsOne(Word("string", s), [is |-> "string", text |-> s])
      BY WordIsText
    <3>5. [is |-> "string", text |-> s].is = "string" /\ "string" \in {"string"}
      OBVIOUS
    <3>6. EndsWith(Word("string", s), {"string"})
      BY <3>4, <3>5, OneEnds
    <3>7. QED
      BY <3>2, <3>3, <3>6
  <2>2. CASE \E x \in Nat : v = Scalar(x)
    <3>1. PICK x \in Nat : v = Scalar(x)
      BY <2>2
    <3>2. Written(n)[v] = Word("scalar", x)
      BY <3>1, WrittenCases
    <3>3. Ending(v) = "scalar"
      BY <1>2, <3>1, Zenon DEF Ending
    <3>4. IsOne(Word("scalar", x), [is |-> "scalar", text |-> x])
      BY WordIsText
    <3>5. [is |-> "scalar", text |-> x].is = "scalar" /\ "scalar" \in {"scalar"}
      OBVIOUS
    <3>6. EndsWith(Word("scalar", x), {"scalar"})
      BY <3>4, <3>5, OneEnds
    <3>7. QED
      BY <3>2, <3>3, <3>6
  <2>3. CASE \E vs \in Seq(Inner(n)) : v = Arr(vs)
    <3>1. PICK vs \in Seq(Inner(n)) : v = Arr(vs)
      BY <2>3
    <3> DEFINE l == Cat(ArrayBegin, Listed(ArrayTexts(Written(n), vs)))
    <3>2. l \in TokenText
      BY WrittenCases, MarksAreTexts, CatLaws
    <3>3. Written(n)[v] = Cat(l, ArrayEnd)
      BY <3>1, WrittenCases
    <3>4. Ending(v) = "]"
      BY <1>2, <3>1, Zenon DEF Ending
    <3> HIDE DEF l
    <3>5. EndsWith(Cat(l, ArrayEnd), {"]"})
      BY <3>2, BracketEnds, Zenon
    <3>6. QED
      BY <3>3, <3>4, <3>5, Zenon
  <2>4. CASE \E ms \in Seq(MemberOver(Inner(n))) : NamedOnce(ms) /\ v = Obj(ms)
    <3>1. PICK ms \in Seq(MemberOver(Inner(n))) : NamedOnce(ms) /\ v = Obj(ms)
      BY <2>4
    <3> DEFINE l == Cat(ObjectBegin, Listed(ObjectTexts(Written(n), ms)))
    <3>2. l \in TokenText
      BY WrittenCases, MarksAreTexts, CatLaws
    <3>3. Written(n)[v] = Cat(l, ObjectEnd)
      BY <3>1, WrittenCases
    <3>4. Ending(v) = "}"
      BY <1>2, <3>1, Zenon DEF Ending
    <3> HIDE DEF l
    <3>5. EndsWith(Cat(l, ObjectEnd), {"}"})
      BY <3>2, BracketEnds, Zenon
    <3>6. QED
      BY <3>3, <3>4, <3>5, Zenon
  <2>5. QED
    BY <1>1, <2>1, <2>2, <2>3, <2>4, ValueOverCases
<1>4. \A t, c, C : EndsWith(t, {c}) /\ c \in C => EndsWith(t, C)
  BY DEF EndsWith
<1>5. Ending(v) \in {"string", "scalar", "]", "}"}
  BY Zenon DEF Ending
<1>6. QED
  BY <1>3, <1>4, <1>5, Zenon DEF EndsItem

\* The text of v is that of no other value, whatever is before it.
ReadsBack(n, v) ==
  \A w \in Value[n] : \A s, t \in TokenText :
    Cat(s, Written(n)[v]) = Cat(t, Written(n)[w]) => v = w /\ s = t

LEMMA NamedReadsBack ==
  ASSUME NEW n \in Nat, NEW v \in Value[n], ReadsBack(n, v), NEW w \in Value[n],
         NEW k \in Nat, NEW l \in Nat, NEW s \in TokenText, NEW t \in TokenText,
         Cat(s, Named(k, Written(n)[v])) = Cat(t, Named(l, Written(n)[w]))
  PROVE  k = l /\ v = w /\ s = t
<1> DEFINE x == Written(n)[v]
           y == Written(n)[w]
           K == Word("string", k)
           L == Word("string", l)
<1>1. x \in TokenText /\ y \in TokenText
  BY WriteIntoRecursion
<1>2. /\ K \in TokenText /\ L \in TokenText /\ Colon \in TokenText
      /\ Cat(K, Colon) \in TokenText /\ Cat(L, Colon) \in TokenText
      /\ Named(k, x) = Cat(Cat(K, Colon), x) /\ Named(l, y) = Cat(Cat(L, Colon), y)
  BY <1>1, NamedIsCat
<1>3. Cat(s, Cat(Cat(K, Colon), x)) = Cat(t, Cat(Cat(L, Colon), y))
  BY <1>2
<1>4. \A p, q \in TokenText : Cat(p, x) = Cat(q, y) => v = w /\ p = q
  BY DEF ReadsBack
<1> HIDE DEF x, y, K, L
<1>5. Cat(Cat(s, Cat(K, Colon)), x) = Cat(Cat(t, Cat(L, Colon)), y)
  BY <1>1, <1>2, <1>3, CatAssoc
<1>6. Cat(s, Cat(K, Colon)) \in TokenText /\ Cat(t, Cat(L, Colon)) \in TokenText
  BY <1>2, CatLaws
<1>7. v = w /\ Cat(s, Cat(K, Colon)) = Cat(t, Cat(L, Colon))
  BY <1>4, <1>5, <1>6
<1>8. Cat(Cat(s, K), Colon) = Cat(Cat(t, L), Colon)
  BY <1>2, <1>7, CatAssoc
<1>9. Cat(s, K) = Cat(t, L)
  BY <1>2, <1>8, CatLaws, CancelRight
<1>10. k = l /\ s = t
  BY <1>9, WordSplits DEF K, L
<1>11. QED
  BY <1>7, <1>10

AllSplitOff(xs, T) == \A i \in 1..Len(xs) : SplitsOff(xs[i], T)
ItemsEnd(T) == \A x \in T : EndsItem(x)
Bracketed(s, o, xs, e) == Cat(s, Cat(Cat(o, Listed(xs)), e))

\* Brackets around two lists.
LEMMA ContainerSplits ==
  ASSUME NEW T, ItemsEnd(T), NEW o, EndsOpen(o), NEW e \in TokenText,
         NEW xs \in Seq(T), NEW ys \in Seq(T), AllSplitOff(xs, T),
         Listed(xs) \in TokenText, Listed(ys) \in TokenText,
         NEW s \in TokenText, NEW t \in TokenText,
         Bracketed(s, o, xs, e) = Bracketed(t, o, ys, e)
  PROVE  xs = ys /\ s = t
<1> DEFINE l == Listed(xs)
           m == Listed(ys)
<1>1. o \in TokenText /\ l \in TokenText /\ m \in TokenText
  BY EndsDiffer
<1>2. /\ EndsOpen(Cat(s, o)) /\ EndsOpen(Cat(t, o))
      /\ Cat(s, o) \in TokenText /\ Cat(t, o) \in TokenText
  <2>1. EndsOpen(Cat(s, o)) /\ EndsOpen(Cat(t, o))
    BY CatEnds, Zenon DEF EndsOpen
  <2>2. QED
    BY <2>1, EndsDiffer
<1>3. Cat(s, Cat(Cat(o, l), e)) = Cat(t, Cat(Cat(o, m), e))
  BY DEF Bracketed
<1>4. Len(xs) \in Nat
  BY LenProperties
<1>5. ListsDiffer(T, Len(xs))
  BY <1>4, ListsHaveOneText DEF ItemsEnd
<1>6. OneText(T, Cat(s, o), Cat(t, o), xs, ys)
  BY <1>2, <1>5 DEF ListsDiffer
<1>7. Cat(Cat(s, o), l) = Cat(Cat(t, o), m) => xs = ys /\ Cat(s, o) = Cat(t, o)
  BY <1>6 DEF OneText, AllSplitOff
<1> HIDE DEF l, m
<1>8. Cat(o, l) \in TokenText /\ Cat(o, m) \in TokenText
  BY <1>1, CatLaws
<1>9. Cat(Cat(s, Cat(o, l)), e) = Cat(Cat(t, Cat(o, m)), e)
  BY <1>3, <1>8, CatAssoc
<1>10. Cat(s, Cat(o, l)) = Cat(t, Cat(o, m))
  BY <1>8, <1>9, CatLaws, CancelRight
<1>11. Cat(Cat(s, o), l) = Cat(Cat(t, o), m)
  BY <1>1, <1>10, CatAssoc
<1>12. xs = ys /\ Cat(s, o) = Cat(t, o)
  BY <1>7, <1>11
<1>13. QED
  BY <1>1, <1>12, CancelRight

LEMMA TextsOfItems ==
  ASSUME NEW n \in Nat
  PROVE  /\ \A us \in Seq(Inner(n)) :
              /\ Len(ArrayTexts(Written(n), us)) = Len(us)
              /\ \A i \in 1..Len(us) : ArrayTexts(Written(n), us)[i] = Written(n)[us[i]]
              /\ ArrayTexts(Written(n), us) \in Seq(TokenText)
         /\ \A us \in Seq(MemberOver(Inner(n))) :
              /\ Len(ObjectTexts(Written(n), us)) = Len(us)
              /\ \A i \in 1..Len(us) :
                   ObjectTexts(Written(n), us)[i] = Named(us[i].key, Written(n)[us[i].value])
              /\ ObjectTexts(Written(n), us) \in Seq(TokenText)
<1> DEFINE W == Written(n)
<1>1. \A x \in Inner(n) : W[x] \in TokenText
  BY ValueGrows, WriteIntoRecursion
<1> HIDE DEF W
<1>2. ASSUME NEW us \in Seq(Inner(n))
      PROVE  /\ Len(ArrayTexts(W, us)) = Len(us)
             /\ \A i \in 1..Len(us) : ArrayTexts(W, us)[i] = W[us[i]]
             /\ ArrayTexts(W, us) \in Seq(TokenText)
  BY <1>1, ArrayTextsType
<1>3. ASSUME NEW us \in Seq(MemberOver(Inner(n)))
      PROVE  /\ Len(ObjectTexts(W, us)) = Len(us)
             /\ \A i \in 1..Len(us) : ObjectTexts(W, us)[i] = Named(us[i].key, W[us[i].value])
             /\ ObjectTexts(W, us) \in Seq(TokenText)
  BY <1>1, ObjectTextsType
<1>4. QED
  BY <1>2, <1>3 DEF W

AllReadBack(n, vs) == \A i \in 1..Len(vs) : ReadsBack(n, vs[i])

LEMMA ArrayReadsBack ==
  ASSUME NEW n \in Nat, NEW vs \in Seq(Inner(n)), NEW ws \in Seq(Inner(n)),
         AllReadBack(n, vs),
         NEW s \in TokenText, NEW t \in TokenText,
         Cat(s, Written(n)[Arr(vs)]) = Cat(t, Written(n)[Arr(ws)])
  PROVE  vs = ws /\ s = t
<1> DEFINE W == Written(n)
           T == {W[x] : x \in Inner(n)}
           xs == ArrayTexts(W, vs)
           ys == ArrayTexts(W, ws)
<1>1. Inner(n) \subseteq Value[n]
  BY ValueGrows
<1>2. \A x \in Inner(n) : W[x] \in TokenText /\ EndsItem(W[x])
  BY <1>1, WriteIntoRecursion, WrittenEnds
<1>3. Len(vs) \in Nat /\ Len(ws) \in Nat
      /\ (\A i \in 1..Len(vs) : vs[i] \in Inner(n)) /\ (\A i \in 1..Len(ws) : ws[i] \in Inner(n))
  BY LenProperties, ElementOfSeq
<1>4. /\ Len(xs) = Len(vs) /\ \A i \in 1..Len(vs) : xs[i] = W[vs[i]]
      /\ Len(ys) = Len(ws) /\ \A i \in 1..Len(ws) : ys[i] = W[ws[i]]
      /\ xs \in Seq(TokenText) /\ ys \in Seq(TokenText)
  BY TextsOfItems DEF W
<1>5. /\ Listed(xs) \in TokenText /\ Listed(ys) \in TokenText
      /\ W[Arr(vs)] = Cat(Cat(ArrayBegin, Listed(xs)), ArrayEnd)
      /\ W[Arr(ws)] = Cat(Cat(ArrayBegin, Listed(ys)), ArrayEnd)
  BY WrittenCases
<1> HIDE DEF W, xs, ys
<1>6. (\A i \in 1..Len(vs) : xs[i] \in T) /\ (\A i \in 1..Len(ws) : ys[i] \in T)
  BY <1>3, <1>4
<1>7. \A x \in T : EndsItem(x)
  BY <1>2
<1>8. ASSUME NEW i \in 1..Len(xs) PROVE SplitsOff(xs[i], T)
  <2>1. ReadsBack(n, vs[i]) /\ xs[i] = W[vs[i]]
    BY <1>4 DEF AllReadBack
  <2>2. ASSUME NEW y \in T, NEW p \in TokenText, NEW q \in TokenText, Cat(p, xs[i]) = Cat(q, y)
        PROVE  xs[i] = y /\ p = q
    <3>1. PICK w \in Inner(n) : y = W[w]
      OBVIOUS
    <3>2. vs[i] = w /\ p = q
      BY <1>1, <2>1, <2>2, <3>1 DEF ReadsBack, W
    <3>3. QED
      BY <2>1, <3>1, <3>2
  <2>3. QED
    BY <2>2 DEF SplitsOff
<1> HIDE DEF T
<1>9. xs \in Seq(T) /\ ys \in Seq(T)
  <2>1. xs = [i \in 1..Len(xs) |-> xs[i]] /\ ys = [i \in 1..Len(ys) |-> ys[i]]
    BY <1>4, LenProperties
  <2>2. xs \in [1..Len(xs) -> T] /\ ys \in [1..Len(ys) -> T]
    BY <1>4, <1>6, <2>1
  <2>3. Len(xs) \in Nat /\ Len(ys) \in Nat
    BY <1>3, <1>4
  <2>4. QED
    BY <2>2, <2>3, SeqDef
<1>10. Bracketed(s, ArrayBegin, xs, ArrayEnd) = Bracketed(t, ArrayBegin, ys, ArrayEnd)
  BY <1>5 DEF Bracketed, W
<1>11. xs = ys /\ s = t
  <2>1. EndsOpen(ArrayBegin) /\ ArrayEnd \in TokenText
    BY MarkEnds, MarksAreTexts
  <2>2. AllSplitOff(xs, T) /\ ItemsEnd(T)
    BY <1>7, <1>8 DEF AllSplitOff, ItemsEnd
  <2>3. QED
    BY <1>5, <1>9, <1>10, <2>1, <2>2, ContainerSplits
<1>12. ASSUME NEW i \in 1..Len(vs) PROVE vs[i] = ws[i]
  <2>1. i \in 1..Len(ws) /\ W[vs[i]] = W[ws[i]]
    BY <1>4, <1>11
  <2>2. ReadsBack(n, vs[i]) /\ ws[i] \in Value[n] /\ <<>> \in TokenText
    BY <1>1, <1>3, <2>1, MarksAreTexts DEF AllReadBack
  <2>3. Cat(<<>>, W[vs[i]]) = Cat(<<>>, W[ws[i]])
    BY <2>1
  <2>4. QED
    BY <2>2, <2>3, Zenon DEF ReadsBack, W
<1>13. vs = ws
  BY <1>4, <1>11, <1>12, SeqEqual
<1>14. QED
  BY <1>11, <1>13

AllMembersReadBack(n, ms) == \A i \in 1..Len(ms) : ReadsBack(n, ms[i].value)

LEMMA ObjectReadsBack ==
  ASSUME NEW n \in Nat, NEW vs \in Seq(MemberOver(Inner(n))), NEW ws \in Seq(MemberOver(Inner(n))),
         NamedOnce(vs), NamedOnce(ws),
         AllMembersReadBack(n, vs),
         NEW s \in TokenText, NEW t \in TokenText,
         Cat(s, Written(n)[Obj(vs)]) = Cat(t, Written(n)[Obj(ws)])
  PROVE  vs = ws /\ s = t
<1> DEFINE W == Written(n)
           M == MemberOver(Inner(n))
           T == {Named(m.key, W[m.value]) : m \in M}
           xs == ObjectTexts(W, vs)
           ys == ObjectTexts(W, ws)
<1>1. \A m \in M : m.key \in Nat /\ m.value \in Inner(n) /\ m.value \in Value[n]
  BY ValueGrows DEF MemberOver
<1>2. ASSUME NEW m \in M
      PROVE  W[m.value] \in TokenText /\ Named(m.key, W[m.value]) \in TokenText
             /\ EndsItem(Named(m.key, W[m.value]))
  <2> DEFINE x == W[m.value]
  <2>1. m.key \in Nat /\ m.value \in Value[n]
    BY <1>1
  <2>2. x \in TokenText /\ EndsItem(x)
    BY <2>1, WriteIntoRecursion, WrittenEnds
  <2> HIDE DEF x
  <2>3. /\ Cat(Word("string", m.key), Colon) \in TokenText
        /\ Named(m.key, x) = Cat(Cat(Word("string", m.key), Colon), x)
        /\ Named(m.key, x) \in TokenText
    BY <2>1, <2>2, NamedIsCat
  <2>4. EndsItem(Named(m.key, x))
    BY <2>2, <2>3, CatEnds, Zenon DEF EndsItem
  <2>5. QED
    BY <2>2, <2>3, <2>4 DEF x
<1>3. Len(vs) \in Nat /\ Len(ws) \in Nat
      /\ (\A i \in 1..Len(vs) : vs[i] \in M) /\ (\A i \in 1..Len(ws) : ws[i] \in M)
  BY LenProperties, ElementOfSeq
<1>4. /\ Len(xs) = Len(vs) /\ \A i \in 1..Len(vs) : xs[i] = Named(vs[i].key, W[vs[i].value])
      /\ Len(ys) = Len(ws) /\ \A i \in 1..Len(ws) : ys[i] = Named(ws[i].key, W[ws[i].value])
      /\ xs \in Seq(TokenText) /\ ys \in Seq(TokenText)
  BY TextsOfItems
<1>5. /\ Listed(xs) \in TokenText /\ Listed(ys) \in TokenText
      /\ W[Obj(vs)] = Cat(Cat(ObjectBegin, Listed(xs)), ObjectEnd)
      /\ W[Obj(ws)] = Cat(Cat(ObjectBegin, Listed(ys)), ObjectEnd)
  BY WrittenCases
<1>6. (\A i \in 1..Len(vs) : xs[i] \in T) /\ (\A i \in 1..Len(ws) : ys[i] \in T)
  <2> HIDE DEF xs, ys, M
  <2>1. QED
    BY <1>3, <1>4
<1>7. \A x \in T : EndsItem(x)
  BY <1>2
<1> HIDE DEF xs, ys, M
<1>8. ASSUME NEW i \in 1..Len(xs) PROVE SplitsOff(xs[i], T)
  <2>1. ReadsBack(n, vs[i].value) /\ xs[i] = Named(vs[i].key, W[vs[i].value]) /\ vs[i] \in M
    BY <1>3, <1>4 DEF AllMembersReadBack
  <2>2. ASSUME NEW y \in T, NEW p \in TokenText, NEW q \in TokenText, Cat(p, xs[i]) = Cat(q, y)
        PROVE  xs[i] = y /\ p = q
    <3>1. PICK m \in M : y = Named(m.key, W[m.value])
      OBVIOUS
    <3>2. vs[i].key = m.key /\ vs[i].value = m.value /\ p = q
      BY <1>1, <2>1, <2>2, <3>1, NamedReadsBack
    <3>3. QED
      BY <2>1, <3>1, <3>2
  <2>3. QED
    BY <2>2 DEF SplitsOff
<1> HIDE DEF T
<1>9. xs \in Seq(T) /\ ys \in Seq(T)
  <2>1. xs = [i \in 1..Len(xs) |-> xs[i]] /\ ys = [i \in 1..Len(ys) |-> ys[i]]
    BY <1>4, LenProperties
  <2>2. xs \in [1..Len(xs) -> T] /\ ys \in [1..Len(ys) -> T]
    BY <1>4, <1>6, <2>1
  <2>3. Len(xs) \in Nat /\ Len(ys) \in Nat
    BY <1>3, <1>4
  <2>4. QED
    BY <2>2, <2>3, SeqDef
<1>10. Bracketed(s, ObjectBegin, xs, ObjectEnd) = Bracketed(t, ObjectBegin, ys, ObjectEnd)
  BY <1>5 DEF Bracketed
<1> HIDE DEF W
<1>11. xs = ys /\ s = t
  <2>1. EndsOpen(ObjectBegin) /\ ObjectEnd \in TokenText
    BY MarkEnds, MarksAreTexts
  <2>2. AllSplitOff(xs, T) /\ ItemsEnd(T)
    BY <1>7, <1>8 DEF AllSplitOff, ItemsEnd
  <2>3. QED
    BY <1>5, <1>9, <1>10, <2>1, <2>2, ContainerSplits
<1>12. ASSUME NEW i \in 1..Len(vs) PROVE vs[i] = ws[i]
  <2> DEFINE m == vs[i]
             o == ws[i]
  <2>1. i \in 1..Len(ws) /\ m \in M /\ o \in M /\ ReadsBack(n, m.value)
        /\ Named(m.key, W[m.value]) = Named(o.key, W[o.value])
    BY <1>3, <1>4, <1>11 DEF AllMembersReadBack
  <2>2. m.key \in Nat /\ o.key \in Nat /\ m.value \in Value[n] /\ o.value \in Value[n]
        /\ <<>> \in TokenText
    BY <1>1, <2>1, MarksAreTexts
  <2> HIDE DEF m, o
  <2>3. Cat(<<>>, Named(m.key, W[m.value])) = Cat(<<>>, Named(o.key, W[o.value]))
    BY <2>1
  <2>4. m.key = o.key /\ m.value = o.value
    BY <2>1, <2>2, <2>3, NamedReadsBack DEF W
  <2>5. m = o
    <3>1. \A a, b \in MemberOver(Inner(n)) : a.key = b.key /\ a.value = b.value => a = b
      BY DEF MemberOver
    <3>2. QED
      BY <2>1, <2>4, <3>1 DEF M
  <2>6. QED
    BY <2>5 DEF m, o
<1>13. vs = ws
  BY <1>4, <1>11, <1>12, SeqEqual
<1>14. QED
  BY <1>11, <1>13

LEMMA WrittenReadsBack ==
  ASSUME NEW n \in Nat
  PROVE  \A v \in Value[n] : ReadsBack(n, v)
<1> DEFINE G == {v \in Value[n] : ReadsBack(n, v)}
<1>1. ASSUME NEW v \in Value[n], Items(v) \subseteq G PROVE v \in G
  <2>1. SUFFICES ASSUME NEW w \in Value[n], NEW s \in TokenText, NEW t \in TokenText,
                        Cat(s, Written(n)[v]) = Cat(t, Written(n)[w])
                 PROVE  v = w /\ s = t
    BY DEF ReadsBack
  <2>2. v \in ValueOver(Inner(n)) /\ w \in ValueOver(Inner(n))
    BY ValueRecursion
  <2> DEFINE x == Written(n)[v]
             y == Written(n)[w]
  <2>3. EndsWith(Cat(s, x), {Ending(v)}) /\ EndsWith(Cat(t, y), {Ending(w)})
    <3>1. EndsWith(x, {Ending(v)}) /\ EndsWith(y, {Ending(w)})
      BY WrittenEnds
    <3> HIDE DEF x, y
    <3>2. QED
      BY <3>1, CatEnds
  <2>4. Ending(v) = Ending(w)
    BY <2>1, <2>3 DEF EndsWith
  <2>5. v.kind = w.kind
    BY <2>2, <2>4, EndingTellsKind
  <2>6. CASE v.kind = "string"
    <3>1. PICK a \in Nat : v = Str(a)
      BY <2>2, <2>6, ValueKinds
    <3>2. PICK b \in Nat : w = Str(b)
      BY <2>2, <2>5, <2>6, ValueKinds
    <3>3. x = Word("string", a) /\ y = Word("string", b)
      BY <3>1, <3>2, WrittenCases
    <3>4. Cat(s, Word("string", a)) = Cat(t, Word("string", b))
      BY <2>1, <3>3
    <3>5. a = b /\ s = t
      BY <3>4, WordSplits
    <3>6. QED
      BY <3>1, <3>2, <3>5
  <2>7. CASE v.kind = "scalar"
    <3>1. PICK a \in Nat : v = Scalar(a)
      BY <2>2, <2>7, ValueKinds
    <3>2. PICK b \in Nat : w = Scalar(b)
      BY <2>2, <2>5, <2>7, ValueKinds
    <3>3. x = Word("scalar", a) /\ y = Word("scalar", b)
      BY <3>1, <3>2, WrittenCases
    <3>4. Cat(s, Word("scalar", a)) = Cat(t, Word("scalar", b))
      BY <2>1, <3>3
    <3>5. a = b /\ s = t
      BY <3>4, WordSplits
    <3>6. QED
      BY <3>1, <3>2, <3>5
  <2>8. CASE v.kind = "array"
    <3>1. PICK vs \in Seq(Inner(n)) : v = Arr(vs)
      BY <2>2, <2>8, ValueKinds
    <3>2. PICK ws \in Seq(Inner(n)) : w = Arr(ws)
      BY <2>2, <2>5, <2>8, ValueKinds
    <3>3. AllReadBack(n, vs)
      <4>1. \A i \in 1..Len(vs) : vs[i] \in Items(v)
        BY <3>1, ItemLaws, LenProperties
      <4>2. QED
        BY <1>1, <4>1 DEF AllReadBack
    <3>4. Cat(s, Written(n)[Arr(vs)]) = Cat(t, Written(n)[Arr(ws)])
      BY <2>1, <3>1, <3>2
    <3>5. vs = ws /\ s = t
      BY <3>3, <3>4, ArrayReadsBack
    <3>6. QED
      BY <3>1, <3>2, <3>5
  <2>9. CASE v.kind = "object"
    <3>1. PICK vs \in Seq(MemberOver(Inner(n))) : NamedOnce(vs) /\ v = Obj(vs)
      BY <2>2, <2>9, ValueKinds
    <3>2. PICK ws \in Seq(MemberOver(Inner(n))) : NamedOnce(ws) /\ w = Obj(ws)
      BY <2>2, <2>5, <2>9, ValueKinds
    <3>3. AllMembersReadBack(n, vs)
      <4>1. \A i \in 1..Len(vs) : vs[i].value \in Items(v)
        BY <3>1, ItemLaws, LenProperties
      <4>2. QED
        BY <1>1, <4>1 DEF AllMembersReadBack
    <3>4. Cat(s, Written(n)[Obj(vs)]) = Cat(t, Written(n)[Obj(ws)])
      BY <2>1, <3>1, <3>2
    <3>5. vs = ws /\ s = t
      BY <3>1, <3>2, <3>3, <3>4, ObjectReadsBack
    <3>6. QED
      BY <3>1, <3>2, <3>5
  <2>10. v.kind \in {"string", "scalar", "array", "object"}
    BY <2>2, ValueKinds
  <2>11. QED
    BY <2>6, <2>7, <2>8, <2>9, <2>10
<1> HIDE DEF G
<1>2. Value[n] \subseteq G
  BY <1>1, ValueInduction
<1>3. QED
  BY <1>2 DEF G

\* No two values have the same text.
LEMMA WrittenIsInjective ==
  ASSUME NEW n \in Nat, NEW v \in Value[n], NEW w \in Value[n], Written(n)[v] = Written(n)[w]
  PROVE  v = w
<1>1. ReadsBack(n, v) /\ <<>> \in TokenText
  BY WrittenReadsBack, MarksAreTexts
<1>2. Cat(<<>>, Written(n)[v]) = Cat(<<>>, Written(n)[w])
  OBVIOUS
<1>3. QED
  BY <1>1, <1>2, Zenon DEF ReadsBack

-----------------------------------------------------------------------------
(***************************************************************************)
(* Putting members in order.                                               *)
(***************************************************************************)
IsOrder(ms, p) ==
  \A i, j \in DOMAIN ms : i < j => p[i] # p[j] /\ ms[p[i]].key <= ms[p[j]].key

LEMMA OntoItself ==
  ASSUME NEW n \in Nat, NEW p \in [1..n -> 1..n],
         \A i, j \in 1..n : i # j => p[i] # p[j]
  PROVE  \A k \in 1..n : \E i \in 1..n : p[i] = k
<1>1. p \in Injection(1..n, 1..n)
  BY DEF Injection, IsInjective
<1>2. IsFiniteSet(1..n)
  BY FS_Interval
<1>3. p \in Surjection(1..n, 1..n)
  BY <1>1, <1>2, FS_Injection
<1>4. QED
  BY <1>3 DEF Surjection

LEMMA MembersOf ==
  ASSUME NEW S, NEW ms \in Seq(MemberOver(S))
  PROVE  /\ Len(ms) \in Nat /\ DOMAIN ms = 1..Len(ms)
         /\ \A i \in 1..Len(ms) : ms[i] \in MemberOver(S) /\ ms[i].key \in Nat /\ ms[i].value \in S
<1>1. Len(ms) \in Nat /\ DOMAIN ms = 1..Len(ms) /\ \A i \in 1..Len(ms) : ms[i] \in MemberOver(S)
  BY LenProperties, ElementOfSeq
<1>2. \A m \in MemberOver(S) : m.key \in Nat /\ m.value \in S
  BY DEF MemberOver
<1>3. QED
  BY <1>1, <1>2

LEMMA OrderExists ==
  ASSUME NEW S, NEW ms \in Seq(MemberOver(S)), NamedOnce(ms)
  PROVE  \E p \in [DOMAIN ms -> DOMAIN ms] : IsOrder(ms, p)
<1> DEFINE n == Len(ms)
           D == 1..n
           key == [i \in D |-> ms[i].key]
           below(i) == {k \in D : key[k] <= key[i]}
           r == [i \in D |-> Cardinality(below(i))]
<1>1. n \in Nat /\ DOMAIN ms = D
  BY MembersOf
<1>2. /\ \A i \in D : key[i] = ms[i].key /\ key[i] \in Nat
      /\ \A i, j \in D : key[i] = key[j] => i = j
  BY MembersOf DEF NamedOnce
<1>3. IsFiniteSet(D) /\ Cardinality(D) = n
  <2>1. IsFiniteSet(1..n) /\ Cardinality(1..n) = IF 1 > n THEN 0 ELSE n - 1 + 1
    <3>1. 1 \in Int /\ n \in Int
      BY <1>1
    <3>2. QED
      BY <3>1, FS_Interval, Zenon
  <2>2. (IF 1 > n THEN 0 ELSE n - 1 + 1) = n
    BY <1>1
  <2>3. QED
    BY <2>1, <2>2
<1> HIDE DEF key
<1>4. ASSUME NEW i \in D
      PROVE  IsFiniteSet(below(i)) /\ r[i] = Cardinality(below(i)) /\ r[i] \in D
  <2> DEFINE b == below(i)
  <2>1. b \subseteq D /\ i \in b
    BY <1>2
  <2> HIDE DEF b
  <2>2. IsFiniteSet(b) /\ Cardinality(b) <= n
    BY <1>3, <2>1, FS_Subset
  <2>3. Cardinality(b) \in Nat /\ Cardinality(b) # 0
    BY <2>1, <2>2, FS_CardinalityType, FS_EmptySet
  <2>4. Cardinality(b) \in D
    BY <1>1, <2>2, <2>3
  <2>5. QED
    BY <2>2, <2>4 DEF b
<1> HIDE DEF r
<1>5. \A i \in D : r[i] \in Nat
  <2>1. ASSUME NEW i \in D PROVE r[i] \in Nat
    <3>1. r[i] \in D
      BY <1>4
    <3>2. QED
      BY <1>1, <3>1
  <2>2. QED
    BY <2>1
<1>6. ASSUME NEW i \in D, NEW j \in D, key[i] < key[j] PROVE r[i] < r[j]
  <2> DEFINE b == below(i)
             c == below(j)
  <2>1. b \subseteq c /\ j \in c /\ j \notin b
    BY <1>2, <1>6
  <2>2. IsFiniteSet(c) /\ r[i] = Cardinality(b) /\ r[j] = Cardinality(c)
    BY <1>4
  <2> HIDE DEF b, c
  <2>3. Cardinality(b) <= Cardinality(c) /\ Cardinality(b) # Cardinality(c)
    BY <2>1, <2>2, FS_Subset
  <2>4. r[i] \in Nat /\ r[j] \in Nat
    BY <1>5
  <2>5. QED
    BY <2>2, <2>3, <2>4
<1>7. r \in [D -> D]
  <2>1. r = [i \in D |-> r[i]]
    BY DEF r
  <2>2. QED
    BY <1>4, <2>1
<1>8. \A i, j \in D : i # j => r[i] # r[j]
  <2>1. \A i, j \in D : i # j => key[i] < key[j] \/ key[j] < key[i]
    BY <1>2
  <2>2. ASSUME NEW i \in D, NEW j \in D, i # j PROVE r[i] # r[j]
    <3>1. r[i] < r[j] \/ r[j] < r[i]
      BY <1>6, <2>1, <2>2
    <3>2. r[i] \in Nat /\ r[j] \in Nat
      BY <1>5
    <3>3. QED
      BY <3>1, <3>2
  <2>3. QED
    BY <2>2
<1> DEFINE p == [k \in D |-> CHOOSE i \in D : r[i] = k]
<1>9. \A k \in D : p[k] \in D /\ r[p[k]] = k
  <2>1. \A k \in D : \E i \in D : r[i] = k
    <3> HIDE DEF D
    <3>1. QED
      BY <1>1, <1>7, <1>8, OntoItself DEF D
  <2>2. QED
    BY <2>1
<1>10. p \in [D -> D]
  <2>1. p = [k \in D |-> p[k]]
    OBVIOUS
  <2>2. QED
    BY <1>9, <2>1
<1> HIDE DEF p
<1>11. ASSUME NEW i \in D, NEW j \in D, i < j PROVE p[i] # p[j] /\ key[p[i]] <= key[p[j]]
  <2>1. p[i] \in D /\ p[j] \in D /\ r[p[i]] = i /\ r[p[j]] = j
    BY <1>9
  <2>2. ~(r[p[j]] < r[p[i]])
    BY <1>1, <1>11, <2>1
  <2>3. ~(key[p[j]] < key[p[i]])
    BY <1>6, <2>1, <2>2
  <2>4. key[p[i]] \in Nat /\ key[p[j]] \in Nat
    BY <1>2, <2>1
  <2>5. p[i] # p[j]
    BY <1>1, <1>11, <2>1
  <2>6. QED
    BY <2>3, <2>4, <2>5
<1>12. \A i, j \in D : i < j => p[i] # p[j] /\ ms[p[i]].key <= ms[p[j]].key
  BY <1>2, <1>9, <1>11
<1>13. IsOrder(ms, p)
  BY <1>1, <1>12 DEF IsOrder
<1>14. QED
  BY <1>1, <1>10, <1>13

\* The members at the positions p gives.
IsArranged(ms, p, t) ==
  /\ p \in [DOMAIN ms -> DOMAIN ms]
  /\ \A k \in DOMAIN ms : \E i \in DOMAIN ms : p[i] = k
  /\ t = [i \in DOMAIN ms |-> ms[p[i]]]

KeysIncrease(ms) == \A i, j \in DOMAIN ms : i < j => ms[i].key < ms[j].key

LEMMA ByKeyLaws ==
  ASSUME NEW S, NEW ms \in Seq(MemberOver(S)), NamedOnce(ms)
  PROVE  /\ ByKey(ms) \in Seq(MemberOver(S))
         /\ Len(ByKey(ms)) = Len(ms)
         /\ KeysIncrease(ByKey(ms)) /\ NamedOnce(ByKey(ms))
         /\ \E p : IsArranged(ms, p, ByKey(ms))
<1> DEFINE n == Len(ms)
           D == 1..n
           p == CHOOSE q \in [DOMAIN ms -> DOMAIN ms] : IsOrder(ms, q)
           t == ByKey(ms)
<1>1. n \in Nat /\ DOMAIN ms = D
      /\ \A i \in D : ms[i] \in MemberOver(S) /\ ms[i].key \in Nat
  BY MembersOf
<1>2. p \in [DOMAIN ms -> DOMAIN ms] /\ IsOrder(ms, p)
  BY OrderExists
<1>3. t = [i \in DOMAIN ms |-> ms[p[i]]]
  BY Zenon DEF ByKey, IsOrder
<1> HIDE DEF p, t
<1>4. p \in [D -> D] /\ \A i, j \in D : i < j => p[i] # p[j] /\ ms[p[i]].key <= ms[p[j]].key
  BY <1>1, <1>2 DEF IsOrder
<1>5. \A i, j \in D : i # j => p[i] # p[j]
  <2>1. \A i, j \in D : i # j => i < j \/ j < i
    BY <1>1
  <2>2. QED
    BY <1>4, <2>1
<1>6. \A k \in D : \E i \in D : p[i] = k
  <2> HIDE DEF D
  <2>1. QED
    BY <1>1, <1>4, <1>5, OntoItself DEF D
<1>7. /\ DOMAIN t = D
      /\ \A i \in D : t[i] = ms[p[i]] /\ p[i] \in D /\ t[i] \in MemberOver(S)
  BY <1>1, <1>3, <1>4
<1>8. t \in Seq(MemberOver(S)) /\ Len(t) = n
  <2>1. t \in [1..n -> MemberOver(S)]
    BY <1>1, <1>3, <1>7
  <2>2. t \in Seq(MemberOver(S))
    BY <1>1, <2>1, SeqDef
  <2>3. DOMAIN t = 1..Len(t) /\ Len(t) \in Nat
    BY <2>2, LenProperties
  <2>4. Len(t) = n
    BY <1>1, <1>7, <2>3
  <2>5. QED
    BY <2>2, <2>4
<1>9. ASSUME NEW i \in D, NEW j \in D, i < j PROVE t[i].key < t[j].key
  <2>1. p[i] \in D /\ p[j] \in D /\ p[i] # p[j] /\ ms[p[i]].key <= ms[p[j]].key
    BY <1>4, <1>7, <1>9
  <2>2. ms[p[i]].key # ms[p[j]].key
    BY <1>1, <2>1 DEF NamedOnce
  <2>3. ms[p[i]].key \in Nat /\ ms[p[j]].key \in Nat
    BY <1>1, <2>1
  <2>4. QED
    BY <1>7, <2>1, <2>2, <2>3
<1>10. \A i, j \in D : t[i].key = t[j].key => i = j
  <2>1. \A i, j \in D : i # j => i < j \/ j < i
    BY <1>1
  <2>2. \A i \in D : t[i].key \in Nat
    BY <1>1, <1>7
  <2>3. QED
    BY <1>9, <2>1, <2>2
<1>11. KeysIncrease(t)
  BY <1>7, <1>9 DEF KeysIncrease
<1>12. NamedOnce(t)
  BY <1>7, <1>10 DEF NamedOnce
<1>13. IsArranged(ms, p, t)
  BY <1>1, <1>2, <1>3, <1>6 DEF IsArranged
<1>14. QED
  BY <1>8, <1>11, <1>12, <1>13 DEF t

\* An increasing function from 1..n to itself changes nothing.
LEMMA IncreasingIsIdentity ==
  ASSUME NEW n \in Nat, NEW p \in [1..n -> 1..n], \A i, j \in 1..n : i < j => p[i] < p[j]
  PROVE  \A i \in 1..n : p[i] = i
<1> DEFINE G == {k \in 0..n : k # 0 => p[k] >= k}
           H == {k \in 0..n : k < n => p[n - k] <= n - k}
<1>1. \A k \in 0..n : k \in G
  <2>1. ASSUME NEW k \in 0..n, \A j \in 0..(k - 1) : j \in G PROVE k \in G
    <3>1. CASE k = 0
      BY <3>1
    <3>2. CASE k = 1
      <4>1. 1 \in 1..n
        BY <3>2
      <4>2. p[1] \in 1..n
        BY <4>1
      <4>3. QED
        BY <3>2, <4>2
    <3>3. CASE k > 1
      <4>1. k - 1 \in 0..(k - 1) /\ k - 1 \in 1..n /\ k \in 1..n /\ k - 1 # 0
        BY <3>3
      <4>2. p[k - 1] >= k - 1
        BY <2>1, <4>1
      <4>3. p[k - 1] < p[k] /\ p[k - 1] \in 1..n /\ p[k] \in 1..n
        BY <3>3, <4>1
      <4>4. QED
        BY <4>1, <4>2, <4>3
    <3>4. QED
      BY <3>1, <3>2, <3>3
  <2> HIDE DEF G
  <2>2. QED
    BY <2>1, UpTo
<1>2. \A k \in 0..n : k \in H
  <2>1. ASSUME NEW k \in 0..n, \A j \in 0..(k - 1) : j \in H PROVE k \in H
    <3>1. SUFFICES ASSUME k < n PROVE p[n - k] <= n - k
      OBVIOUS
    <3>2. n - k \in 1..n
      BY <3>1
    <3>3. CASE k = 0
      <4>1. p[n - k] \in 1..n
        BY <3>2
      <4>2. QED
        BY <3>3, <4>1
    <3>4. CASE k # 0
      <4>1. k - 1 \in 0..(k - 1) /\ k - 1 < n /\ n - (k - 1) \in 1..n /\ n - k < n - (k - 1)
        BY <3>1, <3>4
      <4>2. p[n - (k - 1)] <= n - (k - 1)
        BY <2>1, <4>1
      <4>3. p[n - k] < p[n - (k - 1)] /\ p[n - k] \in 1..n /\ p[n - (k - 1)] \in 1..n
        BY <3>2, <4>1
      <4>4. \A a, b \in 1..n : a < b /\ b <= n - (k - 1) => a <= n - k
        OBVIOUS
      <4>5. QED
        BY <4>2, <4>3, <4>4
    <3>5. QED
      BY <3>3, <3>4
  <2> HIDE DEF H
  <2>2. QED
    BY <2>1, UpTo
<1>3. ASSUME NEW i \in 1..n PROVE p[i] = i
  <2>1. i \in 0..n /\ n - i \in 0..n /\ n - i < n /\ n - (n - i) = i /\ i # 0
    OBVIOUS
  <2>2. p[i] >= i /\ p[i] <= i /\ p[i] \in 1..n
    BY <1>1, <1>2, <2>1
  <2>3. QED
    BY <2>2
<1>4. QED
  BY <1>3

LEMMA ByKeyOfOrdered ==
  ASSUME NEW S, NEW ms \in Seq(MemberOver(S)), NamedOnce(ms), KeysIncrease(ms)
  PROVE  ByKey(ms) = ms
<1> DEFINE n == Len(ms)
           t == ByKey(ms)
<1>1. n \in Nat /\ DOMAIN ms = 1..n /\ \A i \in 1..n : ms[i].key \in Nat
  BY MembersOf
<1>2. t \in Seq(MemberOver(S)) /\ Len(t) = n /\ KeysIncrease(t)
  BY ByKeyLaws
<1>3. PICK p : IsArranged(ms, p, t)
  BY ByKeyLaws
<1> HIDE DEF t
<1>4. p \in [1..n -> 1..n] /\ \A i \in 1..n : t[i] = ms[p[i]]
  BY <1>1, <1>3 DEF IsArranged
<1>5. DOMAIN t = 1..n
  BY <1>2, LenProperties
<1>6. ASSUME NEW i \in 1..n, NEW j \in 1..n, i < j PROVE p[i] < p[j]
  <2>1. p[i] \in 1..n /\ p[j] \in 1..n
    BY <1>4
  <2>2. ms[p[i]].key < ms[p[j]].key
    BY <1>2, <1>4, <1>5, <1>6 DEF KeysIncrease
  <2>3. ~(p[j] < p[i]) /\ p[i] # p[j]
    BY <1>1, <2>1, <2>2 DEF KeysIncrease
  <2>4. QED
    BY <2>1, <2>3
<1>7. \A i \in 1..n : p[i] = i
  BY <1>1, <1>4, <1>6, IncreasingIsIdentity
<1>8. \A i \in 1..n : t[i] = ms[i]
  BY <1>4, <1>7
<1>9. t = ms
  BY <1>2, <1>8, SeqEqual
<1>10. QED
  BY <1>9 DEF t

-----------------------------------------------------------------------------
(***************************************************************************)
(* Sorted values.                                                          *)
(***************************************************************************)
EachItem(f, vs) == [i \in DOMAIN vs |-> f[vs[i]]]
EachMember(f, ms) == [i \in DOMAIN ms |-> Member(ms[i].key, f[ms[i].value])]
MapsTo(f, S, T) == \A x \in S : f[x] \in T

\* v in order, when f puts its items in order.
SortStep(f, v) ==
  IF v.kind = "object" THEN Obj(ByKey(EachMember(f, v.object)))
  ELSE IF v.kind = "array" THEN Arr(EachItem(f, v.array))
  ELSE v

LEMMA SortStepCases ==
  ASSUME NEW f
  PROVE  /\ \A s : SortStep(f, Str(s)) = Str(s)
         /\ \A x : SortStep(f, Scalar(x)) = Scalar(x)
         /\ \A vs : SortStep(f, Arr(vs)) = Arr(EachItem(f, vs))
         /\ \A ms : SortStep(f, Obj(ms)) = Obj(ByKey(EachMember(f, ms)))
  BY Constructors DEF SortStep

LEMMA SeqIntro ==
  ASSUME NEW n \in Nat, NEW T, NEW s, DOMAIN s = 1..n, s = [i \in 1..n |-> s[i]],
         \A i \in 1..n : s[i] \in T
  PROVE  s \in Seq(T) /\ Len(s) = n
<1>1. s \in [1..n -> T]
  OBVIOUS
<1>2. s \in Seq(T)
  BY <1>1, SeqDef
<1>3. DOMAIN s = 1..Len(s) /\ Len(s) \in Nat
  BY <1>2, LenProperties
<1>4. Len(s) = n
  BY <1>3
<1>5. QED
  BY <1>2, <1>4

LEMMA EachItemLaws ==
  ASSUME NEW S, NEW T, NEW f, MapsTo(f, S, T), NEW vs \in Seq(S)
  PROVE  /\ EachItem(f, vs) \in Seq(T)
         /\ Len(EachItem(f, vs)) = Len(vs)
         /\ Len(vs) \in Nat /\ DOMAIN vs = 1..Len(vs) /\ DOMAIN EachItem(f, vs) = 1..Len(vs)
         /\ \A i \in 1..Len(vs) : vs[i] \in S /\ EachItem(f, vs)[i] = f[vs[i]]
<1> DEFINE n == Len(vs)
           t == EachItem(f, vs)
<1>1. n \in Nat /\ DOMAIN vs = 1..n /\ \A i \in 1..n : vs[i] \in S
  BY LenProperties, ElementOfSeq
<1>2. t = [i \in 1..n |-> f[vs[i]]]
  BY <1>1 DEF EachItem
<1> HIDE DEF t
<1>3. /\ DOMAIN t = 1..n /\ t = [i \in 1..n |-> t[i]]
      /\ \A i \in 1..n : t[i] = f[vs[i]] /\ t[i] \in T
  BY <1>1, <1>2 DEF MapsTo
<1>4. t \in Seq(T) /\ Len(t) = n
  BY <1>1, <1>3, SeqIntro
<1>5. QED
  BY <1>1, <1>3, <1>4 DEF t

LEMMA EachMemberLaws ==
  ASSUME NEW S, NEW T, NEW f, MapsTo(f, S, T), NEW ms \in Seq(MemberOver(S))
  PROVE  /\ EachMember(f, ms) \in Seq(MemberOver(T))
         /\ Len(EachMember(f, ms)) = Len(ms)
         /\ Len(ms) \in Nat /\ DOMAIN ms = 1..Len(ms) /\ DOMAIN EachMember(f, ms) = 1..Len(ms)
         /\ \A i \in 1..Len(ms) : /\ ms[i].key \in Nat /\ ms[i].value \in S
                                  /\ EachMember(f, ms)[i] = Member(ms[i].key, f[ms[i].value])
                                  /\ EachMember(f, ms)[i].key = ms[i].key
                                  /\ EachMember(f, ms)[i].value = f[ms[i].value]
         /\ NamedOnce(ms) => NamedOnce(EachMember(f, ms))
<1> DEFINE n == Len(ms)
           t == EachMember(f, ms)
<1>1. n \in Nat /\ DOMAIN ms = 1..n /\ \A i \in 1..n : ms[i].key \in Nat /\ ms[i].value \in S
  BY MembersOf
<1>2. t = [i \in 1..n |-> Member(ms[i].key, f[ms[i].value])]
  BY <1>1 DEF EachMember
<1>3. \A k \in Nat : \A v \in T : Member(k, v) \in MemberOver(T)
  BY DEF Member, MemberOver
<1> HIDE DEF t
<1>4. /\ DOMAIN t = 1..n /\ t = [i \in 1..n |-> t[i]]
      /\ \A i \in 1..n : t[i] = Member(ms[i].key, f[ms[i].value]) /\ t[i] \in MemberOver(T)
  BY <1>1, <1>2, <1>3 DEF MapsTo
<1>5. t \in Seq(MemberOver(T)) /\ Len(t) = n
  BY <1>1, <1>4, SeqIntro
<1>6. \A i \in 1..n : t[i].key = ms[i].key /\ t[i].value = f[ms[i].value]
  BY <1>4, Constructors
<1>7. NamedOnce(ms) => NamedOnce(t)
  BY <1>1, <1>4, <1>6 DEF NamedOnce
<1>8. QED
  BY <1>1, <1>4, <1>5, <1>6, <1>7 DEF t

\* A member is where p puts it.
LEMMA ArrangedLaws ==
  ASSUME NEW S, NEW ms \in Seq(MemberOver(S)), NEW p, NEW t, IsArranged(ms, p, t)
  PROVE  /\ DOMAIN t = DOMAIN ms
         /\ \A i \in DOMAIN ms : p[i] \in DOMAIN ms /\ t[i] = ms[p[i]]
         /\ \A k \in DOMAIN ms : \E i \in DOMAIN ms : p[i] = k /\ t[i] = ms[k]
<1>1. /\ p \in [DOMAIN ms -> DOMAIN ms] /\ t = [i \in DOMAIN ms |-> ms[p[i]]]
      /\ \A k \in DOMAIN ms : \E i \in DOMAIN ms : p[i] = k
  BY DEF IsArranged
<1>2. \A i \in DOMAIN ms : t[i] = ms[p[i]]
  BY <1>1
<1>3. \A k \in DOMAIN ms : \E i \in DOMAIN ms : p[i] = k /\ t[i] = ms[k]
  BY <1>1, <1>2
<1>4. QED
  BY <1>1, <1>2, <1>3

LEMMA SortStepLaws ==
  ASSUME NEW S, NEW T, NEW f, MapsTo(f, S, T), NEW v \in ValueOver(S)
  PROVE  /\ SortStep(f, v) \in ValueOver(T)
         /\ Items(SortStep(f, v)) = {f[x] : x \in Items(v)}
<1>1. CASE \E s \in Nat : v = Str(s)
  <2>1. PICK s \in Nat : v = Str(s)
    BY <1>1
  <2>2. SortStep(f, v) = Str(s) /\ Items(Str(s)) = {} /\ Str(s) \in ValueOver(T)
    BY <2>1, SortStepCases, ItemLaws, ValueOverCases
  <2>3. QED
    BY <2>1, <2>2
<1>2. CASE \E x \in Nat : v = Scalar(x)
  <2>1. PICK s \in Nat : v = Scalar(s)
    BY <1>2
  <2>2. SortStep(f, v) = Scalar(s) /\ Items(Scalar(s)) = {} /\ Scalar(s) \in ValueOver(T)
    BY <2>1, SortStepCases, ItemLaws, ValueOverCases
  <2>3. QED
    BY <2>1, <2>2
<1>3. CASE \E vs \in Seq(S) : v = Arr(vs)
  <2>1. PICK vs \in Seq(S) : v = Arr(vs)
    BY <1>3
  <2> DEFINE t == EachItem(f, vs)
  <2>2. /\ t \in Seq(T) /\ DOMAIN vs = 1..Len(vs) /\ DOMAIN t = 1..Len(vs)
        /\ \A i \in 1..Len(vs) : t[i] = f[vs[i]]
    BY EachItemLaws
  <2> HIDE DEF t
  <2>3. SortStep(f, v) = Arr(t) /\ Arr(t) \in ValueOver(T)
    BY <2>1, <2>2, SortStepCases, ValueOverCases DEF t
  <2>4. Items(v) = {vs[i] : i \in DOMAIN vs} /\ Items(Arr(t)) = {t[i] : i \in DOMAIN t}
    BY <2>1, ItemLaws
  <2>5. {t[i] : i \in DOMAIN t} = {f[x] : x \in {vs[i] : i \in DOMAIN vs}}
    BY <2>2
  <2>6. QED
    BY <2>3, <2>4, <2>5
<1>4. CASE \E ms \in Seq(MemberOver(S)) : NamedOnce(ms) /\ v = Obj(ms)
  <2>1. PICK ms \in Seq(MemberOver(S)) : NamedOnce(ms) /\ v = Obj(ms)
    BY <1>4
  <2> DEFINE t == EachMember(f, ms)
             u == ByKey(t)
  <2>2. /\ t \in Seq(MemberOver(T)) /\ DOMAIN ms = 1..Len(ms) /\ DOMAIN t = 1..Len(ms)
        /\ NamedOnce(t)
        /\ \A i \in 1..Len(ms) : t[i].value = f[ms[i].value]
    BY <2>1, EachMemberLaws
  <2> HIDE DEF t
  <2>3. u \in Seq(MemberOver(T)) /\ NamedOnce(u) /\ \E p : IsArranged(t, p, u)
    BY <2>2, ByKeyLaws
  <2> HIDE DEF u
  <2>4. SortStep(f, v) = Obj(u) /\ Obj(u) \in ValueOver(T)
    <3>1. SortStep(f, v) = Obj(u)
      BY <2>1, SortStepCases DEF t, u
    <3>2. QED
      BY <2>3, <3>1, ValueOverCases
  <2>5. Items(v) = {ms[i].value : i \in DOMAIN ms} /\ Items(Obj(u)) = {u[i].value : i \in DOMAIN u}
    BY <2>1, ItemLaws
  <2>6. PICK p : IsArranged(t, p, u)
    BY <2>3
  <2>7. /\ DOMAIN u = 1..Len(ms)
        /\ \A i \in 1..Len(ms) : p[i] \in 1..Len(ms) /\ u[i] = t[p[i]]
        /\ \A k \in 1..Len(ms) : \E i \in 1..Len(ms) : p[i] = k /\ u[i] = t[k]
    <3>1. t \in Seq(MemberOver(T))
      BY <2>2
    <3>2. /\ DOMAIN u = DOMAIN t
          /\ \A i \in DOMAIN t : p[i] \in DOMAIN t /\ u[i] = t[p[i]]
          /\ \A k \in DOMAIN t : \E i \in DOMAIN t : p[i] = k /\ u[i] = t[k]
      BY <2>6, <3>1, ArrangedLaws
    <3>3. QED
      BY <2>2, <3>2
  <2>8. {u[i].value : i \in DOMAIN u} = {f[x] : x \in {ms[i].value : i \in DOMAIN ms}}
    <3>1. ASSUME NEW y \in {u[i].value : i \in DOMAIN u}
          PROVE  y \in {f[x] : x \in {ms[i].value : i \in DOMAIN ms}}
      <4>1. PICK i \in 1..Len(ms) : y = u[i].value
        BY <2>7
      <4>2. y = f[ms[p[i]].value] /\ p[i] \in DOMAIN ms
        BY <2>2, <2>7, <4>1
      <4>3. QED
        BY <4>2
    <3>2. ASSUME NEW y \in {f[x] : x \in {ms[i].value : i \in DOMAIN ms}}
          PROVE  y \in {u[i].value : i \in DOMAIN u}
      <4>1. PICK k \in DOMAIN ms : y = f[ms[k].value]
        OBVIOUS
      <4>2. PICK i \in 1..Len(ms) : u[i] = t[k]
        BY <2>2, <2>7, <4>1
      <4>3. y = u[i].value /\ i \in DOMAIN u
        BY <2>2, <2>7, <4>1, <4>2
      <4>4. QED
        BY <4>3
    <3>3. QED
      BY <3>1, <3>2
  <2>9. QED
    BY <2>4, <2>5, <2>8
<1>5. QED
  BY <1>1, <1>2, <1>3, <1>4, ValueOverCases

LEMMA SortStepDepends ==
  ASSUME NEW S, NEW v \in ValueOver(S), NEW f, NEW g, \A x \in Items(v) : f[x] = g[x]
  PROVE  SortStep(f, v) = SortStep(g, v)
<1>1. CASE \E s \in Nat : v = Str(s)
  BY <1>1, SortStepCases
<1>2. CASE \E x \in Nat : v = Scalar(x)
  BY <1>2, SortStepCases
<1>3. CASE \E vs \in Seq(S) : v = Arr(vs)
  <2>1. PICK vs \in Seq(S) : v = Arr(vs)
    BY <1>3
  <2>2. \A i \in DOMAIN vs : f[vs[i]] = g[vs[i]]
    BY <2>1, ItemLaws
  <2>3. EachItem(f, vs) = EachItem(g, vs)
    BY <2>2 DEF EachItem
  <2>4. QED
    BY <2>1, <2>3, SortStepCases
<1>4. CASE \E ms \in Seq(MemberOver(S)) : NamedOnce(ms) /\ v = Obj(ms)
  <2>1. PICK ms \in Seq(MemberOver(S)) : v = Obj(ms)
    BY <1>4
  <2>2. \A i \in DOMAIN ms : f[ms[i].value] = g[ms[i].value]
    BY <2>1, ItemLaws
  <2>3. EachMember(f, ms) = EachMember(g, ms)
    BY <2>2 DEF EachMember
  <2>4. QED
    BY <2>1, <2>3, SortStepCases
<1>5. QED
  BY <1>1, <1>2, <1>3, <1>4, ValueOverCases

\* What puts values in order wherever the result is not nested too deep puts
\* all of them in order, and none of them becomes deeper.
LEMMA SortKeepsDepth ==
  ASSUME NEW n \in Nat, NEW f,
         \A v \in Value[n] : SortStep(f, v) \in Value[n] => f[v] = SortStep(f, v)
  PROVE  \A v \in Value[n] :
           f[v] = SortStep(f, v) /\ \A d \in 0..n : v \in Value[d] => f[v] \in Value[d]
<1> DEFINE Good(v) == /\ f[v] = SortStep(f, v)
                      /\ \A d \in 0..n : v \in Value[d] => f[v] \in Value[d]
           G == {v \in Value[n] : Good(v)}
<1>1. ASSUME NEW v \in Value[n], Items(v) \subseteq G PROVE v \in G
  <2>1. ASSUME NEW d \in 0..n, v \in Value[d] PROVE SortStep(f, v) \in Value[d]
    <3>1. v \in ValueOver(Inner(d)) /\ Value[d] = ValueOver(Inner(d))
      BY <2>1, ValueRecursion
    <3>2. v \in ValueOver(Items(v)) /\ Items(v) \subseteq Inner(d)
      BY <3>1, ValueOfItems, ItemsAreInner
    <3>3. ASSUME NEW x \in Items(v) PROVE f[x] \in Inner(d)
      <4>1. d # 0 /\ x \in Value[d - 1] /\ Inner(d) = Value[d - 1]
        BY <3>2 DEF Inner
      <4>2. d - 1 \in 0..n
        BY <4>1
      <4>3. Good(x)
        BY <1>1
      <4>4. QED
        BY <4>1, <4>2, <4>3
    <3>4. MapsTo(f, Items(v), Inner(d))
      BY <3>3 DEF MapsTo
    <3>5. QED
      BY <3>1, <3>2, <3>4, SortStepLaws
  <2>2. n \in 0..n
    OBVIOUS
  <2>3. f[v] = SortStep(f, v)
    BY <2>1, <2>2
  <2>4. Good(v)
    BY <2>1, <2>3
  <2>5. QED
    BY <2>4
<1> HIDE DEF G
<1>2. Value[n] \subseteq G
  BY <1>1, ValueInduction
<1>3. QED
  BY <1>2 DEF G

Sorted(n) == CHOOSE f : f = [v \in Value[n] |-> SortStep(f, v)]

LEMMA SortRecursion ==
  ASSUME NEW n \in Nat
  PROVE  /\ \A v \in Value[n] : Sorted(n)[v] = SortStep(Sorted(n), v)
         /\ \A v \in Value[n] : \A d \in 0..n : v \in Value[d] => Sorted(n)[v] \in Value[d]
         /\ \A v \in Value[n] : Sorted(n)[v] \in Value[n]
         /\ \A v : canonical_sort(n, v) = Sorted(n)[v]
<1> DEFINE S == Value[n]
           v0 == Str(0)
           Body(g, v) == IF SortStep(g, v) \in S THEN SortStep(g, v) ELSE v0
           step == [v \in S |-> [g \in [S -> S] |-> Body(g, v)]]
           F(f) == f = [v \in S |-> SortStep(f, v)]
           R == Sorted(n)
<1>0. \A v : canonical_sort(n, v) = R[v]
  BY Zenon DEF canonical_sort, Sorted, SortStep, EachItem, EachMember
<1>1. R = CHOOSE f : F(f)
  BY Zenon DEF Sorted
<1>2. \A v \in S : v \in ValueOver(Inner(n))
  BY ValueRecursion
<1>3. v0 \in S
  BY ValueRecursion, ValueOverCases
<1> HIDE DEF S, v0
<1>4. step \in [S -> [[S -> S] -> S]]
  BY <1>3
<1>5. \A v \in S : \A g \in [S -> S] : step[v][g] = Body(g, v)
  OBVIOUS
<1> HIDE DEF step
<1>6. DependsOnItems(step, n, S)
  <2>1. ASSUME NEW v \in S, NEW g \in [S -> S], NEW h \in [S -> S],
               \A x \in Items(v) : g[x] = h[x]
        PROVE  step[v][g] = step[v][h]
    <3>1. SortStep(g, v) = SortStep(h, v)
      BY <1>2, <2>1, SortStepDepends
    <3>2. QED
      BY <1>5, <3>1
  <2>2. QED
    BY <2>1 DEF DependsOnItems, S
<1>7. PICK f \in [S -> S] : Solution(f, step, S)
  BY <1>3, <1>4, <1>6, ValueRecursionHasSolution, Zenon DEF S
<1>8. \A v \in S : SortStep(f, v) \in S => f[v] = SortStep(f, v)
  BY <1>5, <1>7 DEF Solution
<1>9. F(f)
  <2>1. \A v \in S : f[v] = SortStep(f, v)
    BY <1>8, SortKeepsDepth DEF S
  <2>2. QED
    BY <2>1
<1>10. F(R)
  <2> HIDE DEF F, R
  <2>1. QED
    BY <1>1, <1>9
<1> HIDE DEF R
<1>11. \A v \in S : R[v] = SortStep(R, v)
  BY <1>10
<1>12. \A v \in S : \A d \in 0..n : v \in Value[d] => R[v] \in Value[d]
  BY <1>11, SortKeepsDepth DEF S
<1>13. \A v \in S : R[v] \in S
  <2>1. n \in 0..n
    OBVIOUS
  <2>2. QED
    BY <1>12, <2>1 DEF S
<1>14. QED
  BY <1>0, <1>11, <1>12, <1>13 DEF R, S

LEMMA SortedAgree ==
  ASSUME NEW n \in Nat, NEW l \in Nat, n <= l
  PROVE  \A v \in Value[n] : v \in Value[l] /\ Sorted(n)[v] = Sorted(l)[v]
<1> DEFINE G == {v \in Value[n] : Sorted(n)[v] = Sorted(l)[v]}
<1>1. Value[n] \subseteq Value[l]
  BY ValueGrows
<1>2. ASSUME NEW v \in Value[n], Items(v) \subseteq G PROVE v \in G
  <2>1. v \in ValueOver(Inner(n)) /\ v \in Value[l]
    BY <1>1, ValueRecursion
  <2>2. \A x \in Items(v) : Sorted(n)[x] = Sorted(l)[x]
    BY <1>2
  <2>3. SortStep(Sorted(n), v) = SortStep(Sorted(l), v)
    BY <2>1, <2>2, SortStepDepends
  <2>4. Sorted(n)[v] = Sorted(l)[v]
    BY <2>1, <2>3, SortRecursion
  <2>5. QED
    BY <2>4
<1> HIDE DEF G
<1>3. Value[n] \subseteq G
  BY <1>2, ValueInduction
<1>4. QED
  BY <1>1, <1>3 DEF G

LEMMA SortedItems ==
  ASSUME NEW n \in Nat, NEW v \in Value[n]
  PROVE  Items(Sorted(n)[v]) = {Sorted(n)[x] : x \in Items(v)}
<1>1. v \in ValueOver(Inner(n)) /\ Inner(n) \subseteq Value[n]
  BY ValueRecursion, ValueGrows
<1>2. MapsTo(Sorted(n), Inner(n), Value[n])
  BY <1>1, SortRecursion DEF MapsTo
<1>3. QED
  BY <1>1, <1>2, SortStepLaws, SortRecursion

\* Nor was any of them deeper before.
LEMMA SortedDepth ==
  ASSUME NEW n \in Nat
  PROVE  \A v \in Value[n] : \A d \in Nat : Sorted(n)[v] \in Value[d] => v \in Value[d]
<1> DEFINE Good(v) == \A d \in Nat : Sorted(n)[v] \in Value[d] => v \in Value[d]
           G == {v \in Value[n] : Good(v)}
<1>1. ASSUME NEW v \in Value[n], Items(v) \subseteq G PROVE v \in G
  <2>1. ASSUME NEW d \in Nat, Sorted(n)[v] \in Value[d] PROVE v \in Value[d]
    <3>1. v \in ValueOver(Items(v)) /\ Value[d] = ValueOver(Inner(d))
      BY ValueRecursion, ValueOfItems
    <3>2. Items(Sorted(n)[v]) \subseteq Inner(d)
      BY <2>1, <3>1, ItemsAreInner
    <3>3. ASSUME NEW x \in Items(v) PROVE x \in Inner(d)
      <4>1. Sorted(n)[x] \in Inner(d)
        BY <3>2, SortedItems
      <4>2. d # 0 /\ Inner(d) = Value[d - 1] /\ d - 1 \in Nat
        BY <4>1 DEF Inner
      <4>3. Good(x)
        BY <1>1
      <4>4. QED
        BY <4>1, <4>2, <4>3
    <3>4. ValueOver(Items(v)) \subseteq ValueOver(Inner(d))
      BY <3>3, ValueOverMonotone
    <3>5. QED
      BY <3>1, <3>4
  <2>2. Good(v)
    BY <2>1
  <2>3. QED
    BY <2>2
<1> HIDE DEF G
<1>2. Value[n] \subseteq G
  BY <1>1, ValueInduction
<1>3. QED
  BY <1>2 DEF G

KeysInOrder(v) == v.kind = "object" => KeysIncrease(v.object)

LEMMA SortStepOrders ==
  ASSUME NEW S, NEW T, NEW f, MapsTo(f, S, T), NEW v \in ValueOver(S)
  PROVE  KeysInOrder(SortStep(f, v))
<1>1. CASE \E s \in Nat : v = Str(s)
  BY <1>1, SortStepCases, Constructors DEF KeysInOrder
<1>2. CASE \E x \in Nat : v = Scalar(x)
  BY <1>2, SortStepCases, Constructors DEF KeysInOrder
<1>3. CASE \E vs \in Seq(S) : v = Arr(vs)
  BY <1>3, SortStepCases, Constructors DEF KeysInOrder
<1>4. CASE \E ms \in Seq(MemberOver(S)) : NamedOnce(ms) /\ v = Obj(ms)
  <2>1. PICK ms \in Seq(MemberOver(S)) : NamedOnce(ms) /\ v = Obj(ms)
    BY <1>4
  <2>2. EachMember(f, ms) \in Seq(MemberOver(T)) /\ NamedOnce(EachMember(f, ms))
    BY <2>1, EachMemberLaws
  <2>3. KeysIncrease(ByKey(EachMember(f, ms)))
    BY <2>2, ByKeyLaws
  <2>4. QED
    BY <2>1, <2>3, SortStepCases, Constructors DEF KeysInOrder
<1>5. QED
  BY <1>1, <1>2, <1>3, <1>4, ValueOverCases

LEMMA SortStepKeeps ==
  ASSUME NEW S, NEW v \in ValueOver(S), KeysInOrder(v), NEW f, \A x \in Items(v) : f[x] = x
  PROVE  SortStep(f, v) = v
<1>1. CASE \E s \in Nat : v = Str(s)
  BY <1>1, SortStepCases
<1>2. CASE \E x \in Nat : v = Scalar(x)
  BY <1>2, SortStepCases
<1>3. CASE \E vs \in Seq(S) : v = Arr(vs)
  <2>1. PICK vs \in Seq(S) : v = Arr(vs)
    BY <1>3
  <2>2. \A i \in DOMAIN vs : f[vs[i]] = vs[i]
    BY <2>1, ItemLaws
  <2>3. vs = [i \in DOMAIN vs |-> vs[i]]
    BY LenProperties
  <2>4. EachItem(f, vs) = vs
    BY <2>2, <2>3 DEF EachItem
  <2>5. QED
    BY <2>1, <2>4, SortStepCases
<1>4. CASE \E ms \in Seq(MemberOver(S)) : NamedOnce(ms) /\ v = Obj(ms)
  <2>1. PICK ms \in Seq(MemberOver(S)) : NamedOnce(ms) /\ v = Obj(ms)
    BY <1>4
  <2>2. \A i \in DOMAIN ms : f[ms[i].value] = ms[i].value /\ ms[i] \in MemberOver(S)
    BY <2>1, ItemLaws, MembersOf
  <2>3. ms = [i \in DOMAIN ms |-> ms[i]]
    BY LenProperties
  <2>4. \A m \in MemberOver(S) : Member(m.key, m.value) = m
    BY DEF Member, MemberOver
  <2>5. \A i \in DOMAIN ms : Member(ms[i].key, f[ms[i].value]) = ms[i]
    BY <2>2, <2>4
  <2>6. EachMember(f, ms) = ms
    BY <2>3, <2>5 DEF EachMember
  <2>7. KeysIncrease(ms)
    BY <2>1, Constructors DEF KeysInOrder
  <2>8. ByKey(ms) = ms
    BY <2>1, <2>7, ByKeyOfOrdered
  <2>9. QED
    BY <2>1, <2>6, <2>8, SortStepCases
<1>5. QED
  BY <1>1, <1>2, <1>3, <1>4, ValueOverCases

LEMMA SortedInOrder ==
  ASSUME NEW n \in Nat, NEW v \in Value[n]
  PROVE  KeysInOrder(Sorted(n)[v])
<1>1. v \in ValueOver(Inner(n)) /\ Inner(n) \subseteq Value[n]
  BY ValueRecursion, ValueGrows
<1>2. MapsTo(Sorted(n), Inner(n), Value[n])
  BY <1>1, SortRecursion DEF MapsTo
<1>3. KeysInOrder(SortStep(Sorted(n), v))
  BY <1>1, <1>2, SortStepOrders
<1>4. QED
  BY <1>3, SortRecursion

\* What is in order stays as it is.
LEMMA SortedTwice ==
  ASSUME NEW n \in Nat
  PROVE  \A v \in Value[n] : Sorted(n)[Sorted(n)[v]] = Sorted(n)[v]
<1> DEFINE R == Sorted(n)
           G == {v \in Value[n] : R[R[v]] = R[v]}
<1>1. ASSUME NEW v \in Value[n], Items(v) \subseteq G PROVE v \in G
  <2> DEFINE w == R[v]
  <2>1. w \in Value[n] /\ w \in ValueOver(Inner(n)) /\ KeysInOrder(w)
    BY SortRecursion, ValueRecursion, SortedInOrder
  <2>2. Items(w) = {R[x] : x \in Items(v)}
    BY SortedItems
  <2>3. R[w] = SortStep(R, w)
    BY <2>1, SortRecursion
  <2>4. \A x \in Items(v) : R[R[x]] = R[x]
    BY <1>1
  <2> HIDE DEF R, w
  <2>5. \A y \in Items(w) : R[y] = y
    BY <2>2, <2>4
  <2>6. SortStep(R, w) = w
    BY <2>1, <2>5, SortStepKeeps
  <2>7. QED
    BY <2>3, <2>6 DEF w
<1> HIDE DEF G
<1>2. Value[n] \subseteq G
  BY <1>1, ValueInduction
<1>3. QED
  BY <1>2 DEF G

-----------------------------------------------------------------------------
(***************************************************************************)
(* What is said of sorted values.                                          *)
(***************************************************************************)
OrderStep(f, v) ==
  IF v.kind = "object"
  THEN \A i, j \in DOMAIN v.object :
         f[v.object[i].value] /\ (i < j => v.object[i].key < v.object[j].key)
  ELSE v.kind = "array" => \A i \in DOMAIN v.array : f[v.array[i]]

LEMMA ItemsByKind ==
  ASSUME NEW v
  PROVE  /\ v.kind = "object" => \A i \in DOMAIN v.object : v.object[i].value \in Items(v)
         /\ v.kind = "array" => \A i \in DOMAIN v.array : v.array[i] \in Items(v)
  BY DEF Items

LEMMA OrderStepDepends ==
  ASSUME NEW v, NEW f, NEW g, \A x \in Items(v) : f[x] = g[x]
  PROVE  OrderStep(f, v) = OrderStep(g, v)
<1>1. CASE v.kind = "object"
  <2>1. \A i \in DOMAIN v.object : f[v.object[i].value] = g[v.object[i].value]
    BY <1>1, ItemsByKind
  <2>2. QED
    BY <1>1, <2>1, Zenon DEF OrderStep
<1>2. CASE v.kind # "object"
  <2>1. v.kind = "array" => \A i \in DOMAIN v.array : f[v.array[i]] = g[v.array[i]]
    BY ItemsByKind
  <2>2. QED
    BY <1>2, <2>1, Zenon DEF OrderStep
<1>3. QED
  BY <1>1, <1>2

Ordered(n) == CHOOSE f : f = [v \in Value[n] |-> OrderStep(f, v)]

LEMMA OrderRecursion ==
  ASSUME NEW n \in Nat
  PROVE  /\ \A v \in Value[n] : Ordered(n)[v] = OrderStep(Ordered(n), v)
         /\ \A v : InOrder(n, v) = Ordered(n)[v]
<1> DEFINE S == Value[n]
           V == BOOLEAN
           step == [v \in S |-> [g \in [S -> V] |-> OrderStep(g, v)]]
           F(f) == f = [v \in S |-> OrderStep(f, v)]
           R == Ordered(n)
<1>0. \A v : InOrder(n, v) = R[v]
  BY Zenon DEF InOrder, Ordered, OrderStep
<1>1. R = CHOOSE f : F(f)
  BY Zenon DEF Ordered
<1> HIDE DEF S
<1>2. \A f, v : OrderStep(f, v) \in V
  BY Zenon DEF OrderStep
<1>3. step \in [S -> [[S -> V] -> V]]
  BY <1>2
<1>4. \A v \in S : \A g \in [S -> V] : step[v][g] = OrderStep(g, v)
  OBVIOUS
<1> HIDE DEF step, V
<1>5. DependsOnItems(step, n, V)
  <2>1. ASSUME NEW v \in S, NEW g \in [S -> V], NEW h \in [S -> V],
               \A x \in Items(v) : g[x] = h[x]
        PROVE  step[v][g] = step[v][h]
    <3>1. OrderStep(g, v) = OrderStep(h, v)
      BY <2>1, OrderStepDepends
    <3>2. QED
      BY <1>4, <3>1
  <2>2. QED
    BY <2>1 DEF DependsOnItems, S
<1>6. TRUE \in V
  BY DEF V
<1>7. PICK f \in [S -> V] : Solution(f, step, S)
  BY <1>3, <1>5, <1>6, ValueRecursionHasSolution, Zenon DEF S
<1>8. F(f)
  <2>1. \A v \in S : f[v] = OrderStep(f, v)
    BY <1>4, <1>7 DEF Solution
  <2>2. QED
    BY <2>1
<1>9. F(R)
  <2> HIDE DEF F, R
  <2>1. QED
    BY <1>1, <1>8
<1> HIDE DEF R
<1>10. \A v \in S : R[v] = OrderStep(R, v)
  BY <1>9
<1>11. QED
  BY <1>0, <1>10 DEF R, S

\* Every object in a sorted value is in order.
LEMMA SortedIsInOrder ==
  ASSUME NEW n \in Nat
  PROVE  \A v \in Value[n] : InOrder(n, Sorted(n)[v])
<1> DEFINE R == Sorted(n)
           O == Ordered(n)
           G == {v \in Value[n] : O[R[v]]}
<1>1. ASSUME NEW v \in Value[n], Items(v) \subseteq G PROVE v \in G
  <2> DEFINE w == R[v]
  <2>1. w \in Value[n] /\ KeysInOrder(w)
    BY SortRecursion, SortedInOrder
  <2>2. Items(w) = {R[x] : x \in Items(v)}
    BY SortedItems
  <2>3. O[w] = OrderStep(O, w)
    BY <2>1, OrderRecursion
  <2>4. \A x \in Items(v) : O[R[x]]
    BY <1>1
  <2> HIDE DEF R, w, O
  <2>5. \A y \in Items(w) : O[y]
    BY <2>2, <2>4
  <2>6. OrderStep(O, w)
    <3>1. CASE w.kind = "object"
      <4>1. \A i \in DOMAIN w.object : O[w.object[i].value]
        BY <2>5, <3>1, ItemsByKind
      <4>2. KeysIncrease(w.object)
        BY <2>1, <3>1 DEF KeysInOrder
      <4>3. QED
        BY <3>1, <4>1, <4>2, Zenon DEF OrderStep, KeysIncrease
    <3>2. CASE w.kind # "object"
      <4>1. w.kind = "array" => \A i \in DOMAIN w.array : O[w.array[i]]
        BY <2>5, ItemsByKind
      <4>2. QED
        BY <3>2, <4>1, Zenon DEF OrderStep
    <3>3. QED
      BY <3>1, <3>2
  <2>7. O[w]
    BY <2>3, <2>6, Zenon
  <2>8. QED
    BY <2>7 DEF w
<1> HIDE DEF G
<1>2. Value[n] \subseteq G
  BY <1>1, ValueInduction
<1>3. ASSUME NEW v \in Value[n] PROVE InOrder(n, R[v])
  <2>1. O[R[v]]
    BY <1>2 DEF G
  <2>2. InOrder(n, R[v]) = O[R[v]]
    BY OrderRecursion
  <2>3. QED
    BY <2>1, <2>2, Zenon
<1>4. QED
  BY <1>3

SameBody(f, x, y) ==
  IF x.kind = "object" /\ y.kind = "object"
  THEN /\ Len(x.object) = Len(y.object)
       /\ \A i \in DOMAIN x.object : \E j \in DOMAIN y.object :
            /\ x.object[i].key = y.object[j].key
            /\ f[x.object[i].value][y.object[j].value]
  ELSE IF x.kind = "array" /\ y.kind = "array"
  THEN /\ Len(x.array) = Len(y.array)
       /\ \A i \in DOMAIN x.array : f[x.array[i]][y.array[i]]
  ELSE x = y

SameStep(n, f, x) == [y \in Value[n] |-> SameBody(f, x, y)]

LEMMA SameBodyDepends ==
  ASSUME NEW x, NEW y, NEW f, NEW g, \A z \in Items(x) : f[z] = g[z]
  PROVE  SameBody(f, x, y) = SameBody(g, x, y)
<1>1. CASE x.kind = "object"
  <2>1. \A i \in DOMAIN x.object : f[x.object[i].value] = g[x.object[i].value]
    BY <1>1, ItemsByKind
  <2>2. x.kind # "array"
    BY <1>1
  <2>3. QED
    BY <2>1, <2>2, Zenon DEF SameBody
<1>2. CASE x.kind # "object"
  <2>1. x.kind = "array" => \A i \in DOMAIN x.array : f[x.array[i]] = g[x.array[i]]
    BY ItemsByKind
  <2>2. QED
    BY <1>2, <2>1, Zenon DEF SameBody
<1>3. QED
  BY <1>1, <1>2

Same(n) == CHOOSE f : f = [x \in Value[n] |-> SameStep(n, f, x)]

LEMMA SameRecursion ==
  ASSUME NEW n \in Nat
  PROVE  /\ \A x, y \in Value[n] : Same(n)[x][y] = SameBody(Same(n), x, y)
         /\ \A x, y : SameUpToOrder(n, x, y) = Same(n)[x][y]
<1> DEFINE S == Value[n]
           V == [S -> BOOLEAN]
           step == [x \in S |-> [g \in [S -> V] |-> SameStep(n, g, x)]]
           F(f) == f = [x \in S |-> SameStep(n, f, x)]
           R == Same(n)
<1>0. \A x, y : SameUpToOrder(n, x, y) = R[x][y]
  BY Zenon DEF SameUpToOrder, Same, SameStep, SameBody
<1>1. R = CHOOSE f : F(f)
  BY Zenon DEF Same
<1>2. \A f, x, y : SameBody(f, x, y) \in BOOLEAN
  BY Zenon DEF SameBody
<1>3. \A f, x : SameStep(n, f, x) \in V
  BY <1>2 DEF SameStep
<1>4. \A f, x : \A y \in S : SameStep(n, f, x)[y] = SameBody(f, x, y)
  BY DEF SameStep
<1> HIDE DEF S, V
<1>5. step \in [S -> [[S -> V] -> V]]
  BY <1>3
<1>6. \A v \in S : \A g \in [S -> V] : step[v][g] = SameStep(n, g, v)
  OBVIOUS
<1> HIDE DEF step
<1>7. DependsOnItems(step, n, V)
  <2>1. ASSUME NEW v \in S, NEW g \in [S -> V], NEW h \in [S -> V],
               \A x \in Items(v) : g[x] = h[x]
        PROVE  step[v][g] = step[v][h]
    <3>1. \A y : SameBody(g, v, y) = SameBody(h, v, y)
      BY <2>1, SameBodyDepends
    <3>2. SameStep(n, g, v) = SameStep(n, h, v)
      BY <3>1, Zenon DEF SameStep
    <3>3. QED
      BY <1>6, <3>2
  <2>2. QED
    BY <2>1 DEF DependsOnItems, S
<1>8. [y \in S |-> TRUE] \in V
  BY DEF V
<1>9. PICK f \in [S -> V] : Solution(f, step, S)
  BY <1>5, <1>7, <1>8, ValueRecursionHasSolution, Zenon DEF S
<1>10. F(f)
  <2>1. \A v \in S : f[v] = SameStep(n, f, v)
    BY <1>6, <1>9 DEF Solution
  <2>2. QED
    BY <2>1
<1>11. F(R)
  <2> HIDE DEF F, R
  <2>1. QED
    BY <1>1, <1>10
<1> HIDE DEF R
<1>12. \A v \in S : R[v] = SameStep(n, R, v)
  BY <1>11
<1>13. \A x, y \in S : R[x][y] = SameBody(R, x, y)
  BY <1>4, <1>12
<1>14. QED
  BY <1>0, <1>13 DEF R, S

\* A sorted value is the same but for the order of members.
LEMMA SortedIsSame ==
  ASSUME NEW n \in Nat
  PROVE  \A v \in Value[n] : SameUpToOrder(n, Sorted(n)[v], v)
<1> DEFINE R == Sorted(n)
           M == Same(n)
           G == {v \in Value[n] : M[R[v]][v]}
<1>1. ASSUME NEW v \in Value[n], Items(v) \subseteq G PROVE v \in G
  <2> DEFINE w == R[v]
  <2>1. w \in Value[n] /\ w = SortStep(R, v) /\ v \in ValueOver(Inner(n))
    BY SortRecursion, ValueRecursion
  <2>2. M[w][v] = SameBody(M, w, v)
    BY <2>1, SameRecursion
  <2>3. \A x \in Items(v) : M[R[x]][x]
    BY <1>1
  <2>4. MapsTo(R, Inner(n), Value[n])
    BY ValueGrows, SortRecursion DEF MapsTo
  <2> HIDE DEF R, M, w
  <2>5. SameBody(M, w, v)
    <3>1. CASE \E s \in Nat : v = Str(s)
      <4>1. w = v /\ v.kind = "string"
        BY <2>1, <3>1, SortStepCases, Constructors
      <4>2. v.kind # "object" /\ v.kind # "array"
        BY <4>1
      <4>3. QED
        BY <4>1, <4>2, Zenon DEF SameBody
    <3>2. CASE \E x \in Nat : v = Scalar(x)
      <4>1. w = v /\ v.kind = "scalar"
        BY <2>1, <3>2, SortStepCases, Constructors
      <4>2. v.kind # "object" /\ v.kind # "array"
        BY <4>1
      <4>3. QED
        BY <4>1, <4>2, Zenon DEF SameBody
    <3>3. CASE \E vs \in Seq(Inner(n)) : v = Arr(vs)
      <4>1. PICK vs \in Seq(Inner(n)) : v = Arr(vs)
        BY <3>3
      <4> DEFINE t == EachItem(R, vs)
      <4>2. /\ Len(t) = Len(vs) /\ DOMAIN t = DOMAIN vs
            /\ \A i \in DOMAIN t : t[i] = R[vs[i]] /\ vs[i] \in Items(v)
        BY <2>4, <4>1, EachItemLaws, ItemLaws
      <4>3. w = Arr(t)
        BY <2>1, <4>1, SortStepCases
      <4> HIDE DEF t
      <4>4. \A i \in DOMAIN t : M[t[i]][vs[i]]
        <5>1. ASSUME NEW i \in DOMAIN t PROVE M[t[i]][vs[i]]
          <6>1. M[R[vs[i]]][vs[i]] /\ t[i] = R[vs[i]]
            BY <2>3, <4>2
          <6>2. QED
            BY <6>1, Zenon
        <5>2. QED
          BY <5>1
      <4>5. /\ v.kind = "array" /\ v.array = vs /\ w.kind = "array" /\ w.array = t
            /\ w.kind # "object"
        BY <4>1, <4>3, Constructors
      <4>6. QED
        BY <4>2, <4>4, <4>5, Zenon DEF SameBody
    <3>4. CASE \E ms \in Seq(MemberOver(Inner(n))) : NamedOnce(ms) /\ v = Obj(ms)
      <4>1. PICK ms \in Seq(MemberOver(Inner(n))) : NamedOnce(ms) /\ v = Obj(ms)
        BY <3>4
      <4> DEFINE t == EachMember(R, ms)
                 u == ByKey(t)
      <4>2. /\ t \in Seq(MemberOver(Value[n])) /\ NamedOnce(t) /\ Len(t) = Len(ms)
            /\ DOMAIN t = DOMAIN ms
            /\ \A i \in DOMAIN ms : /\ t[i].key = ms[i].key /\ t[i].value = R[ms[i].value]
                                    /\ ms[i].value \in Items(v)
        BY <2>4, <4>1, EachMemberLaws, ItemLaws
      <4>3. w = Obj(u)
        BY <2>1, <4>1, SortStepCases
      <4> HIDE DEF t
      <4>4. Len(u) = Len(t) /\ \E p : IsArranged(t, p, u)
        BY <4>2, ByKeyLaws
      <4>5. PICK p : IsArranged(t, p, u)
        BY <4>4
      <4> HIDE DEF u
      <4>6. /\ DOMAIN u = DOMAIN t
            /\ \A i \in DOMAIN t : p[i] \in DOMAIN t /\ u[i] = t[p[i]]
        <5>1. t \in Seq(MemberOver(Value[n]))
          BY <4>2
        <5>2. QED
          BY <4>5, <5>1, ArrangedLaws
      <4>7. ASSUME NEW i \in DOMAIN u
            PROVE  \E j \in DOMAIN ms : u[i].key = ms[j].key /\ M[u[i].value][ms[j].value]
        <5>1. p[i] \in DOMAIN ms /\ u[i] = t[p[i]]
          BY <4>2, <4>6
        <5>2. u[i].key = ms[p[i]].key /\ u[i].value = R[ms[p[i]].value] /\ ms[p[i]].value \in Items(v)
          BY <4>2, <5>1
        <5>3. M[R[ms[p[i]].value]][ms[p[i]].value]
          BY <2>3, <5>2
        <5>4. QED
          BY <5>1, <5>2, <5>3, Zenon
      <4>8. v.kind = "object" /\ v.object = ms /\ w.kind = "object" /\ w.object = u
        BY <4>1, <4>3, Constructors
      <4>9. Len(u) = Len(ms)
        BY <4>2, <4>4
      <4>10. QED
        BY <4>7, <4>8, <4>9, Zenon DEF SameBody
    <3>5. QED
      BY <2>1, <3>1, <3>2, <3>3, <3>4, ValueOverCases
  <2>6. M[w][v]
    BY <2>2, <2>5, Zenon
  <2>7. QED
    BY <2>6 DEF w
<1> HIDE DEF G
<1>2. Value[n] \subseteq G
  BY <1>1, ValueInduction
<1>3. ASSUME NEW v \in Value[n] PROVE SameUpToOrder(n, R[v], v)
  <2>1. M[R[v]][v]
    BY <1>2 DEF G
  <2>2. SameUpToOrder(n, R[v], v) = M[R[v]][v]
    BY SameRecursion
  <2>3. QED
    BY <2>1, <2>2, Zenon
<1>4. QED
  BY <1>3

\* A text that was written, read as w, tells which value was written: w is it
\* in order.
LEMMA WrittenTextTellsValue ==
  ASSUME NEW n \in Nat, NEW v \in Value[n], NEW m \in Nat, NEW w \in Value[m],
         Written(n)[Sorted(n)[v]] = Written(m)[w]
  PROVE  /\ v \in Value[m] /\ w = Sorted(m)[v]
         /\ SameUpToOrder(m, w, v)
         /\ InOrder(m, w)
         /\ Written(m)[Sorted(m)[w]] = Written(m)[w]
<1> DEFINE u == Sorted(n)[v]
<1>1. u \in Value[n]
  BY SortRecursion
<1>2. u = w
  <2>1. CASE n <= m
    <3>1. u \in Value[m] /\ Written(m)[u] = Written(m)[w]
      <4> HIDE DEF u
      <4>1. u \in Value[m] /\ Written(n)[u] = Written(m)[u]
        BY <1>1, <2>1, WrittenAgree
      <4>2. QED
        BY <4>1 DEF u
    <3> HIDE DEF u
    <3>2. QED
      BY <3>1, WrittenIsInjective
  <2>2. CASE m <= n
    <3>1. w \in Value[n] /\ Written(n)[u] = Written(n)[w]
      <4>1. w \in Value[n] /\ Written(m)[w] = Written(n)[w]
        BY <2>2, WrittenAgree
      <4>2. QED
        BY <4>1
    <3> HIDE DEF u
    <3>2. QED
      BY <1>1, <3>1, WrittenIsInjective
  <2>3. QED
    BY <2>1, <2>2
<1>3. v \in Value[m]
  BY <1>2, SortedDepth
<1>4. Sorted(n)[v] = Sorted(m)[v]
  <2>1. CASE n <= m
    BY <2>1, SortedAgree
  <2>2. CASE m <= n
    BY <1>3, <2>2, SortedAgree
  <2>3. QED
    BY <2>1, <2>2
<1>5. w = Sorted(m)[v]
  BY <1>2, <1>4
<1>6. SameUpToOrder(m, Sorted(m)[v], v) /\ InOrder(m, Sorted(m)[v])
  BY <1>3, SortedIsSame, SortedIsInOrder
<1>7. Sorted(m)[w] = w
  BY <1>3, <1>5, SortedTwice
<1>8. QED
  BY <1>3, <1>5, <1>6, <1>7, Zenon

-----------------------------------------------------------------------------
(***************************************************************************)
(* The calls that are under way, and the text of what they have read.      *)
(***************************************************************************)
HeldKey(f) ==
  f.key # NoKey => f.kind = "object" /\ \E k \in Nat : f.key = [is |-> "string", text |-> k]

\* A call that has read values of S.
FrameOver(S, f) ==
  /\ IsFrame(f)
  /\ f.kind = "array" => f.read \in Seq(S)
  /\ f.kind = "object" => f.read \in Seq(MemberOver(S))
  /\ HeldKey(f)

StackOver(S, stack) == IsSeq(stack) /\ \A i \in 1..Len(stack) : FrameOver(S, stack[i])

KeyText(f) == IF f.key = NoKey THEN <<>> ELSE Named(f.key.text, <<>>)

BodyText(g, f) ==
  IF f.kind = "array" THEN Cat(ArrayBegin, Listed(ArrayTexts(g, f.read)))
  ELSE Cat(ObjectBegin, Listed(ObjectTexts(g, f.read)))

\* With a comma behind the last item, if there is one.
CommaText(g, f) == Cat(BodyText(g, f), IF f.read = <<>> THEN <<>> ELSE Comma)

\* A call that waits for its next value.
WaitingText(g, f) == Cat(CommaText(g, f), KeyText(f))

StackText(g, stack) == FlattenSeq([i \in DOMAIN stack |-> WaitingText(g, stack[i])])

\* g spells the values of S.
Spells(g, S) == \A x \in S : g[x] \in TokenText

LEMMA FrameGrows ==
  ASSUME NEW S, NEW T, S \subseteq T, NEW f, FrameOver(S, f)
  PROVE  FrameOver(T, f)
<1>1. Seq(S) \subseteq Seq(T) /\ Seq(MemberOver(S)) \subseteq Seq(MemberOver(T))
  <2>1. MemberOver(S) \subseteq MemberOver(T)
    BY DEF MemberOver
  <2> HIDE DEF MemberOver
  <2>2. QED
    BY <2>1
<1>2. QED
  BY <1>1 DEF FrameOver

LEMMA KeyTextLaws ==
  ASSUME NEW f, HeldKey(f)
  PROVE  KeyText(f) \in TokenText
<1>1. <<>> \in TokenText
  BY MarksAreTexts
<1>2. CASE f.key = NoKey
  BY <1>1, <1>2 DEF KeyText
<1>3. CASE f.key # NoKey
  <2>1. PICK k \in Nat : f.key = [is |-> "string", text |-> k]
    BY <1>3 DEF HeldKey
  <2>2. f.key.text = k
    BY <2>1
  <2>3. Named(k, <<>>) \in TokenText
    BY <1>1, NamedIsText
  <2>4. QED
    BY <1>3, <2>2, <2>3, Zenon DEF KeyText
<1>4. QED
  BY <1>2, <1>3

LEMMA FrameTexts ==
  ASSUME NEW S, NEW g, Spells(g, S), NEW f, FrameOver(S, f)
  PROVE  /\ BodyText(g, f) \in TokenText
         /\ CommaText(g, f) \in TokenText
         /\ KeyText(f) \in TokenText
         /\ WaitingText(g, f) \in TokenText
<1>1. /\ ArrayBegin \in TokenText /\ ObjectBegin \in TokenText
      /\ Comma \in TokenText /\ <<>> \in TokenText
  BY MarksAreTexts
<1>2. \A x \in S : g[x] \in TokenText
  BY DEF Spells
<1>3. BodyText(g, f) \in TokenText
  <2>1. CASE f.kind = "array"
    <3>1. f.read \in Seq(S)
      BY <2>1 DEF FrameOver
    <3>2. ArrayTexts(g, f.read) \in Seq(TokenText)
      BY <1>2, <3>1, ArrayTextsType
    <3>3. Listed(ArrayTexts(g, f.read)) \in TokenText
      BY <3>2, ListedLaws
    <3>4. Cat(ArrayBegin, Listed(ArrayTexts(g, f.read))) \in TokenText
      BY <1>1, <3>3, CatLaws
    <3>5. QED
      BY <2>1, <3>4, Zenon DEF BodyText
  <2>2. CASE f.kind # "array"
    <3>1. f.read \in Seq(MemberOver(S))
      BY <2>2 DEF FrameOver, IsFrame
    <3>2. ObjectTexts(g, f.read) \in Seq(TokenText)
      BY <1>2, <3>1, ObjectTextsType
    <3>3. Listed(ObjectTexts(g, f.read)) \in TokenText
      BY <3>2, ListedLaws
    <3>4. Cat(ObjectBegin, Listed(ObjectTexts(g, f.read))) \in TokenText
      BY <1>1, <3>3, CatLaws
    <3>5. QED
      BY <2>2, <3>4, Zenon DEF BodyText
  <2>3. QED
    BY <2>1, <2>2
<1>4. CommaText(g, f) \in TokenText
  <2>1. (IF f.read = <<>> THEN <<>> ELSE Comma) \in TokenText
    BY <1>1
  <2>2. QED
    BY <1>3, <2>1, CatLaws DEF CommaText
<1>5. KeyText(f) \in TokenText
  BY KeyTextLaws DEF FrameOver
<1>6. QED
  BY <1>3, <1>4, <1>5, CatLaws DEF WaitingText

\* The text of a stack is that of the calls but the last, and that of the last.
LEMMA StackGrows ==
  ASSUME NEW S, NEW g, Spells(g, S), NEW stack, StackOver(S, stack),
         NEW longer, StackOver(S, longer), Len(longer) = Len(stack) + 1,
         \A i \in 1..Len(stack) : longer[i] = stack[i]
  PROVE  /\ StackText(g, stack) \in TokenText
         /\ StackText(g, longer) = Cat(StackText(g, stack), WaitingText(g, longer[Len(longer)]))
<1> DEFINE Texts0(x) == [i \in DOMAIN x |-> WaitingText(g, x[i])]
<1>1. ASSUME NEW x, StackOver(S, x)
      PROVE  /\ Texts0(x) \in Seq(TokenText) /\ Len(Texts0(x)) = Len(x) /\ Len(x) \in Nat
             /\ \A i \in 1..Len(x) : Texts0(x)[i] = WaitingText(g, x[i])
  <2>1. IsSeq(x) /\ \A i \in 1..Len(x) : FrameOver(S, x[i])
    BY <1>1 DEF StackOver
  <2>2. Len(x) \in Nat /\ DOMAIN x = 1..Len(x)
    BY <2>1, SeqLaws
  <2>3. \A i \in 1..Len(x) : WaitingText(g, x[i]) \in TokenText
    BY <2>1, FrameTexts
  <2>4. QED
    BY <2>2, <2>3
<1>2. /\ Texts0(longer) \in Seq(TokenText) /\ Len(Texts0(longer)) = Len(longer)
      /\ Texts0(stack) \in Seq(TokenText) /\ Len(Texts0(stack)) = Len(stack)
      /\ Len(stack) \in Nat
      /\ \A i \in 1..Len(stack) : Texts0(stack)[i] = WaitingText(g, stack[i])
      /\ \A i \in 1..Len(longer) : Texts0(longer)[i] = WaitingText(g, longer[i])
  <2> HIDE DEF Texts0
  <2>1. QED
    BY <1>1
<1>3. /\ StackText(g, stack) = FlattenSeq(Texts0(stack))
      /\ StackText(g, longer) = FlattenSeq(Texts0(longer))
  BY DEF StackText
<1> HIDE DEF Texts0
<1>4. \A i \in 1..Len(stack) : Texts0(longer)[i] = Texts0(stack)[i]
  <2>1. \A i \in 1..Len(stack) : i \in 1..Len(longer)
    BY <1>2
  <2>2. QED
    BY <1>2, <2>1
<1>5. Len(longer) \in 1..Len(longer)
  BY <1>2
<1>6. Texts0(longer)[Len(longer)] = WaitingText(g, longer[Len(longer)])
  BY <1>2, <1>5
<1>7. FlattenSeq(Texts0(longer)) = FlattenSeq(Texts0(stack)) \o Texts0(longer)[Len(longer)]
  BY <1>2, <1>4, FlattenLast DEF TokenText
<1>8. FlattenSeq(Texts0(stack)) \in TokenText
  BY <1>2, FlattenLaws DEF TokenText
<1>9. QED
  BY <1>3, <1>6, <1>7, <1>8, Zenon DEF Cat

LEMMA EmptyStack ==
  ASSUME NEW S, NEW g
  PROVE  StackOver(S, <<>>) /\ StackText(g, <<>>) = <<>>
<1>1. IsSeq(<<>>) /\ Len(<<>>) = 0
  BY EmptyIsSeq
<1>2. StackOver(S, <<>>)
  BY <1>1 DEF StackOver
<1>3. FlattenSeq(<<>>) = <<>>
  <2>1. <<>> \in Seq(Seq({}))
    OBVIOUS
  <2>2. QED
    BY <2>1, FlattenLaws
<1>4. [i \in DOMAIN <<>> |-> WaitingText(g, <<>>[i])] = <<>>
  <2> DEFINE W(i) == WaitingText(g, <<>>[i])
  <2> HIDE DEF W
  <2>1. [i \in DOMAIN <<>> |-> W(i)] = <<>>
    OBVIOUS
  <2>2. QED
    BY <2>1 DEF W
<1>5. QED
  BY <1>2, <1>3, <1>4, Zenon DEF StackText

LEMMA StackTop ==
  ASSUME NEW S, NEW g, Spells(g, S), NEW stack, StackOver(S, stack), stack # <<>>
  PROVE  /\ StackOver(S, Front(stack)) /\ FrameOver(S, Last(stack))
         /\ StackText(g, Front(stack)) \in TokenText
         /\ StackText(g, stack) = Cat(StackText(g, Front(stack)), WaitingText(g, Last(stack)))
<1>1. IsSeq(stack) /\ \A i \in 1..Len(stack) : FrameOver(S, stack[i])
  BY DEF StackOver
<1>2. /\ Len(stack) \in Nat /\ Len(stack) > 0
      /\ IsSeq(Front(stack)) /\ Len(Front(stack)) = Len(stack) - 1
      /\ \A i \in 1..(Len(stack) - 1) : Front(stack)[i] = stack[i]
      /\ Last(stack) = stack[Len(stack)]
  BY <1>1, SeqLaws, FrontLaws
<1>3. StackOver(S, Front(stack)) /\ FrameOver(S, Last(stack))
  BY <1>1, <1>2 DEF StackOver
<1>4. Len(stack) = Len(Front(stack)) + 1
      /\ \A i \in 1..Len(Front(stack)) : stack[i] = Front(stack)[i]
  BY <1>2
<1>5. QED
  BY <1>2, <1>3, <1>4, StackGrows

-----------------------------------------------------------------------------
(***************************************************************************)
(* A value is returned to the container that is being read.                *)
(***************************************************************************)
LEMMA ListGrows ==
  ASSUME NEW a \in TokenText, NEW xs \in Seq(TokenText), NEW t \in TokenText
  PROVE  Cat(a, Listed(Append(xs, t)))
           = Cat(Cat(Cat(a, Listed(xs)), IF xs = <<>> THEN <<>> ELSE Comma), t)
<1>1. Listed(xs) \in TokenText /\ Listed(<<>>) = <<>> /\ Comma \in TokenText /\ <<>> \in TokenText
  BY ListedLaws, MarksAreTexts
<1>2. CASE xs = <<>>
  <2>1. Listed(Append(xs, t)) = t
    BY <1>2, ListedLaws
  <2>2. Cat(a, Listed(xs)) = a /\ Cat(a, <<>>) = a
    BY <1>1, <1>2, CatLaws
  <2>3. QED
    BY <1>2, <2>1, <2>2, Zenon
<1>3. CASE xs # <<>>
  <2>1. Listed(Append(xs, t)) = Cat(Cat(Listed(xs), Comma), t)
    <3>1. Listed(Append(xs, t)) = (Listed(xs) \o Comma) \o t
      BY <1>3, ListedLaws
    <3>2. QED
      BY <3>1, Zenon DEF Cat
  <2> DEFINE L == Listed(xs)
  <2>2. L \in TokenText
    BY <1>1
  <2> HIDE DEF L
  <2>3. Cat(a, L) \in TokenText /\ Cat(L, Comma) \in TokenText
    BY <1>1, <2>2, CatLaws
  <2>4. Cat(a, Cat(Cat(L, Comma), t)) = Cat(Cat(a, Cat(L, Comma)), t)
    BY <2>3, CatAssoc
  <2>5. Cat(a, Cat(L, Comma)) = Cat(Cat(a, L), Comma)
    BY <1>1, <2>2, CatAssoc
  <2>6. QED
    BY <1>3, <2>1, <2>4, <2>5, Zenon DEF L
<1>4. QED
  BY <1>2, <1>3

\* The frame that takes the item is the one Return puts in its place.
TakesItem(f, h, item) ==
  IsFrame(h) /\ h.kind = f.kind /\ h.read = Append(f.read, item) /\ h.key = NoKey

LEMMA ItemIsTaken ==
  ASSUME NEW S, NEW g, Spells(g, S), NEW f, FrameOver(S, f), HoldsKey(f), NEW v \in S,
         NEW h, TakesItem(f, h, IF f.kind = "array" THEN v ELSE Member(f.key.text, v))
  PROVE  /\ FrameOver(S, h) /\ h.key = NoKey /\ h.read # <<>>
         /\ BodyText(g, h) = Cat(WaitingText(g, f), g[v])
<1>1. \A x \in S : g[x] \in TokenText
  BY DEF Spells
<1>2. /\ ArrayBegin \in TokenText /\ ObjectBegin \in TokenText
      /\ Comma \in TokenText /\ <<>> \in TokenText
  BY MarksAreTexts
<1>3. CASE f.kind = "array"
  <2>1. f.read \in Seq(S) /\ h.kind = "array" /\ h.read = Append(f.read, v) /\ h.key = NoKey
    BY <1>3 DEF FrameOver, TakesItem
  <2>2. h.read \in Seq(S) /\ h.read # <<>>
    BY <2>1, AppendProperties, EmptySeq
  <2>3. FrameOver(S, h)
    BY <2>1, <2>2 DEF FrameOver, HeldKey, TakesItem
  <2>4. KeyText(f) = <<>>
    BY <1>3 DEF KeyText, FrameOver, HeldKey
  <2> DEFINE xs == ArrayTexts(g, f.read)
  <2>5. xs \in Seq(TokenText) /\ ArrayTexts(g, h.read) = Append(xs, g[v])
    BY <1>1, <2>1, ArrayTextsType
  <2>6. xs = <<>> <=> f.read = <<>>
    <3>1. Len(xs) = Len(f.read)
      BY <1>1, <2>1, ArrayTextsType
    <3> HIDE DEF xs
    <3>2. QED
      BY <2>1, <2>5, <3>1, EmptySeq
  <2>7. /\ BodyText(g, f) = Cat(ArrayBegin, Listed(xs))
        /\ BodyText(g, h) = Cat(ArrayBegin, Listed(Append(xs, g[v])))
    BY <1>3, <2>1, <2>5, Zenon DEF BodyText
  <2>8. CommaText(g, f) = Cat(Cat(ArrayBegin, Listed(xs)), IF xs = <<>> THEN <<>> ELSE Comma)
    BY <2>6, <2>7, Zenon DEF CommaText
  <2> HIDE DEF xs
  <2>9. BodyText(g, h) = Cat(CommaText(g, f), g[v])
    BY <1>1, <1>2, <2>5, <2>7, <2>8, ListGrows
  <2>10. WaitingText(g, f) = CommaText(g, f)
    BY <2>4, FrameTexts, CatLaws DEF WaitingText
  <2>11. QED
    BY <2>1, <2>2, <2>3, <2>9, <2>10
<1>4. CASE f.kind # "array"
  <2>1. f.kind = "object" /\ f.key # NoKey
    BY <1>4 DEF FrameOver, IsFrame, HoldsKey
  <2>2. PICK k \in Nat : f.key = [is |-> "string", text |-> k]
    BY <2>1 DEF FrameOver, HeldKey
  <2>3. f.key.text = k
    BY <2>2
  <2> DEFINE m == Member(k, v)
  <2>4. m \in MemberOver(S) /\ m.key = k /\ m.value = v
    BY DEF Member, MemberOver
  <2> HIDE DEF m
  <2>5. /\ f.read \in Seq(MemberOver(S)) /\ h.kind = "object"
        /\ h.read = Append(f.read, m) /\ h.key = NoKey
    BY <1>4, <2>1, <2>3 DEF FrameOver, TakesItem, m
  <2>6. h.read \in Seq(MemberOver(S)) /\ h.read # <<>>
    BY <2>4, <2>5, AppendProperties, EmptySeq
  <2>7. FrameOver(S, h)
    BY <2>5, <2>6 DEF FrameOver, HeldKey, TakesItem
  <2>8. KeyText(f) = Named(k, <<>>)
    BY <2>1, <2>3, Zenon DEF KeyText
  <2> DEFINE xs == ObjectTexts(g, f.read)
  <2>9. xs \in Seq(TokenText) /\ ObjectTexts(g, h.read) = Append(xs, Named(k, g[v]))
    BY <1>1, <2>4, <2>5, ObjectTextsType
  <2>10. xs = <<>> <=> f.read = <<>>
    <3>1. Len(xs) = Len(f.read)
      BY <1>1, <2>5, ObjectTextsType
    <3> HIDE DEF xs
    <3>2. QED
      BY <2>5, <2>9, <3>1, EmptySeq
  <2>11. /\ BodyText(g, f) = Cat(ObjectBegin, Listed(xs))
         /\ BodyText(g, h) = Cat(ObjectBegin, Listed(Append(xs, Named(k, g[v]))))
    BY <1>4, <2>5, <2>9, Zenon DEF BodyText
  <2>12. CommaText(g, f) = Cat(Cat(ObjectBegin, Listed(xs)), IF xs = <<>> THEN <<>> ELSE Comma)
    BY <2>10, <2>11, Zenon DEF CommaText
  <2> HIDE DEF xs
  <2>13. g[v] \in TokenText /\ Named(k, g[v]) \in TokenText /\ Named(k, <<>>) \in TokenText
    BY <1>1, <1>2, NamedIsText
  <2>14. BodyText(g, h) = Cat(CommaText(g, f), Named(k, g[v]))
    BY <1>2, <2>9, <2>11, <2>12, <2>13, ListGrows
  <2>15. Named(k, g[v]) = Cat(Named(k, <<>>), g[v])
    BY <2>13, NamedIsText, Zenon DEF Cat
  <2>16. CommaText(g, f) \in TokenText
    BY FrameTexts
  <2>17. Cat(CommaText(g, f), Cat(Named(k, <<>>), g[v]))
           = Cat(Cat(CommaText(g, f), Named(k, <<>>)), g[v])
    BY <2>13, <2>16, CatAssoc
  <2>18. BodyText(g, h) = Cat(WaitingText(g, f), g[v])
    BY <2>8, <2>14, <2>15, <2>17, Zenon DEF WaitingText
  <2>19. QED
    BY <2>5, <2>6, <2>7, <2>18
<1>5. QED
  BY <1>3, <1>4

-----------------------------------------------------------------------------
(***************************************************************************)
(* The tokens behind the reader.                                           *)
(***************************************************************************)
Behind(t, n) == SubSeq(t, 1, n - 1)

LEMMA BehindLaws ==
  ASSUME NEW t \in TokenText, NEW n \in 1..Len(t)
  PROVE  /\ Behind(t, n) \in TokenText /\ <<t[n]>> \in TokenText
         /\ Behind(t, n + 1) = Cat(Behind(t, n), <<t[n]>>)
<1>1. Len(t) \in Nat /\ t[n] \in Token /\ t \in Seq(Token)
  BY LenProperties, ElementOfSeq DEF TokenText
<1>2. 1 \in 1..Len(t) /\ n \in 1..Len(t) /\ n - 1 \in Int /\ (n + 1) - 1 = n
  BY <1>1
<1>3. SubSeq(t, 1, n) = SubSeq(t, 1, n - 1) \o <<t[n]>>
  BY <1>1, <1>2, SubSeqRecursiveSecond
<1>4. \A i \in 1..(n - 1) : t[i] \in Token
  BY <1>1, ElementOfSeq
<1>5. SubSeq(t, 1, n - 1) \in Seq(Token)
  <2>1. 1 \in Int
    OBVIOUS
  <2>2. QED
    BY <1>2, <1>4, <2>1, SubSeqProperties, Zenon
<1>6. <<t[n]>> \in TokenText
  BY <1>1, OneToken DEF IsOne
<1>7. Behind(t, n) \in TokenText
  BY <1>5, Zenon DEF Behind, TokenText
<1>8. Behind(t, n + 1) = Cat(Behind(t, n), <<t[n]>>)
  BY <1>2, <1>3, Zenon DEF Behind, Cat
<1>9. QED
  BY <1>6, <1>7, <1>8

LEMMA BehindEnds ==
  ASSUME NEW t \in TokenText
  PROVE  Behind(t, 1) = <<>> /\ Behind(t, Len(t) + 1) = t
<1>1. Len(t) \in Nat /\ t \in Seq(Token)
  BY LenProperties DEF TokenText
<1>2. (Len(t) + 1) - 1 = Len(t) /\ 1 - 1 = 0 /\ 1 \in Int /\ 0 \in Int /\ 0 < 1
  BY <1>1
<1>3. SubSeq(t, 1, 0) = <<>>
  BY <1>2, SubSeqEmpty, Zenon
<1>4. SubSeq(t, 1, Len(t)) = t
  BY <1>1, SubSeqFull
<1>5. Behind(t, 1) = <<>>
  BY <1>2, <1>3, Zenon DEF Behind
<1>6. Behind(t, Len(t) + 1) = t
  BY <1>2, <1>4, Zenon DEF Behind
<1>7. QED
  BY <1>5, <1>6

LEMMA TokenIsMark ==
  ASSUME NEW x \in Token, NEW c \in Punctuation, x.is = c
  PROVE  <<x>> = Mark(c)
<1>1. c \notin {"string", "scalar"}
  BY Zenon DEF Punctuation
<1>2. x = [is |-> c]
  <2>1. CASE x \in [is : Punctuation]
    BY <2>1
  <2>2. CASE x \in [is : {"string", "scalar"}, text : Nat]
    BY <1>1, <2>2
  <2>3. QED
    BY <2>1, <2>2 DEF Token
<1>3. QED
  BY <1>2, Zenon DEF Mark

LEMMA TokenIsWord ==
  ASSUME NEW x \in Token, x.is \in {"string", "scalar"}
  PROVE  x.text \in Nat /\ x = [is |-> x.is, text |-> x.text] /\ <<x>> = Word(x.is, x.text)
<1>1. x.is \notin Punctuation
  BY Zenon DEF Punctuation
<1>2. x \in [is : {"string", "scalar"}, text : Nat]
  <2>1. CASE x \in [is : Punctuation]
    BY <1>1, <2>1
  <2>2. QED
    BY <2>1 DEF Token
<1>3. x.text \in Nat /\ x = [is |-> x.is, text |-> x.text]
  BY <1>2
<1>4. QED
  BY <1>3, Zenon DEF Word

LEMMA SameSequence ==
  ASSUME NEW s, NEW t, IsSeq(s), IsSeq(t), Len(s) = Len(t), \A i \in 1..Len(s) : s[i] = t[i]
  PROVE  s = t
<1>1. PICK S : s \in Seq(S)
  BY DEF IsSeq
<1>2. PICK T : t \in Seq(T)
  BY DEF IsSeq
<1>3. s \in Seq(S \cup T) /\ t \in Seq(S \cup T)
  BY <1>1, <1>2
<1>4. QED
  BY <1>3, SeqEqual

LEMMA FrontOfAppend ==
  ASSUME NEW s, IsSeq(s), NEW x
  PROVE  Front(Append(s, x)) = s /\ Last(Append(s, x)) = x /\ Append(s, x) # <<>>
<1> DEFINE t == Append(s, x)
<1>1. /\ IsSeq(t) /\ Len(s) \in Nat /\ Len(t) = Len(s) + 1
      /\ \A i \in 1..Len(s) : t[i] = s[i]
      /\ t[Len(s) + 1] = x
  BY AppendLaws
<1> HIDE DEF t
<1>2. t # <<>>
  BY <1>1, SeqLaws
<1>3. /\ IsSeq(Front(t)) /\ Len(Front(t)) = Len(t) - 1
      /\ \A i \in 1..(Len(t) - 1) : Front(t)[i] = t[i]
      /\ Last(t) = t[Len(t)]
  BY <1>1, <1>2, FrontLaws
<1>4. Len(t) - 1 = Len(s)
  BY <1>1
<1>5. \A i \in 1..Len(s) : Front(t)[i] = s[i]
  BY <1>1, <1>3, <1>4
<1>6. Front(t) = s
  BY <1>1, <1>3, <1>4, <1>5, SameSequence
<1>7. QED
  BY <1>1, <1>2, <1>3, <1>6 DEF t

LEMMA InnerIsSpelled ==
  ASSUME NEW N \in Nat, NEW n \in 1..(N + 1)
  PROVE  /\ Inner(n) \subseteq Value[N] /\ Spells(Written(N), Inner(n))
         /\ Inner(n) \subseteq Value[n]
         /\ \A m \in 1..n : Inner(m) \subseteq Inner(n)
<1>1. n - 1 \in 0..N /\ n # 0 /\ n - 1 \in Nat
  OBVIOUS
<1>2. Inner(n) = Value[n - 1]
  BY <1>1 DEF Inner
<1>3. Value[n - 1] \subseteq Value[N]
  BY <1>1, ValueGrows
<1>4. Spells(Written(N), Inner(n))
  BY <1>2, <1>3, WriteIntoRecursion DEF Spells
<1>5. Inner(n) \subseteq Value[n]
  <2>1. n \in 0..n /\ n \in Nat
    OBVIOUS
  <2>2. QED
    BY <2>1, ValueGrows
<1>6. ASSUME NEW m \in 1..n PROVE Inner(m) \subseteq Inner(n)
  <2>1. m - 1 \in 0..(n - 1) /\ m # 0
    OBVIOUS
  <2>2. Value[m - 1] \subseteq Value[n - 1]
    BY <1>1, <2>1, ValueGrows
  <2>3. QED
    BY <1>2, <2>1, <2>2 DEF Inner
<1>7. QED
  BY <1>2, <1>3, <1>4, <1>5, <1>6

-----------------------------------------------------------------------------
(***************************************************************************)
(* The invariant of reading: what the calls hold is what the text says.    *)
(***************************************************************************)
FramesHoldValues == StackOver(Inner(pos), frames)

TopIsReady ==
  /\ pc = "key" => Top.kind = "object" /\ Top.key = NoKey
  /\ pc = "next" => Top.key = NoKey /\ Top.read # <<>>

ResultIsValue ==
  /\ pc \in {"end", "accepted"} => result \in Inner(pos)
  /\ pc = "accepted" => pos = Len(text) + 1

ReadTokens(g, stack, how, v) ==
  IF how \in {"end", "accepted"} THEN g[v]
  ELSE IF how = "next" THEN Cat(StackText(g, Front(stack)), BodyText(g, Last(stack)))
  ELSE StackText(g, stack)

TextIsRead ==
  pc # "refused" => Behind(text, pos) = ReadTokens(Written(Len(text)), frames, pc, result)

ReadInv == FramesHoldValues /\ TopIsReady /\ ResultIsValue /\ TextIsRead

LEMMA ReadTokensCases ==
  ASSUME NEW g, NEW stack, NEW v
  PROVE  /\ ReadTokens(g, stack, "end", v) = g[v] /\ ReadTokens(g, stack, "accepted", v) = g[v]
         /\ ReadTokens(g, stack, "next", v) =
              Cat(StackText(g, Front(stack)), BodyText(g, Last(stack)))
         /\ ReadTokens(g, stack, "value", v) = StackText(g, stack)
         /\ ReadTokens(g, stack, "key", v) = StackText(g, stack)
<1>1. /\ "end" \in {"end", "accepted"} /\ "accepted" \in {"end", "accepted"}
      /\ "next" \notin {"end", "accepted"} /\ "value" \notin {"end", "accepted"}
      /\ "key" \notin {"end", "accepted"} /\ "value" # "next" /\ "key" # "next"
  OBVIOUS
<1>2. QED
  BY <1>1, Zenon DEF ReadTokens

LEMMA FrameTakesItem ==
  ASSUME NEW f, IsFrame(f), NEW item
  PROVE  TakesItem(f, [f EXCEPT !.read = Append(@, item), !.key = NoKey], item)
<1>1. IsSeq(Append(f.read, item))
  BY AppendLaws DEF IsFrame
<1>2. QED
  BY <1>1, TakesAnItem, Zenon DEF TakesItem

LEMMA ReturnReads ==
  ASSUME Inv, NEW n \in 1..(Len(text) + 1), pos' = n, text' = text,
         NEW stack, StackOver(Inner(n), stack), \A i \in 1..Len(stack) : HoldsKey(stack[i]),
         NEW v \in Inner(n), Return(v, stack),
         Behind(text, n) = Cat(StackText(Written(Len(text)), stack), Written(Len(text))[v])
  PROVE  ReadInv'
<1> DEFINE S == Inner(n)
           g == Written(Len(text))
<1>1. Len(text) \in Nat
  BY DEF Inv, TypeOK
<1>2. Spells(g, S)
  BY <1>1, InnerIsSpelled
<1>3. g[v] \in TokenText
  BY <1>2 DEF Spells
<1>4. StackOver(S, stack) /\ IsSeq(stack) /\ v \in S /\ Behind(text, n) = Cat(StackText(g, stack), g[v])
  BY DEF StackOver
<1>5. ReadInv' <=>
        /\ StackOver(S, frames')
        /\ pc' = "key" => Last(frames').kind = "object" /\ Last(frames').key = NoKey
        /\ pc' = "next" => Last(frames').key = NoKey /\ Last(frames').read # <<>>
        /\ pc' \in {"end", "accepted"} => result' \in S
        /\ pc' = "accepted" => n = Len(text) + 1
        /\ pc' # "refused" => Behind(text, n) = ReadTokens(g, frames', pc', result')
  BY Zenon DEF ReadInv, FramesHoldValues, TopIsReady, ResultIsValue, TextIsRead, Top
<1>6. CASE stack = <<>>
  <2>1. frames' = <<>> /\ pc' = "end" /\ result' = v
    BY <1>6 DEF Return
  <2>2. StackOver(S, <<>>) /\ StackText(g, <<>>) = <<>>
    BY EmptyStack
  <2> HIDE DEF S, g
  <2>3. Behind(text, n) = g[v]
    BY <1>3, <1>4, <1>6, <2>2, CatLaws
  <2>4. QED
    BY <1>4, <1>5, <2>1, <2>2, <2>3, ReadTokensCases
<1>7. CASE stack # <<>>
  <2> DEFINE outer == Last(stack)
             item  == IF outer.kind = "array" THEN v ELSE Member(outer.key.text, v)
             inner == [outer EXCEPT !.read = Append(@, item), !.key = NoKey]
             fs    == Front(stack)
  <2>1. frames' = Append(fs, inner) /\ pc' = "next"
    BY <1>7 DEF Return
  <2>2. /\ Len(stack) \in Nat /\ Len(stack) > 0 /\ outer = stack[Len(stack)]
    BY <1>4, <1>7, SeqLaws, FrontLaws
  <2>3. /\ StackOver(S, fs) /\ FrameOver(S, outer)
        /\ StackText(g, fs) \in TokenText
        /\ StackText(g, stack) = Cat(StackText(g, fs), WaitingText(g, outer))
    <3> HIDE DEF S, g
    <3>1. QED
      BY <1>2, <1>4, <1>7, StackTop
  <2>4. HoldsKey(outer)
    <3> HIDE DEF outer
    <3>1. QED
      BY <2>2
  <2>5. TakesItem(outer, inner, item)
    <3> HIDE DEF outer, item, S
    <3>1. IsFrame(outer)
      BY <2>3 DEF FrameOver
    <3>2. QED
      BY <3>1, FrameTakesItem, Zenon DEF inner
  <2>6. /\ FrameOver(S, inner) /\ inner.key = NoKey /\ inner.read # <<>>
        /\ BodyText(g, inner) = Cat(WaitingText(g, outer), g[v])
    <3>1. TakesItem(outer, inner, IF outer.kind = "array" THEN v ELSE Member(outer.key.text, v))
      BY <2>5
    <3> HIDE DEF outer, inner, S, g, item
    <3>2. QED
      BY <1>2, <1>4, <2>3, <2>4, <3>1, ItemIsTaken
  <2>7. WaitingText(g, outer) \in TokenText
    <3> HIDE DEF outer, S, g
    <3>1. QED
      BY <1>2, <2>3, FrameTexts
  <2> HIDE DEF outer, inner, S, g, fs, item
  <2>8. IsSeq(fs) /\ \A i \in 1..Len(fs) : FrameOver(S, fs[i])
    BY <2>3 DEF StackOver
  <2>9. Front(frames') = fs /\ Last(frames') = inner
    BY <2>1, <2>8, FrontOfAppend
  <2>10. StackOver(S, frames')
    <3>1. /\ IsSeq(frames') /\ Len(fs) \in Nat /\ Len(frames') = Len(fs) + 1
          /\ \A i \in 1..Len(fs) : frames'[i] = fs[i]
          /\ frames'[Len(fs) + 1] = inner
      BY <2>1, <2>8, AppendLaws
    <3>2. \A i \in 1..(Len(fs) + 1) : i \in 1..Len(fs) \/ i = Len(fs) + 1
      BY <3>1
    <3>3. QED
      BY <2>6, <2>8, <3>1, <3>2 DEF StackOver
  <2>11. Behind(text, n) = Cat(StackText(g, fs), BodyText(g, inner))
    BY <1>3, <1>4, <2>3, <2>6, <2>7, CatAssoc
  <2>12. QED
    BY <1>5, <2>1, <2>6, <2>9, <2>10, <2>11, ReadTokensCases
<1>8. QED
  BY <1>6, <1>7

-----------------------------------------------------------------------------
LEMMA ReadingLaws ==
  ASSUME Inv
  PROVE  /\ text \in TokenText /\ Len(text) \in Nat /\ pos \in 1..(Len(text) + 1)
         /\ \A i \in 1..Len(text) : text[i] \in Token
         /\ Written(Len(text)) \in [Value[Len(text)] -> TokenText]
         /\ \A n \in 1..(Len(text) + 1) :
              /\ Inner(n) \subseteq Value[Len(text)]
              /\ Spells(Written(Len(text)), Inner(n))
<1>1. text \in TokenText /\ Len(text) \in Nat /\ pos \in 1..(Len(text) + 1)
  BY DEF Inv, TypeOK, TokenText
<1>2. \A i \in 1..Len(text) : text[i] \in Token
  BY <1>1, ElementOfSeq DEF TokenText
<1>3. QED
  BY <1>1, <1>2, WriteIntoRecursion, InnerIsSpelled

\* What the calls hold they hold on to as the reader moves on.
LEMMA CallsGrow ==
  ASSUME Inv, FramesHoldValues, NEW n \in 1..(Len(text) + 1), pos <= n,
         NEW stack, IsSeq(stack), Len(stack) <= Len(frames),
         \A i \in 1..Len(stack) : stack[i] = frames[i]
  PROVE  StackOver(Inner(n), stack)
<1>1. Len(text) \in Nat /\ pos \in 1..n
  BY ReadingLaws
<1>2. Inner(pos) \subseteq Inner(n)
  BY <1>1, InnerIsSpelled
<1>3. IsSeq(frames) /\ \A i \in 1..Len(frames) : FrameOver(Inner(pos), frames[i])
  BY DEF FramesHoldValues, StackOver
<1>4. Len(frames) \in Nat /\ Len(stack) \in Nat
  BY <1>3, SeqLaws
<1>5. \A i \in 1..Len(stack) : i \in 1..Len(frames)
  BY <1>4
<1>6. \A i \in 1..Len(stack) : FrameOver(Inner(n), stack[i])
  BY <1>2, <1>3, <1>5, FrameGrows
<1>7. QED
  BY <1>6 DEF StackOver

LEMMA CallsKept ==
  ASSUME Inv, FramesHoldValues, NEW n \in 1..(Len(text) + 1), pos <= n
  PROVE  StackOver(Inner(n), frames)
<1>1. IsSeq(frames)
  BY DEF FramesHoldValues, StackOver
<1>2. Len(frames) <= Len(frames)
  BY <1>1, SeqLaws
<1>3. QED
  BY <1>1, <1>2, CallsGrow

\* The text of the stack when a value or a name is next.
LEMMA ReadSoFar ==
  ASSUME Inv, ReadInv, pc \in {"value", "key"}
  PROVE  /\ Behind(text, pos) = StackText(Written(Len(text)), frames)
         /\ Behind(text, pos) \in TokenText
<1>1. Behind(text, pos) = StackText(Written(Len(text)), frames)
  BY ReadTokensCases DEF ReadInv, TextIsRead
<1>2. Behind(text, pos) \in TokenText
  <2>1. CASE pos \in 1..Len(text)
    BY <2>1, ReadingLaws, BehindLaws
  <2>2. CASE pos \notin 1..Len(text)
    <3>1. pos = Len(text) + 1
      BY <2>2, ReadingLaws
    <3>2. QED
      BY <3>1, ReadingLaws, BehindEnds
  <2>3. QED
    BY <2>1, <2>2
<1>3. QED
  BY <1>1, <1>2

LEMMA ParseScalarReads ==
  ASSUME Inv, ReadInv, ParseScalar
  PROVE  ReadInv'
<1> DEFINE g == Written(Len(text))
           x == text[pos]
           v == IF x.is = "string" THEN Str(x.text) ELSE Scalar(x.text)
<1>1. /\ pos \in 1..Len(text) /\ Peek = x /\ x.is \in {"string", "scalar"}
      /\ pos' = pos + 1 /\ text' = text /\ pc = "value"
  BY HereIsAToken DEF ParseScalar, Peek
<1>2. Return(v, frames)
  BY <1>1, Zenon DEF ParseScalar
<1>3. /\ pos + 1 \in 1..(Len(text) + 1) /\ pos <= pos + 1 /\ x \in Token /\ text \in TokenText
      /\ Len(text) \in Nat /\ pos + 1 # 0 /\ pos + 1 \in Nat
  BY <1>1, ReadingLaws
<1>4. x.text \in Nat /\ <<x>> = Word(x.is, x.text)
  BY <1>1, <1>3, TokenIsWord
<1>5. v \in Inner(pos + 1) /\ g[v] = <<x>>
  <2>1. \A n \in Nat : Str(x.text) \in Value[n] /\ Scalar(x.text) \in Value[n]
    BY <1>4, ValueRecursion, ValueOverCases, Zenon
  <2>2. pos \in Nat /\ (pos + 1) - 1 = pos
    BY <1>1
  <2>3. v \in Inner(pos + 1)
    BY <1>3, <2>1, <2>2 DEF Inner
  <2>4. CASE x.is = "string"
    <3>1. v = Str(x.text) /\ <<x>> = Word("string", x.text)
      BY <1>4, <2>4
    <3>2. g[Str(x.text)] = Word("string", x.text)
      BY <1>3, <1>4, WrittenCases
    <3> HIDE DEF v, g, x
    <3>3. QED
      BY <2>3, <3>1, <3>2
  <2>5. CASE x.is # "string"
    <3>1. x.is = "scalar"
      BY <1>1, <2>5
    <3>2. v = Scalar(x.text) /\ <<x>> = Word("scalar", x.text)
      BY <1>4, <2>5, <3>1
    <3>3. g[Scalar(x.text)] = Word("scalar", x.text)
      BY <1>3, <1>4, WrittenCases
    <3> HIDE DEF v, g, x
    <3>4. QED
      BY <2>3, <3>2, <3>3
  <2>6. QED
    BY <2>3, <2>4, <2>5
<1>6. Behind(text, pos + 1) = Cat(StackText(g, frames), g[v])
  <2>1. Behind(text, pos + 1) = Cat(Behind(text, pos), <<x>>)
    BY <1>1, <1>3, BehindLaws
  <2>2. Behind(text, pos) = StackText(g, frames)
    BY <1>1, ReadSoFar
  <2>3. QED
    BY <1>5, <2>1, <2>2
<1>7. StackOver(Inner(pos + 1), frames)
  BY <1>3, CallsKept DEF ReadInv
<1>8. \A i \in 1..Len(frames) : HoldsKey(frames[i])
  BY <1>1, AllKeysAreHeld
<1> HIDE DEF v
<1>9. QED
  BY <1>1, <1>2, <1>3, <1>5, <1>6, <1>7, <1>8, ReturnReads

LEMMA NoTexts ==
  ASSUME NEW g, NEW e, e = <<>>
  PROVE  ArrayTexts(g, e) = <<>> /\ ObjectTexts(g, e) = <<>>
<1> DEFINE A(i) == g[e[i]]
           B(i) == Named(e[i].key, g[e[i].value])
<1>1. DOMAIN e = {}
  OBVIOUS
<1> HIDE DEF A, B
<1>2. [i \in DOMAIN e |-> A(i)] = <<>> /\ [i \in DOMAIN e |-> B(i)] = <<>>
  BY <1>1
<1>3. QED
  BY <1>2, Zenon DEF ArrayTexts, ObjectTexts, A, B

LEMMA EmptyContainers ==
  ASSUME NEW n \in Nat, NEW e, e = <<>>
  PROVE  /\ Arr(e) \in Value[n] /\ Obj(e) \in Value[n]
         /\ Written(n)[Arr(e)] = Cat(ArrayBegin, ArrayEnd)
         /\ Written(n)[Obj(e)] = Cat(ObjectBegin, ObjectEnd)
<1> DEFINE g == Written(n)
<1>1. \A S : e \in Seq(S)
  OBVIOUS
<1>2. Len(e) = 0 /\ DOMAIN e = {}
  OBVIOUS
<1>3. NamedOnce(e)
  BY <1>2 DEF NamedOnce
<1>4. Arr(e) \in Value[n] /\ Obj(e) \in Value[n]
  BY <1>1, <1>3, ValueRecursion, ValueOverCases, Zenon
<1>6. ArrayTexts(g, e) = <<>> /\ ObjectTexts(g, e) = <<>>
  BY NoTexts
<1>7. Listed(<<>>) = <<>>
  <2>1. <<>> \in Seq(TokenText)
    OBVIOUS
  <2>2. QED
    BY <2>1, ListedLaws
<1>8. Listed(ArrayTexts(g, e)) = <<>> /\ Listed(ObjectTexts(g, e)) = <<>>
  BY <1>6, <1>7, Zenon
<1>9. /\ g[Arr(e)] = Cat(Cat(ArrayBegin, Listed(ArrayTexts(g, e))), ArrayEnd)
      /\ g[Obj(e)] = Cat(Cat(ObjectBegin, Listed(ObjectTexts(g, e))), ObjectEnd)
  BY <1>1, <1>3, WrittenCases
<1>10. Cat(ArrayBegin, <<>>) = ArrayBegin /\ Cat(ObjectBegin, <<>>) = ObjectBegin
  BY MarksAreTexts, CatLaws
<1>11. QED
  BY <1>4, <1>8, <1>9, <1>10, Zenon

\* An empty container is read at once.
LEMMA EmptyReads ==
  ASSUME Inv, ReadInv, pc = "value", text' = text, pos' = pos + 2,
         pos \in 1..Len(text), pos + 1 \in 1..Len(text),
         NEW v, v \in Value[pos + 1],
         Written(Len(text))[v] = Cat(<<text[pos]>>, <<text[pos + 1]>>),
         Return(v, frames)
  PROVE  ReadInv'
<1> DEFINE g == Written(Len(text))
           x == <<text[pos]>>
           y == <<text[pos + 1]>>
<1>1. /\ pos + 2 \in 1..(Len(text) + 1) /\ pos <= pos + 2 /\ text \in TokenText
      /\ (pos + 2) - 1 = pos + 1 /\ pos + 2 # 0 /\ (pos + 1) + 1 = pos + 2
  BY ReadingLaws
<1>2. v \in Inner(pos + 2)
  BY <1>1 DEF Inner
<1>3. Behind(text, pos) = StackText(g, frames) /\ Behind(text, pos) \in TokenText
  BY ReadSoFar
<1>4. Behind(text, pos + 2) = Cat(StackText(g, frames), g[v])
  <2>1. Behind(text, pos + 1) = Cat(Behind(text, pos), x) /\ x \in TokenText
    BY <1>1, BehindLaws
  <2>2. Behind(text, (pos + 1) + 1) = Cat(Behind(text, pos + 1), y) /\ y \in TokenText
    BY <1>1, BehindLaws
  <2>3. g[v] = Cat(x, y)
    OBVIOUS
  <2> HIDE DEF x, y, g
  <2>4. Cat(Behind(text, pos), Cat(x, y)) = Cat(Cat(Behind(text, pos), x), y)
    BY <1>3, <2>1, <2>2, CatAssoc
  <2>5. QED
    BY <1>1, <1>3, <2>1, <2>2, <2>3, <2>4
<1>5. StackOver(Inner(pos + 2), frames)
  BY <1>1, CallsKept DEF ReadInv
<1>6. \A i \in 1..Len(frames) : HoldsKey(frames[i])
  BY AllKeysAreHeld
<1>7. QED
  BY <1>1, <1>2, <1>4, <1>5, <1>6, ReturnReads

\* A container is entered.
LEMMA EnterReads ==
  ASSUME Inv, ReadInv, pc = "value", text' = text, pos' = pos + 1,
         pos \in 1..Len(text), NEW kind \in {"array", "object"},
         frames' = Append(frames, Frame(kind)),
         pc' = IF kind = "array" THEN "value" ELSE "key",
         <<text[pos]>> = IF kind = "array" THEN ArrayBegin ELSE ObjectBegin
  PROVE  ReadInv'
<1> DEFINE g == Written(Len(text))
           n == pos + 1
           S == Inner(n)
           f == Frame(kind)
<1>1. n \in 1..(Len(text) + 1) /\ pos <= n /\ text \in TokenText /\ Spells(g, S)
  BY ReadingLaws
<1>2. StackOver(S, frames)
  BY <1>1, CallsKept DEF ReadInv
<1>3. /\ f.kind = kind /\ f.read = <<>> /\ f.key = NoKey /\ IsFrame(f)
  BY EmptyIsSeq DEF Frame, IsFrame
<1>4. FrameOver(S, f)
  <2>1. \A T : <<>> \in Seq(T)
    OBVIOUS
  <2> HIDE DEF f
  <2>2. f.read \in Seq(S) /\ f.read \in Seq(MemberOver(S))
    BY <1>3, <2>1, Zenon
  <2>3. QED
    BY <1>3, <2>2 DEF FrameOver, HeldKey
<1>5. WaitingText(g, f) = <<text[pos]>>
  <2> DEFINE B == IF kind = "array" THEN ArrayBegin ELSE ObjectBegin
  <2>1. B \in TokenText
    BY MarksAreTexts
  <2>2. BodyText(g, f) = B
    <3> DEFINE s == ArrayTexts(g, f.read)
               t == ObjectTexts(g, f.read)
    <3>2. s = <<>> /\ t = <<>>
      BY <1>3, NoTexts
    <3> HIDE DEF s, t
    <3>3. Listed(<<>>) = <<>>
      <4>1. <<>> \in Seq(TokenText)
        OBVIOUS
      <4>2. QED
        BY <4>1, ListedLaws
    <3>4. BodyText(g, f) = IF kind = "array" THEN Cat(ArrayBegin, <<>>) ELSE Cat(ObjectBegin, <<>>)
      BY <1>3, <3>2, <3>3, Zenon DEF BodyText, s, t
    <3>5. Cat(ArrayBegin, <<>>) = ArrayBegin /\ Cat(ObjectBegin, <<>>) = ObjectBegin
      BY MarksAreTexts, CatLaws
    <3>6. QED
      BY <3>4, <3>5
  <2> HIDE DEF B, f, g
  <2>3. Cat(B, <<>>) = B
    BY <2>1, MarksAreTexts, CatLaws
  <2>4. WaitingText(g, f) = B
    BY <1>3, <2>2, <2>3, Zenon DEF WaitingText, CommaText, KeyText
  <2>5. QED
    BY <2>4 DEF B
<1> HIDE DEF f, g, S
<1>6. /\ IsSeq(frames') /\ Len(frames) \in Nat /\ Len(frames') = Len(frames) + 1
      /\ \A i \in 1..Len(frames) : frames'[i] = frames[i]
      /\ frames'[Len(frames) + 1] = f
      /\ Last(frames') = f
  <2>1. IsSeq(frames)
    BY <1>2 DEF StackOver
  <2>2. frames' = Append(frames, f)
    BY DEF f
  <2>3. QED
    BY <2>1, <2>2, AppendLaws, FrontOfAppend
<1>7. StackOver(S, frames')
  <2>1. \A i \in 1..(Len(frames) + 1) : i \in 1..Len(frames) \/ i = Len(frames) + 1
    BY <1>6
  <2>2. QED
    BY <1>2, <1>4, <1>6, <2>1 DEF StackOver
<1>8. Behind(text, n) = StackText(g, frames')
  <2>1. Behind(text, n) = Cat(Behind(text, pos), <<text[pos]>>)
    BY <1>1, BehindLaws
  <2>2. Behind(text, pos) = StackText(g, frames)
    BY ReadSoFar DEF g
  <2>3. StackText(g, frames') = Cat(StackText(g, frames), WaitingText(g, f))
    <3> DEFINE fs == frames'
    <3>1. /\ StackOver(S, fs) /\ Len(fs) = Len(frames) + 1
          /\ \A i \in 1..Len(frames) : fs[i] = frames[i]
          /\ fs[Len(fs)] = f
      BY <1>6, <1>7
    <3> HIDE DEF fs
    <3>2. Spells(g, S) /\ StackOver(S, frames)
      BY <1>1, <1>2
    <3>3. StackText(g, fs) = Cat(StackText(g, frames), WaitingText(g, fs[Len(fs)]))
      BY <3>1, <3>2, StackGrows
    <3>4. QED
      BY <3>1, <3>3 DEF fs
  <2>4. QED
    BY <1>5, <2>1, <2>2, <2>3
<1>9. FramesHoldValues' /\ ResultIsValue'
  BY <1>7 DEF FramesHoldValues, ResultIsValue, S
<1>10. TopIsReady'
  <2>1. Top' = f
    BY <1>6 DEF Top
  <2>2. QED
    BY <1>3, <2>1 DEF TopIsReady
<1>11. TextIsRead'
  BY <1>8, ReadTokensCases DEF TextIsRead, g
<1>12. QED
  BY <1>9, <1>10, <1>11 DEF ReadInv

LEMMA ParseArrayReads ==
  ASSUME Inv, ReadInv, ParseArray
  PROVE  ReadInv'
<1>1. /\ pc = "value" /\ text' = text /\ pos \in 1..Len(text) /\ text[pos].is = "["
  BY HereIsAToken, Zenon DEF ParseArray, Peek
<1>2. <<text[pos]>> = ArrayBegin
  <2>1. text[pos] \in Token /\ "[" \in Punctuation
    BY <1>1, ReadingLaws, Zenon DEF Punctuation
  <2>2. QED
    BY <1>1, <2>1, TokenIsMark, Zenon DEF ArrayBegin
<1>3. CASE At(pos + 1).is = "]"
  <2>1. pos + 1 \in 1..Len(text) /\ text[pos + 1].is = "]"
    <3>1. At(pos + 1).is # "end" /\ pos + 1 \in {pos, pos + 1}
      BY <1>3, Zenon
    <3>2. QED
      BY <1>3, <3>1, HereIsAToken, Zenon
  <2>2. <<text[pos + 1]>> = ArrayEnd
    <3>1. text[pos + 1] \in Token /\ "]" \in Punctuation
      BY <2>1, ReadingLaws, Zenon DEF Punctuation
    <3>2. QED
      BY <2>1, <3>1, TokenIsMark, Zenon DEF ArrayEnd
  <2>3. Return(Arr(<<>>), frames) /\ pos' = pos + 2
    BY <1>3, Zenon DEF ParseArray
  <2>4. Len(text) \in Nat /\ pos + 1 \in Nat
    BY ReadingLaws
  <2> DEFINE v == Arr(<<>>)
  <2>5. v \in Value[pos + 1] /\ Written(Len(text))[v] = Cat(ArrayBegin, ArrayEnd)
    BY <2>4, EmptyContainers
  <2>6. Return(v, frames)
    BY <2>3
  <2> HIDE DEF v
  <2>7. QED
    BY <1>1, <1>2, <2>1, <2>2, <2>3, <2>5, <2>6, EmptyReads
<1>4. CASE At(pos + 1).is # "]"
  <2>1. frames' = Append(frames, Frame("array")) /\ pos' = pos + 1 /\ pc' = "value"
    BY <1>1, <1>4 DEF ParseArray
  <2>2. QED
    BY <1>1, <1>2, <2>1, EnterReads
<1>5. QED
  BY <1>3, <1>4

LEMMA ParseObjectReads ==
  ASSUME Inv, ReadInv, ParseObject
  PROVE  ReadInv'
<1>1. /\ pc = "value" /\ text' = text /\ pos \in 1..Len(text) /\ text[pos].is = "{"
  BY HereIsAToken, Zenon DEF ParseObject, Peek
<1>2. <<text[pos]>> = ObjectBegin
  <2>1. text[pos] \in Token /\ "{" \in Punctuation
    BY <1>1, ReadingLaws, Zenon DEF Punctuation
  <2>2. QED
    BY <1>1, <2>1, TokenIsMark, Zenon DEF ObjectBegin
<1>3. CASE At(pos + 1).is = "}"
  <2>1. pos + 1 \in 1..Len(text) /\ text[pos + 1].is = "}"
    <3>1. At(pos + 1).is # "end" /\ pos + 1 \in {pos, pos + 1}
      BY <1>3, Zenon
    <3>2. QED
      BY <1>3, <3>1, HereIsAToken, Zenon
  <2>2. <<text[pos + 1]>> = ObjectEnd
    <3>1. text[pos + 1] \in Token /\ "}" \in Punctuation
      BY <2>1, ReadingLaws, Zenon DEF Punctuation
    <3>2. QED
      BY <2>1, <3>1, TokenIsMark, Zenon DEF ObjectEnd
  <2>3. Return(Obj(<<>>), frames) /\ pos' = pos + 2
    BY <1>3, Zenon DEF ParseObject
  <2>4. Len(text) \in Nat /\ pos + 1 \in Nat
    BY ReadingLaws
  <2> DEFINE v == Obj(<<>>)
  <2>5. v \in Value[pos + 1] /\ Written(Len(text))[v] = Cat(ObjectBegin, ObjectEnd)
    BY <2>4, EmptyContainers
  <2>6. Return(v, frames)
    BY <2>3
  <2> HIDE DEF v
  <2>7. QED
    BY <1>1, <1>2, <2>1, <2>2, <2>3, <2>5, <2>6, EmptyReads
<1>4. CASE At(pos + 1).is # "}"
  <2>1. frames' = Append(frames, Frame("object")) /\ pos' = pos + 1 /\ pc' = "key"
    BY <1>4 DEF ParseObject
  <2>2. QED
    BY <1>1, <1>2, <2>1, EnterReads
<1>5. QED
  BY <1>3, <1>4

\* A call with nothing held back waits with a comma, and then with the name of
\* the member it reads.
LEMMA NameIsTaken ==
  ASSUME NEW S, NEW g, Spells(g, S), NEW f, FrameOver(S, f), f.kind = "object", f.key = NoKey,
         NEW k \in Nat, NEW h, IsFrame(h), h.kind = f.kind, h.read = f.read,
         h.key = [is |-> "string", text |-> k]
  PROVE  /\ FrameOver(S, h)
         /\ WaitingText(g, f) = CommaText(g, f)
         /\ WaitingText(g, h) = Cat(WaitingText(g, f), Named(k, <<>>))
         /\ Named(k, <<>>) = Cat(Word("string", k), Colon)
<1>1. h.key # NoKey /\ h.key.text = k
  BY DEF NoKey
<1>2. FrameOver(S, h)
  BY DEF FrameOver, HeldKey
<1>3. CommaText(g, h) = CommaText(g, f)
  BY Zenon DEF CommaText, BodyText
<1>4. KeyText(f) = <<>> /\ KeyText(h) = Named(k, <<>>)
  BY <1>1, Zenon DEF KeyText
<1>5. CommaText(g, f) \in TokenText
  BY FrameTexts
<1>6. WaitingText(g, f) = CommaText(g, f)
  BY <1>4, <1>5, CatLaws DEF WaitingText
<1>7. WaitingText(g, h) = Cat(CommaText(g, f), Named(k, <<>>))
  BY <1>3, <1>4, Zenon DEF WaitingText
<1>8. Named(k, <<>>) = Cat(Word("string", k), Colon)
  <2>1. <<>> \in TokenText
    BY MarksAreTexts
  <2>2. /\ Cat(Word("string", k), Colon) \in TokenText
        /\ Named(k, <<>>) = Cat(Cat(Word("string", k), Colon), <<>>)
    BY <2>1, NamedIsCat
  <2>3. QED
    BY <2>2, CatLaws
<1>9. QED
  BY <1>2, <1>6, <1>7, <1>8

LEMMA ParseKeyReads ==
  ASSUME Inv, ReadInv, ParseKey
  PROVE  ReadInv'
<1> DEFINE n   == Len(frames)
           top == [frames[n] EXCEPT !.key = Peek]
           g   == Written(Len(text))
           m   == pos + 2
           S   == Inner(m)
           x   == text[pos]
           k   == x.text
           fs  == frames'
           front == Front(frames)
<1>1. /\ pc = "key" /\ pc' = "value" /\ text' = text /\ pos' = m
      /\ Peek.is = "string" /\ fs = [frames EXCEPT ![n] = top]
  BY DEF ParseKey, KeyIsNext
<1>2. At(pos + 1).is = ":"
  BY Zenon DEF ParseKey, KeyIsNext
<1>3. pos \in 1..Len(text) /\ Peek = x /\ x.is = "string"
  BY <1>1, HereIsAToken DEF Peek
<1>4. pos + 1 \in 1..Len(text) /\ <<text[pos + 1]>> = Colon
  <2>1. At(pos + 1).is # "end" /\ pos + 1 \in {pos, pos + 1}
    BY <1>2, Zenon
  <2>2. pos + 1 \in 1..Len(text) /\ text[pos + 1].is = ":"
    BY <1>2, <2>1, HereIsAToken, Zenon
  <2>3. text[pos + 1] \in Token /\ ":" \in Punctuation
    BY <2>2, ReadingLaws, Zenon DEF Punctuation
  <2>4. QED
    BY <2>2, <2>3, TokenIsMark, Zenon DEF Colon
<1>5. k \in Nat /\ x = [is |-> "string", text |-> k] /\ <<x>> = Word("string", k)
  <2>1. x \in Token /\ x.is \in {"string", "scalar"}
    BY <1>3, ReadingLaws
  <2> HIDE DEF x
  <2>2. QED
    BY <1>3, <2>1, TokenIsWord
<1>6. m \in 1..(Len(text) + 1) /\ pos <= m /\ text \in TokenText /\ Spells(g, S) /\ m = (pos + 1) + 1
  <2>1. m \in 1..(Len(text) + 1) /\ pos <= m /\ m = (pos + 1) + 1
    BY <1>4, ReadingLaws
  <2> HIDE DEF m
  <2>2. QED
    BY <2>1, ReadingLaws
<1>7. StackOver(S, frames)
  <2> HIDE DEF m
  <2>1. QED
    BY <1>6, CallsKept DEF ReadInv
<1>8. IsSeq(frames) /\ frames # <<>> /\ Top.kind = "object" /\ Top.key = NoKey
  BY <1>1, <1>7 DEF StackOver, ReadInv, TopIsReady, Inv, TypeOK
<1>9. /\ n \in Nat /\ n > 0 /\ DOMAIN frames = 1..n /\ Top = frames[n] /\ Top = Last(frames)
      /\ Len(front) = n - 1 /\ \A i \in 1..(n - 1) : front[i] = frames[i]
  BY <1>8, SeqLaws, FrontLaws DEF Top
<1>10. /\ StackOver(S, front) /\ FrameOver(S, Top)
       /\ StackText(g, front) \in TokenText
       /\ StackText(g, frames) = Cat(StackText(g, front), WaitingText(g, Top))
  <2> HIDE DEF S, g
  <2>1. QED
    BY <1>6, <1>7, <1>8, <1>9, StackTop
<1>11. /\ IsFrame(top) /\ top.kind = Top.kind /\ top.read = Top.read
       /\ top.key = [is |-> "string", text |-> k]
  <2>1. IsFrame(frames[n])
    BY <1>9, <1>10 DEF FrameOver
  <2>2. IsFrame(top) /\ top.kind = frames[n].kind /\ top.read = frames[n].read /\ top.key = Peek
    BY <2>1 DEF IsFrame
  <2> HIDE DEF top
  <2>3. QED
    BY <1>3, <1>5, <1>9, <2>2
<1> HIDE DEF top, g, S, x, k, m
<1>12. /\ IsSeq(fs) /\ Len(fs) = n
       /\ \A i \in 1..n : fs[i] = IF i = n THEN top ELSE frames[i]
  <2>1. n \in DOMAIN frames
    BY <1>9
  <2> HIDE DEF fs
  <2>2. QED
    BY <1>1, <1>8, <1>9, <2>1, UpdateLaws
<1> HIDE DEF fs, n, front
<1>13. /\ FrameOver(S, top)
       /\ WaitingText(g, top) = Cat(WaitingText(g, Top), Named(k, <<>>))
       /\ Named(k, <<>>) = Cat(Word("string", k), Colon)
  BY <1>5, <1>6, <1>8, <1>10, <1>11, NameIsTaken
<1>14. StackOver(S, fs)
  BY <1>7, <1>9, <1>12, <1>13 DEF StackOver, n
<1>15. StackText(g, fs) = Cat(StackText(g, front), WaitingText(g, top))
  <2>1. Len(fs) = Len(front) + 1 /\ \A i \in 1..Len(front) : fs[i] = front[i]
    BY <1>9, <1>12
  <2>2. fs[Len(fs)] = top
    BY <1>9, <1>12
  <2>3. StackText(g, fs) = Cat(StackText(g, front), WaitingText(g, fs[Len(fs)]))
    BY <1>6, <1>10, <1>14, <2>1, StackGrows
  <2>4. QED
    BY <2>2, <2>3
<1>16. Behind(text, m) = StackText(g, fs)
  <2> DEFINE w == Word("string", k)
             b == Behind(text, pos)
             z == StackText(g, front)
             q == WaitingText(g, Top)
  <2>1. Behind(text, pos + 1) = Cat(b, w) /\ w \in TokenText /\ b \in TokenText
    BY <1>3, <1>5, <1>6, BehindLaws DEF x
  <2>2. Behind(text, m) = Cat(Behind(text, pos + 1), Colon) /\ Colon \in TokenText
    BY <1>4, <1>6, BehindLaws
  <2>3. b = Cat(z, q)
    BY <1>1, <1>10, ReadSoFar DEF g
  <2>4. z \in TokenText /\ q \in TokenText
    BY <1>6, <1>10, FrameTexts
  <2>5. Behind(text, m) = Cat(Cat(b, w), Colon) /\ StackText(g, fs) = Cat(z, Cat(q, Cat(w, Colon)))
    BY <1>13, <1>15, <2>1, <2>2
  <2> HIDE DEF w, b, z, q
  <2>6. Cat(Cat(b, w), Colon) = Cat(b, Cat(w, Colon)) /\ Cat(w, Colon) \in TokenText
    BY <2>1, <2>2, CatAssoc, CatLaws
  <2>7. Cat(z, Cat(q, Cat(w, Colon))) = Cat(Cat(z, q), Cat(w, Colon))
    BY <2>4, <2>6, CatAssoc
  <2>8. QED
    BY <2>3, <2>5, <2>6, <2>7
<1>17. FramesHoldValues' /\ ResultIsValue' /\ TopIsReady'
  BY <1>1, <1>14 DEF FramesHoldValues, ResultIsValue, TopIsReady, S, fs
<1>18. TextIsRead'
  BY <1>1, <1>16, ReadTokensCases DEF TextIsRead, g, fs
<1>19. QED
  BY <1>17, <1>18 DEF ReadInv

\* The innermost call when an item has just been read.
LEMMA ReadUpToItem ==
  ASSUME Inv, ReadInv, pc = "next"
  PROVE  LET g == Written(Len(text))
         IN  /\ IsSeq(frames) /\ frames # <<>> /\ Len(frames) \in Nat
             /\ Top = Last(frames) /\ Top.key = NoKey /\ Top.read # <<>>
             /\ FrameOver(Inner(pos), Top)
             /\ StackText(g, Front(frames)) \in TokenText /\ BodyText(g, Top) \in TokenText
             /\ Behind(text, pos) = Cat(StackText(g, Front(frames)), BodyText(g, Top))
             /\ StackText(g, frames)
                  = Cat(StackText(g, Front(frames)), Cat(BodyText(g, Top), Comma))
<1> DEFINE g == Written(Len(text))
           S == Inner(pos)
           z == StackText(g, Front(frames))
           b == BodyText(g, Top)
<1>1. StackOver(S, frames) /\ frames # <<>> /\ Top.key = NoKey /\ Top.read # <<>>
  BY DEF ReadInv, FramesHoldValues, TopIsReady, Inv, TypeOK
<1>2. Top = Last(frames) /\ IsSeq(frames)
  BY <1>1 DEF Top, StackOver
<1>3. Len(frames) \in Nat
  BY <1>2, SeqLaws
<1>4. Spells(g, S)
  BY ReadingLaws
<1>5. Behind(text, pos) = Cat(z, b)
  BY ReadTokensCases DEF ReadInv, TextIsRead, Top
<1> HIDE DEF g, S
<1>6. FrameOver(S, Top) /\ z \in TokenText /\ StackText(g, frames) = Cat(z, WaitingText(g, Top))
  BY <1>1, <1>2, <1>4, StackTop
<1>7. b \in TokenText
  BY <1>4, <1>6, FrameTexts
<1> HIDE DEF z, b
<1>8. WaitingText(g, Top) = Cat(b, Comma)
  <2>1. Cat(b, Comma) \in TokenText
    BY <1>7, MarksAreTexts, CatLaws
  <2>2. Cat(Cat(b, Comma), <<>>) = Cat(b, Comma)
    BY <2>1, CatLaws
  <2>3. CommaText(g, Top) = Cat(b, Comma) /\ KeyText(Top) = <<>>
    BY <1>1, Zenon DEF CommaText, KeyText, b
  <2>4. QED
    BY <2>2, <2>3, Zenon DEF WaitingText
<1>9. QED
  BY <1>1, <1>2, <1>3, <1>5, <1>6, <1>7, <1>8 DEF g, S, z, b

LEMMA SeparateReads ==
  ASSUME Inv, ReadInv, Separate
  PROVE  ReadInv'
<1> DEFINE g == Written(Len(text))
           z == StackText(g, Front(frames))
           b == BodyText(g, Top)
           n == pos + 1
<1>1. /\ pc = "next" /\ text' = text /\ frames' = frames /\ pos' = n
      /\ pc' = IF Top.kind = "array" THEN "value" ELSE "key"
  BY DEF Separate
<1>2. pos \in 1..Len(text) /\ <<text[pos]>> = Comma
  <2>1. At(pos).is = ","
    BY Zenon DEF Separate, Peek
  <2>2. At(pos).is # "end" /\ pos \in {pos, pos + 1}
    BY <2>1, Zenon
  <2>3. pos \in 1..Len(text) /\ text[pos].is = ","
    BY <2>1, <2>2, HereIsAToken, Zenon
  <2>4. text[pos] \in Token /\ "," \in Punctuation
    BY <2>3, ReadingLaws, Zenon DEF Punctuation
  <2>5. QED
    BY <2>3, <2>4, TokenIsMark, Zenon DEF Comma
<1>3. /\ z \in TokenText /\ b \in TokenText
      /\ Behind(text, pos) = Cat(z, b)
      /\ StackText(g, frames) = Cat(z, Cat(b, Comma))
      /\ Top.key = NoKey /\ FrameOver(Inner(pos), Top)
  BY <1>1, ReadUpToItem
<1>4. n \in 1..(Len(text) + 1) /\ pos <= n /\ text \in TokenText
  BY <1>2, ReadingLaws
<1>5. StackOver(Inner(n), frames)
  <2> HIDE DEF n
  <2>1. QED
    BY <1>4, CallsKept DEF ReadInv
<1>6. Behind(text, n) = StackText(g, frames)
  <2>1. Behind(text, n) = Cat(Behind(text, pos), Comma)
    BY <1>2, <1>4, BehindLaws
  <2> HIDE DEF z, b
  <2>2. Cat(z, Cat(b, Comma)) = Cat(Cat(z, b), Comma)
    BY <1>3, MarksAreTexts, CatAssoc
  <2>3. QED
    BY <1>3, <2>1, <2>2
<1>7. Top.kind # "array" => Top.kind = "object"
  BY <1>3 DEF FrameOver, IsFrame
<1> HIDE DEF n, g, z, b
<1>8. FramesHoldValues' /\ ResultIsValue'
  BY <1>1, <1>5 DEF FramesHoldValues, ResultIsValue
<1>9. TopIsReady'
  <2>1. Top' = Top
    BY <1>1 DEF Top
  <2>2. QED
    BY <1>1, <1>3, <1>7, <2>1 DEF TopIsReady
<1>10. TextIsRead'
  <2>1. Behind(text', pos') = StackText(Written(Len(text')), frames')
    BY <1>1, <1>6 DEF g
  <2>2. pc' = "value" \/ pc' = "key"
    BY <1>1
  <2>3. QED
    BY <2>1, <2>2, ReadTokensCases DEF TextIsRead
<1>11. QED
  BY <1>8, <1>9, <1>10 DEF ReadInv

LEMMA ClosedReads ==
  ASSUME NEW N \in Nat, NEW p \in 1..N, NEW f, FrameOver(Inner(p), f), IsDistinct(f)
  PROVE  LET v == IF f.kind = "array" THEN Arr(f.read) ELSE Obj(f.read)
         IN  /\ v \in Value[p]
             /\ Written(N)[v] = Cat(BodyText(Written(N), f),
                                    IF f.kind = "array" THEN ArrayEnd ELSE ObjectEnd)
<1> DEFINE S == Inner(p)
           T == Inner(N)
           g == Written(N)
           v == IF f.kind = "array" THEN Arr(f.read) ELSE Obj(f.read)
<1>1. S \subseteq T /\ p \in Nat
  <2>1. N \in 1..(N + 1) /\ p \in Nat
    OBVIOUS
  <2>2. QED
    BY <2>1, InnerIsSpelled
<1>2. Value[p] = ValueOver(S)
  BY <1>1, ValueRecursion
<1>3. FrameOver(T, f)
  <2> HIDE DEF S, T
  <2>1. FrameOver(S, f)
    BY DEF S
  <2>2. QED
    BY <1>1, <2>1, FrameGrows
<1>4. CASE f.kind = "array"
  <2>1. f.read \in Seq(S) /\ f.read \in Seq(T)
    BY <1>3, <1>4 DEF FrameOver
  <2>2. Arr(f.read) \in Value[p]
    <3> HIDE DEF S
    <3>1. Arr(f.read) \in ValueOver(S)
      BY <2>1, ValueOverCases, Zenon
    <3>2. QED
      BY <1>2, <3>1
  <2>3. g[Arr(f.read)] = Cat(Cat(ArrayBegin, Listed(ArrayTexts(g, f.read))), ArrayEnd)
    BY <2>1, WrittenCases
  <2>4. v = Arr(f.read)
    BY <1>4
  <2>5. BodyText(g, f) = Cat(ArrayBegin, Listed(ArrayTexts(g, f.read)))
    BY <1>4, Zenon DEF BodyText
  <2> HIDE DEF v, g
  <2>6. v \in Value[p] /\ g[v] = Cat(BodyText(g, f), IF f.kind = "array" THEN ArrayEnd ELSE ObjectEnd)
    BY <1>4, <2>2, <2>3, <2>4, <2>5
  <2>7. QED
    BY <2>6 DEF v, g
<1>5. CASE f.kind # "array"
  <2>1. f.kind = "object" /\ f.read \in Seq(MemberOver(S)) /\ f.read \in Seq(MemberOver(T))
    BY <1>3, <1>5 DEF FrameOver, IsFrame
  <2>2. NamedOnce(f.read)
    BY <2>1 DEF NamedOnce, IsDistinct
  <2>3. Obj(f.read) \in Value[p]
    <3> HIDE DEF S
    <3>1. Obj(f.read) \in ValueOver(S)
      BY <2>1, <2>2, ValueOverCases, Zenon
    <3>2. QED
      BY <1>2, <3>1
  <2>4. g[Obj(f.read)] = Cat(Cat(ObjectBegin, Listed(ObjectTexts(g, f.read))), ObjectEnd)
    BY <2>1, <2>2, WrittenCases
  <2>5. v = Obj(f.read)
    BY <1>5
  <2>6. BodyText(g, f) = Cat(ObjectBegin, Listed(ObjectTexts(g, f.read)))
    BY <1>5, Zenon DEF BodyText
  <2> HIDE DEF v, g
  <2>7. v \in Value[p] /\ g[v] = Cat(BodyText(g, f), IF f.kind = "array" THEN ArrayEnd ELSE ObjectEnd)
    BY <1>5, <2>3, <2>4, <2>5, <2>6
  <2>8. QED
    BY <2>7 DEF v, g
<1>6. QED
  BY <1>4, <1>5

LEMMA CloseReads ==
  ASSUME Inv, ReadInv, Close
  PROVE  ReadInv'
<1> DEFINE N == Len(text)
           g == Written(N)
           z == StackText(g, Front(frames))
           b == BodyText(g, Top)
           n == pos + 1
           v == IF Top.kind = "array" THEN Arr(Top.read) ELSE Obj(Top.read)
           End == IF Top.kind = "array" THEN ArrayEnd ELSE ObjectEnd
<1>1. pc = "next" /\ text' = text /\ pos' = n /\ Return(v, Front(frames))
  BY DEF Close
<1>2. pos \in 1..N /\ <<text[pos]>> = End
  <2>1. At(pos).is = Closer(Top.kind) /\ Closer(Top.kind) \in {"]", "}"}
    BY Zenon DEF Close, Peek, Closer
  <2>2. At(pos).is # "end" /\ pos \in {pos, pos + 1}
    BY <2>1, Zenon
  <2>3. pos \in 1..N /\ text[pos].is = Closer(Top.kind)
    BY <2>1, <2>2, HereIsAToken, Zenon
  <2>4. text[pos] \in Token /\ Closer(Top.kind) \in Punctuation
    BY <2>1, <2>3, ReadingLaws, Zenon DEF Punctuation
  <2>5. <<text[pos]>> = Mark(Closer(Top.kind))
    BY <2>3, <2>4, TokenIsMark, Zenon
  <2>6. Mark(Closer(Top.kind)) = End
    BY Zenon DEF Closer, ArrayEnd, ObjectEnd
  <2>7. QED
    BY <2>3, <2>5, <2>6, Zenon
<1>3. /\ z \in TokenText /\ b \in TokenText
      /\ Behind(text, pos) = Cat(z, b)
      /\ IsSeq(frames) /\ frames # <<>> /\ Len(frames) \in Nat
      /\ Top = Last(frames) /\ FrameOver(Inner(pos), Top)
  BY <1>1, ReadUpToItem
<1>4. /\ n \in 1..(N + 1) /\ pos <= n /\ text \in TokenText /\ N \in Nat
      /\ n - 1 = pos /\ n # 0
  BY <1>2, ReadingLaws
<1>5. /\ IsSeq(Front(frames)) /\ Len(Front(frames)) = Len(frames) - 1
      /\ \A i \in 1..Len(Front(frames)) : Front(frames)[i] = frames[i]
      /\ Last(frames) = frames[Len(frames)] /\ Len(frames) > 0
  BY <1>3, FrontLaws, SeqLaws
<1>6. StackOver(Inner(n), Front(frames))
  <2> HIDE DEF n
  <2>1. FramesHoldValues /\ Len(Front(frames)) <= Len(frames)
    BY <1>3, <1>5 DEF ReadInv
  <2>2. QED
    BY <1>4, <1>5, <2>1, CallsGrow
<1>7. \A i \in 1..Len(Front(frames)) : HoldsKey(Front(frames)[i])
  BY <1>3, <1>5 DEF Inv, KeysAreHeld
<1>8. v \in Inner(n) /\ g[v] = Cat(b, End)
  <2>1. IsDistinct(Top)
    BY <1>3, <1>5 DEF Inv, FramesAreCalls
  <2>2. v \in Value[pos] /\ g[v] = Cat(b, End)
    BY <1>2, <1>3, <1>4, <2>1, ClosedReads
  <2>3. QED
    BY <1>4, <2>2 DEF Inner
<1> HIDE DEF n
<1>9. Behind(text, n) = Cat(z, g[v])
  <2>1. Behind(text, n) = Cat(Behind(text, pos), End)
    BY <1>2, <1>4, BehindLaws DEF n
  <2>2. End \in TokenText
    BY MarksAreTexts
  <2> HIDE DEF z, b, End, v, g
  <2>3. Cat(z, Cat(b, End)) = Cat(Cat(z, b), End)
    BY <1>3, <2>2, CatAssoc
  <2>4. QED
    BY <1>3, <1>8, <2>1, <2>3
<1> HIDE DEF v
<1>10. QED
  BY <1>1, <1>4, <1>6, <1>7, <1>8, <1>9, ReturnReads

LEMMA VerdictReads ==
  ASSUME Inv, ReadInv, Accept \/ Refuse
  PROVE  ReadInv'
<1>1. UNCHANGED <<text, pos, frames, result>>
  BY Zenon DEF Accept, Refuse
<1>2. pc' = "refused" \/ (pc = "end" /\ pc' = "accepted" /\ pos = Len(text) + 1)
  BY Zenon DEF Accept, Refuse, Complete
<1>3. FramesHoldValues' /\ TopIsReady' /\ ResultIsValue'
  BY <1>1, <1>2 DEF ReadInv, FramesHoldValues, TopIsReady, ResultIsValue
<1>4. TextIsRead'
  <2>1. CASE pc' = "refused"
    BY <2>1 DEF TextIsRead
  <2>2. CASE pc = "end" /\ pc' = "accepted"
    BY <1>1, <2>2, ReadTokensCases DEF ReadInv, TextIsRead
  <2>3. QED
    BY <1>2, <2>1, <2>2
<1>5. QED
  BY <1>3, <1>4 DEF ReadInv

-----------------------------------------------------------------------------
(***************************************************************************)
(* The invariant of reading says what the run checks.                      *)
(***************************************************************************)
LEMMA SpellingIsWritten ==
  ASSUME Len(text) \in Nat
  PROVE  /\ \A v : Spelling(v) = Written(Len(text))[v]
         /\ \A v \in Value[Len(text)] :
              json_write(v) = Written(Len(text))[Sorted(Len(text))[v]]
<1>1. \A v : Spelling(v) = Written(Len(text))[v]
  BY WriteIntoRecursion DEF Spelling
<1>2. ASSUME NEW v \in Value[Len(text)]
      PROVE  json_write(v) = Written(Len(text))[Sorted(Len(text))[v]]
  <2>1. canonical_sort(Len(text), v) = Sorted(Len(text))[v]
    BY SortRecursion
  <2>2. json_write(v) = Spelling(canonical_sort(Len(text), v))
    BY Zenon DEF json_write
  <2>3. QED
    BY <1>1, <2>1, <2>2, Zenon
<1>3. QED
  BY <1>1, <1>2

\* The comma behind what the i-th call has read, if it is there already.
CommaOf(i) ==
  IF frames[i].read # <<>> /\ (i < Len(frames) \/ pc # "next") THEN Comma ELSE <<>>

LEMMA OpenTextIs ==
  ASSUME Len(text) \in Nat, NEW i
  PROVE  OpenText(i) = Cat(Cat(BodyText(Written(Len(text)), frames[i]), CommaOf(i)),
                           KeyText(frames[i]))
<1> DEFINE g == Written(Len(text))
           f == frames[i]
           A(j) == Spelling(f.read[j])
           B(j) == Named(f.read[j].key, Spelling(f.read[j].value))
<1>1. \A v : Spelling(v) = g[v]
  BY SpellingIsWritten
<1>2. [j \in DOMAIN f.read |-> Spelling(f.read[j])] = ArrayTexts(g, f.read)
  BY <1>1, Zenon DEF ArrayTexts
<1>3. [j \in DOMAIN f.read |-> Named(f.read[j].key, Spelling(f.read[j].value))]
        = ObjectTexts(g, f.read)
  BY <1>1, Zenon DEF ObjectTexts
<1>4. OpenText(i) =
        (IF f.kind = "array"
         THEN Mark("[") \o Listed([j \in DOMAIN f.read |-> Spelling(f.read[j])])
         ELSE Mark("{") \o Listed([j \in DOMAIN f.read |->
                                     Named(f.read[j].key, Spelling(f.read[j].value))]))
          \o (IF f.read # <<>> /\ (i < Len(frames) \/ pc # "next") THEN Mark(",") ELSE <<>>)
          \o (IF f.key = NoKey THEN <<>> ELSE Named(f.key.text, <<>>))
  BY Zenon DEF OpenText
<1> HIDE DEF g
<1>5. OpenText(i) =
        (IF f.kind = "array" THEN ArrayBegin \o Listed(ArrayTexts(g, f.read))
         ELSE ObjectBegin \o Listed(ObjectTexts(g, f.read)))
          \o CommaOf(i) \o KeyText(f)
  BY <1>2, <1>3, <1>4, Zenon DEF CommaOf, KeyText, ArrayBegin, ObjectBegin, Comma
<1>6. QED
  BY <1>5, Zenon DEF BodyText, Cat, g

LEMMA TextOfStack ==
  ASSUME Inv, ReadInv, pc \in {"value", "key", "next"}
  PROVE  Behind(text, pos) = FlattenSeq([i \in DOMAIN frames |-> OpenText(i)])
<1> DEFINE g == Written(Len(text))
           S == Inner(pos)
           O == [i \in DOMAIN frames |-> OpenText(i)]
           W(s) == [i \in DOMAIN s |-> WaitingText(g, s[i])]
<1>1. Len(text) \in Nat /\ Spells(g, S)
  BY ReadingLaws
<1>2. StackOver(S, frames) /\ IsSeq(frames)
  BY DEF ReadInv, FramesHoldValues, StackOver
<1>3. Len(frames) \in Nat /\ DOMAIN frames = 1..Len(frames)
      /\ \A i \in 1..Len(frames) : FrameOver(S, frames[i])
  BY <1>2, SeqLaws DEF StackOver
<1>4. ASSUME NEW i \in 1..Len(frames), i < Len(frames) \/ pc # "next"
      PROVE  OpenText(i) = WaitingText(g, frames[i])
  <2>1. CommaOf(i) = IF frames[i].read = <<>> THEN <<>> ELSE Comma
    BY <1>4, Zenon DEF CommaOf
  <2>2. OpenText(i) = Cat(Cat(BodyText(g, frames[i]), CommaOf(i)), KeyText(frames[i]))
    BY <1>1, OpenTextIs
  <2>3. QED
    BY <2>1, <2>2, Zenon DEF WaitingText, CommaText
<1> HIDE DEF g, S
<1>5. CASE pc # "next"
  <2>1. \A i \in DOMAIN frames : OpenText(i) = WaitingText(g, frames[i])
    BY <1>3, <1>4, <1>5
  <2>2. O = W(frames)
    BY <2>1, Zenon
  <2>3. StackText(g, frames) = FlattenSeq(W(frames))
    BY Zenon DEF StackText
  <2>4. Behind(text, pos) = StackText(g, frames)
    BY <1>5, ReadSoFar DEF g
  <2>5. QED
    BY <2>2, <2>3, <2>4, Zenon
<1>6. CASE pc = "next"
  <2> DEFINE front == Front(frames)
             n == Len(frames)
  <2>1. /\ frames # <<>> /\ Top = Last(frames) /\ Top.key = NoKey
        /\ BodyText(g, Top) \in TokenText
        /\ StackText(g, front) \in TokenText
        /\ Behind(text, pos) = Cat(StackText(g, front), BodyText(g, Top))
    BY <1>6, ReadUpToItem DEF g
  <2>2. /\ n > 0 /\ IsSeq(front) /\ Len(front) = n - 1
        /\ \A i \in 1..(n - 1) : front[i] = frames[i]
        /\ Top = frames[n]
    BY <1>2, <2>1, SeqLaws, FrontLaws
  <2>3. DOMAIN front = 1..(n - 1)
    BY <2>2, SeqLaws
  <2>4. OpenText(n) = BodyText(g, Top)
    <3>1. CommaOf(n) = <<>> /\ KeyText(Top) = <<>>
      <4>1. ~(n < Len(frames))
        BY <1>3
      <4>2. CommaOf(n) = <<>>
        BY <1>6, <4>1, Zenon DEF CommaOf
      <4>3. KeyText(Top) = <<>>
        BY <2>1, Zenon DEF KeyText
      <4>4. QED
        BY <4>2, <4>3
    <3>2. OpenText(n) = Cat(Cat(BodyText(g, Top), CommaOf(n)), KeyText(Top))
      <4>1. OpenText(n) = Cat(Cat(BodyText(g, frames[n]), CommaOf(n)), KeyText(frames[n]))
        BY <1>1, OpenTextIs DEF g
      <4>2. QED
        BY <2>2, <4>1
    <3>3. Cat(BodyText(g, Top), <<>>) = BodyText(g, Top)
      BY <2>1, CatLaws
    <3>4. QED
      BY <3>1, <3>2, <3>3
  <2> HIDE DEF n, front
  <2>5. /\ O \in Seq(TokenText) /\ Len(O) = n
        /\ \A i \in 1..n : O[i] = OpenText(i)
    <3>1. \A i \in 1..n : OpenText(i) \in TokenText
      <4>1. ASSUME NEW i \in 1..n PROVE OpenText(i) \in TokenText
        <5>1. CASE i = n
          BY <2>1, <2>4, <5>1
        <5>2. CASE i # n
          <6>1. i \in 1..Len(frames) /\ i < Len(frames)
            <7>1. n \in Nat /\ i \in 1..n /\ i # n
              BY <1>3, <5>2 DEF n
            <7>2. i \in 1..n /\ i < n
              BY <7>1
            <7>3. QED
              BY <7>2 DEF n
          <6>2. OpenText(i) = WaitingText(g, frames[i])
            BY <1>4, <6>1
          <6>3. QED
            BY <1>1, <1>3, <6>1, <6>2, FrameTexts
        <5>3. QED
          BY <5>1, <5>2
      <4>2. QED
        BY <4>1
    <3>2. n \in Nat /\ O = [i \in 1..n |-> OpenText(i)]
      BY <1>3 DEF n
    <3>3. QED
      BY <3>1, <3>2
  <2>6. /\ W(front) \in Seq(TokenText) /\ Len(W(front)) = n - 1
        /\ \A i \in 1..(n - 1) : W(front)[i] = WaitingText(g, frames[i])
    <3>1. n - 1 \in Nat /\ \A i \in 1..(n - 1) : i \in 1..Len(frames)
      BY <1>3, <2>2 DEF n
    <3>2. \A i \in 1..(n - 1) : WaitingText(g, frames[i]) \in TokenText
      BY <1>1, <1>3, <3>1, FrameTexts
    <3>3. W(front) = [i \in 1..(n - 1) |-> WaitingText(g, frames[i])]
      BY <2>2, <2>3
    <3>4. QED
      BY <3>1, <3>2, <3>3
  <2>7. StackText(g, front) = FlattenSeq(W(front))
    BY Zenon DEF StackText
  <2>8. \A i \in 1..(n - 1) : O[i] = W(front)[i]
    <3>1. \A i \in 1..(n - 1) : i \in 1..n /\ i \in 1..Len(frames) /\ i < Len(frames)
      BY <1>3 DEF n
    <3>2. QED
      BY <1>4, <2>5, <2>6, <3>1
  <2>9. O[n] = BodyText(g, Top) /\ n = (n - 1) + 1
    <3>1. n \in 1..n /\ n = (n - 1) + 1
      BY <1>3, <2>2 DEF n
    <3>2. QED
      BY <2>4, <2>5, <3>1
  <2> HIDE DEF O, W
  <2>10. FlattenSeq(O) = FlattenSeq(W(front)) \o O[n]
    BY <2>5, <2>6, <2>8, <2>9, FlattenLast DEF TokenText
  <2>11. Behind(text, pos) = FlattenSeq(O)
    BY <2>1, <2>7, <2>9, <2>10, Zenon DEF Cat
  <2>12. QED
    BY <2>11 DEF O
<1>7. QED
  BY <1>5, <1>6

LEMMA StackHoldsText ==
  ASSUME Inv, ReadInv
  PROVE  ReadTextIsOnTheStack
<1>1. SUFFICES ASSUME pc # "refused"
               PROVE  Behind(text, pos) =
                        IF pc \in {"end", "accepted"} THEN Spelling(result)
                        ELSE FlattenSeq([i \in DOMAIN frames |-> OpenText(i)])
  BY Zenon DEF ReadTextIsOnTheStack, Behind
<1>2. CASE pc \in {"end", "accepted"}
  <2>1. Behind(text, pos) = Written(Len(text))[result]
    BY <1>2, ReadTokensCases DEF ReadInv, TextIsRead
  <2>2. Spelling(result) = Written(Len(text))[result]
    BY ReadingLaws, SpellingIsWritten
  <2>3. QED
    BY <1>2, <2>1, <2>2, Zenon
<1>3. CASE pc \notin {"end", "accepted"}
  <2>1. pc \in {"value", "key", "next"}
    BY <1>1, <1>3 DEF Inv, TypeOK
  <2>2. QED
    BY <1>3, <2>1, TextOfStack, Zenon
<1>4. QED
  BY <1>2, <1>3

-----------------------------------------------------------------------------
(***************************************************************************)
(* Reading, writing and reading again.                                     *)
(***************************************************************************)
Starting == text \in TokenText /\ pos = 1 /\ frames = <<>> /\ pc = "value"

LEMMA StartingIsSound == Starting => Inv /\ ReadInv
<1> SUFFICES ASSUME Starting PROVE Inv /\ ReadInv
  OBVIOUS
<1>1. text \in TokenText /\ pos = 1 /\ frames = <<>> /\ pc = "value"
  BY DEF Starting
<1>2. Inv
  <2>1. Len(text) \in Nat /\ Len(frames) = 0 /\ DOMAIN frames = {} /\ IsSeq(frames)
    BY <1>1, EmptyIsSeq, SeqLaws DEF TokenText
  <2>2. \A B : {i \in 1..(1 - 1) : text[i].is \in B} = {}
    OBVIOUS
  <2>3. \A B : Count(text, B, 1) = 0
    BY <2>2, FS_EmptySet DEF Count
  <2>4. DepthIsCount
    BY <1>1, <2>1, <2>3 DEF DepthIsCount, Depth
  <2>5. QED
    BY <1>1, <2>1, <2>4 DEF Inv, TypeOK, FramesAreCalls, KeysAreHeld, TokenText
<1>3. FramesHoldValues /\ TopIsReady /\ ResultIsValue
  BY <1>1, EmptyStack DEF FramesHoldValues, TopIsReady, ResultIsValue
<1>4. TextIsRead
  <2>1. Behind(text, pos) = <<>>
    BY <1>1, BehindEnds
  <2>2. StackText(Written(Len(text)), frames) = <<>>
    BY <1>1, EmptyStack, Zenon
  <2>3. QED
    BY <1>1, <2>1, <2>2, ReadTokensCases, Zenon DEF TextIsRead
<1>5. QED
  BY <1>2, <1>3, <1>4 DEF ReadInv

\* What was saved is a value whose text is being read.
SavedIsText ==
  saved # <<>> =>
    \E n \in Nat : \E v \in Value[n] : saved = <<v>> /\ text = Written(n)[Sorted(n)[v]]

\* The inductive invariant.
DocumentInv == Inv /\ ReadInv /\ SavedIsText

LEMMA DocumentInitially == InitDocument => DocumentInv
<1> SUFFICES ASSUME InitDocument PROVE DocumentInv
  OBVIOUS
<1>1. Init /\ saved = <<>>
  BY DEF InitDocument
<1>2. Starting
  BY <1>1, TextsAssumption DEF Init, Starting, TokenText
<1>3. QED
  BY <1>1, <1>2, StartingIsSound DEF DocumentInv, SavedIsText

LEMMA ReadingKeeps ==
  ASSUME Inv, ReadInv, Next
  PROVE  ReadInv'
<1>1. CASE ParseScalar BY <1>1, ParseScalarReads
<1>2. CASE ParseArray BY <1>2, ParseArrayReads
<1>3. CASE ParseObject BY <1>3, ParseObjectReads
<1>4. CASE ParseKey BY <1>4, ParseKeyReads
<1>5. CASE Separate BY <1>5, SeparateReads
<1>6. CASE Close BY <1>6, CloseReads
<1>7. CASE Accept \/ Refuse BY <1>7, VerdictReads
<1>8. QED
  BY <1>1, <1>2, <1>3, <1>4, <1>5, <1>6, <1>7 DEF Next

\* The value that was read whole.
LEMMA ResultIsRead ==
  ASSUME Inv, ReadInv, pc = "accepted"
  PROVE  result \in Value[Len(text)] /\ text = Written(Len(text))[result]
<1>1. Len(text) \in Nat /\ text \in TokenText
  BY ReadingLaws
<1>2. pos = Len(text) + 1 /\ result \in Inner(pos)
  BY DEF ReadInv, ResultIsValue
<1>3. result \in Value[Len(text)]
  <2>1. pos # 0 /\ pos - 1 = Len(text)
    BY <1>1, <1>2
  <2>2. QED
    BY <1>2, <2>1 DEF Inner
<1>4. Behind(text, pos) = Written(Len(text))[result]
  BY ReadTokensCases DEF ReadInv, TextIsRead
<1>5. Behind(text, pos) = text
  BY <1>1, <1>2, BehindEnds
<1>6. QED
  BY <1>3, <1>4, <1>5

LEMMA RewriteKeeps ==
  ASSUME DocumentInv, Rewrite
  PROVE  DocumentInv'
<1> DEFINE n == Len(text)
<1>1. /\ pc = "accepted" /\ saved' = <<result>> /\ text' = json_write(result)
      /\ pos' = 1 /\ pc' = "value" /\ frames' = frames
  BY DEF Rewrite
<1>2. Inv /\ ReadInv
  BY DEF DocumentInv
<1>3. n \in Nat /\ result \in Value[n]
  BY <1>1, <1>2, ReadingLaws, ResultIsRead
<1>4. text' = Written(n)[Sorted(n)[result]]
  BY <1>1, <1>3, SpellingIsWritten
<1> HIDE DEF n
<1>5. text' \in TokenText
  <2>1. Sorted(n)[result] \in Value[n]
    BY <1>3, SortRecursion
  <2>2. Written(n) \in [Value[n] -> TokenText]
    BY <1>3, WriteIntoRecursion
  <2>3. QED
    BY <1>4, <2>1, <2>2
<1>6. Starting'
  BY <1>1, <1>2, <1>5 DEF Starting, Inv, TypeOK
<1>7. (Inv /\ ReadInv)'
  BY <1>6, StartingIsSound, PTL
<1>8. SavedIsText'
  <2>1. saved' = <<result>> /\ text' = Written(n)[Sorted(n)[result]]
    BY <1>1, <1>4
  <2>2. QED
    BY <1>3, <2>1, Zenon DEF SavedIsText
<1>9. QED
  BY <1>7, <1>8 DEF DocumentInv

LEMMA DocumentKeeps == DocumentInv /\ [NextDocument]_<<vars, saved>> => DocumentInv'
<1> SUFFICES ASSUME DocumentInv, [NextDocument]_<<vars, saved>> PROVE DocumentInv'
  OBVIOUS
<1>1. Inv /\ ReadInv /\ SavedIsText
  BY DEF DocumentInv
<1>2. CASE Read
  <2>1. Next /\ saved' = saved
    BY <1>2 DEF Read
  <2>2. text' = text
    BY <2>1 DEF Next, ParseScalar, ParseArray, ParseObject, ParseKey, Separate, Close, Accept, Refuse
  <2>3. Inv'
    BY <1>1, <2>1, Invariance
  <2>4. ReadInv'
    BY <1>1, <2>1, ReadingKeeps
  <2>5. SavedIsText'
    BY <1>1, <2>1, <2>2, Zenon DEF SavedIsText
  <2>6. QED
    BY <2>3, <2>4, <2>5 DEF DocumentInv
<1>3. CASE Rewrite
  BY <1>3, RewriteKeeps
<1>4. CASE UNCHANGED <<vars, saved>>
  <2>1. UNCHANGED <<text, pos, frames, pc, result, saved>>
    BY <1>4 DEF vars
  <2>2. Inv'
    BY <1>1, <2>1 DEF Inv, TypeOK, FramesAreCalls, KeysAreHeld, DepthIsCount
  <2>3. ReadInv'
    BY <1>1, <2>1, Zenon DEF ReadInv, FramesHoldValues, TopIsReady, ResultIsValue, TextIsRead, Top
  <2>4. SavedIsText'
    BY <1>1, <2>1, Zenon DEF SavedIsText
  <2>5. QED
    BY <2>2, <2>3, <2>4 DEF DocumentInv
<1>5. QED
  BY <1>2, <1>3, <1>4 DEF NextDocument

LEMMA NothingLost == DocumentInv => NothingIsLost
<1> SUFFICES ASSUME DocumentInv PROVE NothingIsLost
  OBVIOUS
<1>1. Inv /\ ReadInv /\ SavedIsText
  BY DEF DocumentInv
<1>2. ReadTextIsOnTheStack
  BY <1>1, StackHoldsText
<1>3. WrittenTextIsReadBack
  <2>1. SUFFICES ASSUME saved # <<>>, pc = "accepted"
                 PROVE  /\ SameUpToOrder(Len(text), result, saved[1])
                        /\ InOrder(Len(text), result)
                        /\ json_write(result) = text
    BY Zenon DEF WrittenTextIsReadBack
  <2> DEFINE m == Len(text)
  <2>2. m \in Nat /\ result \in Value[m] /\ text = Written(m)[result]
    BY <1>1, <2>1, ReadingLaws, ResultIsRead
  <2>3. PICK n \in Nat : \E v \in Value[n] : saved = <<v>> /\ text = Written(n)[Sorted(n)[v]]
    BY <1>1, <2>1, Zenon DEF SavedIsText
  <2>4. PICK v \in Value[n] : saved = <<v>> /\ text = Written(n)[Sorted(n)[v]]
    BY <2>3
  <2>5. saved[1] = v
    BY <2>4
  <2>6. json_write(result) = Written(m)[Sorted(m)[result]]
    BY <2>2, SpellingIsWritten
  <2> HIDE DEF m
  <2>7. /\ SameUpToOrder(m, result, v) /\ InOrder(m, result)
        /\ Written(m)[Sorted(m)[result]] = Written(m)[result]
    <3>1. Written(n)[Sorted(n)[v]] = Written(m)[result]
      BY <2>2, <2>4
    <3>2. QED
      BY <2>2, <3>1, WrittenTextTellsValue
  <2>8. QED
    BY <2>2, <2>5, <2>6, <2>7, Zenon DEF m
<1>4. QED
  BY <1>2, <1>3 DEF NothingIsLost

\* Nothing is lost on the way in or out, for texts of any length: the calls
\* hold what the tokens behind the reader say, and a document that was written
\* is read again as the same one in order, and would be written as the same
\* text (JsonParser, canonical_sort, json_write).
THEOREM NothingIsLostHolds == SpecDocument => []NothingIsLost
<1>1. SpecDocument => []DocumentInv
  BY DocumentInitially, DocumentKeeps, PTL DEF SpecDocument
<1>2. QED
  BY <1>1, NothingLost, PTL
=============================================================================
