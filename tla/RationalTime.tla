---------------------------- MODULE RationalTime -----------------------------
(***************************************************************************)
(* The exact rational time of core/score/rational_time.h: a canonical pair *)
(* of signed integers, and arithmetic that goes through two-limb unsigned  *)
(* intermediates so that only a result that does not fit is an overflow.   *)
(*                                                                         *)
(* The width is a parameter: a limb has 2 * HalfBits bits, where the code  *)
(* has HalfBits = 32. Every limb operation wraps, as uint64_t does. An     *)
(* operation returns Ok(<<num, den>>) or the exception it throws.          *)
(***************************************************************************)
EXTENDS Integers, Sequences

CONSTANT HalfBits

ASSUME HalfBitsAssumption == HalfBits \in Nat \ {0}

PowerOfTwo[n \in 0..(4 * HalfBits)] == IF n = 0 THEN 1 ELSE 2 * PowerOfTwo[n - 1]

Half    == PowerOfTwo[HalfBits]  \* base of a half limb
Limb    == Half * Half           \* 2^64 in the code
MaxLimb == Limb - 1
kMinMagnitude == Limb \div 2
kMin    == -kMinMagnitude
kMax    == kMinMagnitude - 1

Int64  == kMin..kMax
UInt64 == 0..MaxLimb

Ok(v)         == [result |-> "ok", value |-> v]
DomainError   == [result |-> "domain_error"]
OverflowError == [result |-> "overflow_error"]

-----------------------------------------------------------------------------
(***************************************************************************)
(* One limb.                                                               *)
(***************************************************************************)
magnitude(v) == IF v < 0 THEN -v ELSE v

\* The loop of gcd_u64, with its state b, a.
Euclid[b \in UInt64] == [a \in UInt64 |-> IF b = 0 THEN a ELSE Euclid[a % b][b]]

gcd_u64(a, b) == Euclid[b][a]

addmod64(a, b, m) ==
  LET s == (a + b) % Limb IN IF s >= m THEN s - m ELSE s

\* The loop has the state y, r, x.
mulmod64(a, b, m) ==
  LET doubling[y \in UInt64] ==
        [r \in UInt64 |-> [x \in UInt64 |->
           IF y = 0 THEN r
           ELSE doubling[y \div 2][IF y % 2 = 1 THEN addmod64(r, x, m) ELSE r][addmod64(x, x, m)]]]
  IN  doubling[b % m][0][a % m]

-----------------------------------------------------------------------------
(***************************************************************************)
(* Two limbs: U128.                                                        *)
(***************************************************************************)
U128(lo, hi) == [lo |-> lo, hi |-> hi]

\* Mutant of mul_u64: the carry out of the middle column is lost.
mul_u64_NoCarry(x, y) ==
  LET ll  == (x % Half) * (y % Half)
      lh  == (x % Half) * (y \div Half)
      hl  == (x \div Half) * (y % Half)
      hh  == (x \div Half) * (y \div Half)
      mid == (lh % Half) + (hl % Half) + (ll \div Half)
  IN  U128(((mid * Half) % Limb) + (ll % Half), hh + (lh \div Half) + (hl \div Half))

mul_u64(x, y) ==
  LET ll  == (x % Half) * (y % Half)
      lh  == (x % Half) * (y \div Half)
      hl  == (x \div Half) * (y % Half)
      hh  == (x \div Half) * (y \div Half)
      mid == (lh % Half) + (hl % Half) + (ll \div Half)
  IN  U128(((mid * Half) % Limb) + (ll % Half),
           (hh + (lh \div Half) + (hl \div Half) + (mid \div Half)) % Limb)

\* Mutant of add_u128: the carry between the limbs is lost.
add_u128_NoCarry(a, b) == U128((a.lo + b.lo) % Limb, (a.hi + b.hi) % Limb)

add_u128(a, b) ==
  LET lo    == (a.lo + b.lo) % Limb
      carry == IF lo < a.lo THEN 1 ELSE 0
  IN  U128(lo, (a.hi + b.hi + carry) % Limb)

sub_u128(a, b) ==
  LET borrow == IF a.lo < b.lo THEN 1 ELSE 0
  IN  U128((a.lo - b.lo) % Limb, (a.hi - b.hi - borrow) % Limb)

ge_u128(a, b) == a.hi > b.hi \/ (a.hi = b.hi /\ a.lo >= b.lo)

mod_u128_u64(x, m) ==
  LET two64_mod == ((MaxLimb % m) + 1) % m
  IN  IF m = 1 THEN 0
      ELSE addmod64(mulmod64(x.hi % m, two64_mod, m), x.lo % m, m)

\* After its first step Euclid's loop stays within one limb.
gcd_u128_u64(x, m) == IF m = 0 THEN x.lo ELSE gcd_u64(m, mod_u128_u64(x, m))

bit_of(x, i) ==
  IF i >= 2 * HalfBits THEN (x.hi \div PowerOfTwo[i - 2 * HalfBits]) % 2
  ELSE (x.lo \div PowerOfTwo[i]) % 2

\* Binary long division, from the highest bit down: after n rounds, q holds the
\* quotient (a pair of limbs) of the n highest bits and r the remainder.
div_u128_u64(x, d) ==
  LET round[n \in 0..(4 * HalfBits)] ==
        IF n = 0 THEN [q |-> U128(0, 0), r |-> 0]
        ELSE LET s   == round[n - 1]
                 r   == ((s.r * 2) % Limb) + bit_of(x, 4 * HalfBits - n)
                 bit == IF r >= d THEN 1 ELSE 0
             IN  [q |-> U128((s.q.lo * 2 + bit) % Limb,
                             ((s.q.hi * 2) + (s.q.lo \div kMinMagnitude)) % Limb),
                  r |-> r - bit * d]
  IN  round[4 * HalfBits].q

-----------------------------------------------------------------------------
(***************************************************************************)
(* Construction.                                                           *)
(***************************************************************************)
make_int(neg, mag) ==
  IF mag > (IF neg THEN kMinMagnitude ELSE kMax) THEN OverflowError
  ELSE Ok(IF neg THEN -mag ELSE mag)

\* A reduced numerator and a reduced positive denominator, each checked.
Assemble(neg, num, den) ==
  IF den > kMax THEN OverflowError
  ELSE LET n == make_int(neg, num)
       IN  IF n.result = "ok" THEN Ok(<<n.value, den>>) ELSE n

\* Mutant of RationalTimeOf: the range is checked before the pair is reduced.
RationalTimeOf_CheckFirst(numerator, denominator) ==
  LET an == magnitude(numerator)
      ad == magnitude(denominator)
      g  == gcd_u64(an, ad)
  IN  IF denominator = 0 THEN DomainError
      ELSE IF ad > kMax THEN OverflowError
      ELSE Assemble((numerator < 0) # (denominator < 0), an \div g, ad \div g)

\* RationalTime(numerator, denominator)
RationalTimeOf(numerator, denominator) ==
  LET an == magnitude(numerator)
      ad == magnitude(denominator)
      g  == gcd_u64(an, ad)
  IN  IF denominator = 0 THEN DomainError
      ELSE Assemble((numerator < 0) # (denominator < 0), an \div g, ad \div g)

is_canonical_form(num, den) == den > 0 /\ gcd_u64(magnitude(num), magnitude(den)) = 1

Canonical == {t \in Int64 \X Int64 : is_canonical_form(t[1], t[2])}

negate(t) == IF t[1] = kMin THEN OverflowError ELSE RationalTimeOf(-t[1], t[2])

reciprocal(t) ==
  CASE t[1] = 0    -> DomainError
    [] t[1] = kMin -> OverflowError
    [] t[1] < 0 /\ t[1] # kMin -> RationalTimeOf(-t[2], -t[1])
    [] t[1] > 0    -> RationalTimeOf(t[2], t[1])

-----------------------------------------------------------------------------
(***************************************************************************)
(* Addition and subtraction: cross products over the reduced denominators, *)
(* then the common factors are cancelled one after the other.              *)
(***************************************************************************)
\* Mutant of finish_add_sub: the factor shared by the denominators stays.
finish_add_sub_KeepG(s_neg, s_mag, g, b1, d1) ==
  LET d123 == mul_u64(mul_u64(g, b1).lo, d1)
  IN  IF s_mag.hi = 0 /\ s_mag.lo = 0 THEN Ok(<<0, 1>>)
      ELSE IF s_mag.hi # 0 \/ d123.hi # 0 THEN OverflowError
      ELSE Assemble(s_neg, s_mag.lo, d123.lo)

finish_add_sub(s_neg, s_mag, g, b1, d1) ==
  LET h1   == gcd_u128_u64(s_mag, g)
      r1   == div_u128_u64(s_mag, h1)
      h2   == gcd_u128_u64(r1, b1)
      r2   == div_u128_u64(r1, h2)
      h3   == gcd_u128_u64(r2, d1)
      r3   == div_u128_u64(r2, h3)
      d12  == mul_u64(g \div h1, b1 \div h2)
      d123 == mul_u64(d12.lo, d1 \div h3)
  IN  IF s_mag.hi = 0 /\ s_mag.lo = 0 THEN Ok(<<0, 1>>)
      ELSE IF r3.hi # 0 \/ d123.hi # 0 THEN OverflowError
      ELSE Assemble(s_neg, r3.lo, d123.lo)

\* The signed sum of two signed magnitudes.
SignedSum(np, p, nq, q) ==
  CASE np = nq -> [neg |-> np, mag |-> add_u128(p, q)]
    [] np # nq /\ ge_u128(p, q)  -> [neg |-> np, mag |-> sub_u128(p, q)]
    [] np # nq /\ ~ge_u128(p, q) -> [neg |-> nq, mag |-> sub_u128(q, p)]

\* add_pair and sub_pair differ in the sign their second operand counts with.
AddSubPair(t, u, flip) ==
  LET g  == gcd_u64(magnitude(t[2]), magnitude(u[2]))
      b1 == magnitude(t[2]) \div g
      d1 == magnitude(u[2]) \div g
      s  == SignedSum(t[1] < 0, mul_u64(magnitude(t[1]), d1),
                      (u[1] < 0) # flip, mul_u64(magnitude(u[1]), b1))
  IN  finish_add_sub(s.neg, s.mag, g, b1, d1)

add_pair(t, u) == AddSubPair(t, u, FALSE)
sub_pair(t, u) == AddSubPair(t, u, TRUE)

-----------------------------------------------------------------------------
(***************************************************************************)
(* Multiplication and division, by cross-cancellation.                     *)
(***************************************************************************)
FinishProduct(neg, num, den) ==
  IF num.hi # 0 \/ den.hi # 0 THEN OverflowError ELSE Assemble(neg, num.lo, den.lo)

mul_pair(t, u) ==
  LET g1 == gcd_u64(magnitude(t[1]), magnitude(u[2]))
      g2 == gcd_u64(magnitude(u[1]), magnitude(t[2]))
  IN  FinishProduct((t[1] < 0) # (u[1] < 0),
        mul_u64(magnitude(t[1]) \div g1, magnitude(u[1]) \div g2),
        mul_u64(magnitude(t[2]) \div g2, magnitude(u[2]) \div g1))

div_pair(t, u) ==
  LET g1 == gcd_u64(magnitude(t[1]), magnitude(u[1]))
      g2 == gcd_u64(magnitude(t[2]), magnitude(u[2]))
  IN  IF u[1] = 0 THEN DomainError
      ELSE FinishProduct((t[1] < 0) # (u[1] < 0),
             mul_u64(magnitude(t[1]) \div g1, magnitude(u[2]) \div g2),
             mul_u64(magnitude(t[2]) \div g2, magnitude(u[1]) \div g1))

-----------------------------------------------------------------------------
(***************************************************************************)
(* Comparison: -1, 0 or 1, by comparing quotients and then the reciprocals *)
(* of the remainders.                                                      *)
(***************************************************************************)
Sign(n) == IF n < 0 THEN -1 ELSE IF n > 0 THEN 1 ELSE 0

\* Its arguments B, A, C, D; B and D are not zero.
Comparison[B \in 1..MaxLimb] ==
  [A \in UInt64 |-> [C \in UInt64 |-> [D \in 1..MaxLimb |->
    LET q1 == A \div B  r1 == A % B
        q2 == C \div D  r2 == C % D
    IN  IF A = C /\ B = D THEN 0
        ELSE IF q1 # q2 THEN Sign(q1 - q2)
        ELSE IF r1 = 0 \/ r2 = 0 THEN Sign(r1 - r2)
        ELSE -Comparison[r1][B][D][r2]]]]

cmp_nonneg(A, B, C, D) == Comparison[B][A][C][D]

\* Mutant of cmp_frac: two negative values are compared by magnitude.
cmp_frac_ByMagnitude(t, u) ==
  IF (t[1] < 0) # (u[1] < 0) THEN (IF t[1] < 0 THEN -1 ELSE 1)
  ELSE cmp_nonneg(magnitude(t[1]), t[2], magnitude(u[1]), u[2])

cmp_frac(t, u) ==
  IF (t[1] < 0) # (u[1] < 0) THEN (IF t[1] < 0 THEN -1 ELSE 1)
  ELSE IF t[1] >= 0 THEN cmp_nonneg(t[1], t[2], u[1], u[2])
  ELSE -cmp_nonneg(magnitude(t[1]), t[2], magnitude(u[1]), u[2])
=============================================================================
