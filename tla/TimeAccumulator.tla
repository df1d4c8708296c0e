--------------------------- MODULE TimeAccumulator ---------------------------
(***************************************************************************)
(* A RationalTime that is constructed and then updated by the compound     *)
(* operators. A constructor that throws leaves no object, an operation     *)
(* that throws leaves it as it was: the pair is computed before the        *)
(* members are assigned.                                                   *)
(***************************************************************************)
EXTENDS RationalTime

CONSTANT Operands       \* the right-hand sides, canonical times

ASSUME OperandsAssumption == Operands \subseteq Canonical

Unset == <<>>           \* not constructed yet

VARIABLES time,         \* Unset, or <<num_, den_>>
          thrown        \* the last exception, or "none"

accumulator == <<time, thrown>>

TimeInit == time = Unset /\ thrown = "none"

Outcome(r) ==
  IF r.result = "ok" THEN time' = r.value /\ thrown' = "none"
  ELSE time' = time /\ thrown' = r.result

Construct(n, d) == time = Unset /\ Outcome(RationalTimeOf(n, d))

Update(r)   == time # Unset /\ Outcome(r)
Add(u)      == Update(add_pair(time, u))
Subtract(u) == Update(sub_pair(time, u))
Multiply(u) == Update(mul_pair(time, u))
Divide(u)   == Update(div_pair(time, u))
Negate      == Update(negate(time))
Invert      == Update(reciprocal(time))

TimeNext ==
  \/ \E n, d \in Int64 : Construct(n, d)
  \/ \E u \in Operands : Add(u) \/ Subtract(u) \/ Multiply(u) \/ Divide(u)
  \/ Negate
  \/ Invert

TimeSpec == TimeInit /\ [][TimeNext]_accumulator

-----------------------------------------------------------------------------
(***************************************************************************)
(* Reference: fractions of unbounded integers <<n, d>> with d > 0. One is  *)
(* representable if some pair of a signed integer and a positive one that  *)
(* both fit equals it.                                                     *)
(***************************************************************************)
Representable(f) ==
  \E d \in 1..kMax : (f[1] * d) % f[2] = 0 /\ (f[1] * d) \div f[2] \in Int64

\* v is the fraction f in lowest terms.
InLowestTerms(v, f) ==
  /\ v \in Int64 \X (1..kMax)
  /\ v[1] * f[2] = f[1] * v[2]
  /\ \A k \in 2..v[2] : ~(v[1] % k = 0 /\ v[2] % k = 0)

\* The result is exact, and an overflow is thrown only when it must be.
Exact(r, f) ==
  IF Representable(f) THEN r.result = "ok" /\ InLowestTerms(r.value, f)
  ELSE r = OverflowError

Sum(t, u)     == <<t[1] * u[2] + u[1] * t[2], t[2] * u[2]>>
Opposite(t)   == <<-t[1], t[2]>>
Product(t, u) == <<t[1] * u[1], t[2] * u[2]>>
Reciprocal(t) == <<t[2] * Sign(t[1]), magnitude(t[1])>>

-----------------------------------------------------------------------------
\* The class invariant of RationalTime, whatever sequence of operations led
\* here: positive denominator, lowest terms, zero as 0/1.
TimeTypeOK ==
  /\ time # Unset => time \in Int64 \X Int64 /\ InLowestTerms(time, time)
  /\ thrown \in {"none", "domain_error", "overflow_error"}

\* The constructor reduces before it checks: it throws overflow_error only for
\* a value that has no representation, domain_error only for a denominator of
\* zero, also for kMin on either side of the fraction bar.
ConstructionIsExact ==
  \A d \in Int64 :
    LET r == RationalTimeOf(time[1], d)
    IN  IF d = 0 THEN r = DomainError ELSE Exact(r, <<time[1] * Sign(d), magnitude(d)>>)

\* Sums, differences and opposites are exact. "An unreduced lcm or numerator
\* that exceeds int64 is never an obstacle" (finish_add_sub): an overflow means
\* that the reduced result itself does not fit.
SumsAreExact ==
  /\ Exact(negate(time), Opposite(time))
  /\ \A u \in Operands :
       /\ Exact(add_pair(time, u), Sum(time, u))
       /\ Exact(sub_pair(time, u), Sum(time, Opposite(u)))

\* The same for products, quotients and reciprocals, with domain_error exactly
\* for a division by zero.
ProductsAreExact ==
  /\ IF time[1] = 0 THEN reciprocal(time) = DomainError
     ELSE Exact(reciprocal(time), Reciprocal(time))
  /\ \A u \in Operands :
       /\ Exact(mul_pair(time, u), Product(time, u))
       /\ IF u[1] = 0 THEN div_pair(time, u) = DomainError
          ELSE Exact(div_pair(time, u), Product(time, Reciprocal(u)))

\* Construction, sums and products are exact or refused, and refused only when
\* the reduced result does not fit (RationalTime::RationalTime, add_pair,
\* sub_pair, negate, mul_pair, div_pair, reciprocal).
ArithmeticIsExact ==
  time # Unset => ConstructionIsExact /\ SumsAreExact /\ ProductsAreExact

\* operator<=> is the order of the rationals, also where a cross product would
\* not fit (cmp_frac never multiplies), and equal only for equal pairs, as
\* operator== is.
ComparisonIsExact ==
  time # Unset =>
    \A u \in Operands :
      /\ cmp_frac(time, u) = Sign(time[1] * u[2] - u[1] * time[2])
      /\ cmp_frac(time, u) = 0 <=> time = u
=============================================================================
