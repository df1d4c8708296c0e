---------------------------- MODULE RationalWire -----------------------------
(***************************************************************************)
(* The canonical JSON form of RationalTime (core/score/rational_time.cpp): *)
(* {"numerator":"<int>","denominator":"<int>"}.                            *)
(*                                                                         *)
(* A document is the list of the string fields of one object, in order;    *)
(* wellFormed is FALSE for a text that is no such object. A value is a     *)
(* sequence of characters: 0..9 are the digits, Minus and Other the rest.  *)
(***************************************************************************)
EXTENDS RationalTime

\* With fewer than three half-limb bits the range has no two-digit number,
\* and the overflow test of the digit loop would itself wrap.
ASSUME WireWidthAssumption == HalfBits >= 3

Digit == 0..9
Minus == 10
Other == 11

Keys == {"numerator", "denominator", "unknown"}
Document == [fields : Seq([key : Keys, text : Seq(0..11)]), wellFormed : BOOLEAN]

InvalidArgument == [result |-> "invalid_argument"]
OutOfRange      == [result |-> "out_of_range"]

-----------------------------------------------------------------------------
\* std::to_string
Decimal(n) ==
  LET digits[m \in 0..magnitude(n)] ==
        IF m < 10 THEN <<m>> ELSE Append(digits[m \div 10], m % 10)
  IN  (IF n < 0 THEN <<Minus>> ELSE <<>>) \o digits[magnitude(n)]

to_canonical_json(t) ==
  [fields |-> << [key |-> "numerator",   text |-> Decimal(t[1])],
                 [key |-> "denominator", text |-> Decimal(t[2])] >>,
   wellFormed |-> TRUE]

-----------------------------------------------------------------------------
(***************************************************************************)
(* parse_wire_magnitude. The digit loop leaves at its first character that *)
(* is no digit or that takes the magnitude past the limit.                 *)
(***************************************************************************)
DigitLoop(digits, limit) ==
  LET mag[i \in 0..Len(digits)] ==
        IF i = 0 THEN Ok(0)
        ELSE IF mag[i - 1].result # "ok" THEN mag[i - 1]
        ELSE IF digits[i] \notin Digit THEN InvalidArgument
        ELSE IF mag[i - 1].value > (limit - digits[i]) \div 10 THEN OutOfRange
        ELSE Ok(mag[i - 1].value * 10 + digits[i])
  IN  mag[Len(digits)]

\* Mutant of parse_wire_magnitude: one limit for both signs.
parse_wire_magnitude_OneLimit(sv, is_denominator) ==
  LET negative == sv # <<>> /\ sv[1] = Minus
      digits   == IF negative THEN Tail(sv) ELSE sv
  IN  IF digits = <<>> \/ (is_denominator /\ negative) THEN InvalidArgument
      ELSE IF digits[1] = 0
           THEN IF Len(digits) # 1 \/ negative THEN InvalidArgument ELSE Ok(0)
      ELSE DigitLoop(digits, kMax)

parse_wire_magnitude(sv, is_denominator) ==
  LET negative == sv # <<>> /\ sv[1] = Minus
      digits   == IF negative THEN Tail(sv) ELSE sv
  IN  IF digits = <<>> \/ (is_denominator /\ negative) THEN InvalidArgument
      ELSE IF digits[1] = 0
           THEN IF Len(digits) # 1 \/ negative THEN InvalidArgument ELSE Ok(0)
      ELSE DigitLoop(digits, IF negative THEN kMinMagnitude ELSE kMax)

\* The two fields, in either order, each exactly once.
FieldsComplete(doc) ==
  /\ doc.wellFormed
  /\ Len(doc.fields) = 2
  /\ {doc.fields[i].key : i \in 1..2} = {"numerator", "denominator"}

FieldText(doc, key) == doc.fields[CHOOSE i \in 1..2 : doc.fields[i].key = key].text

\* Mutant of from_canonical_json: the fraction is reduced instead of refused.
from_canonical_json_Normalizing(doc) ==
  LET num_str == FieldText(doc, "numerator")
      num == parse_wire_magnitude(num_str, FALSE)
      den == parse_wire_magnitude(FieldText(doc, "denominator"), TRUE)
  IN  IF ~FieldsComplete(doc) THEN InvalidArgument
      ELSE IF num.result # "ok" THEN num
      ELSE IF den.result # "ok" THEN den
      ELSE IF den.value = 0 THEN InvalidArgument
      ELSE RationalTimeOf(IF num_str[1] = Minus THEN -num.value ELSE num.value, den.value)

from_canonical_json(doc) ==
  LET num_str == FieldText(doc, "numerator")
      num == parse_wire_magnitude(num_str, FALSE)
      den == parse_wire_magnitude(FieldText(doc, "denominator"), TRUE)
      signed == IF num_str[1] = Minus THEN -num.value ELSE num.value
  IN  IF ~FieldsComplete(doc) THEN InvalidArgument
      ELSE IF num.result # "ok" THEN num
      ELSE IF den.result # "ok" THEN den
      ELSE IF ~is_canonical_form(signed, den.value) THEN InvalidArgument
      ELSE RationalTimeOf(signed, den.value)
=============================================================================
