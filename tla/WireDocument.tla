---------------------------- MODULE WireDocument -----------------------------
(***************************************************************************)
(* Every object with up to MaxFields string fields, their values growing   *)
(* one character at a time, put to from_canonical_json.                    *)
(***************************************************************************)
EXTENDS RationalWire

CONSTANTS MaxFields,   \* bound on the fields of the object
          MaxLen,      \* bound on the length of a value
          Alphabet     \* the characters tried

ASSUME AlphabetAssumption ==
  MaxFields \in Nat /\ MaxLen \in Nat /\ Alphabet \subseteq Digit \cup {Minus, Other}

VARIABLE document

WireInit == document \in {[fields |-> <<>>, wellFormed |-> b] : b \in BOOLEAN}

Put(fields) == document' = [fields |-> fields, wellFormed |-> document.wellFormed]

AddField(key) ==
  /\ Len(document.fields) < MaxFields
  /\ Put(Append(document.fields, [key |-> key, text |-> <<>>]))

\* The value of an unknown field is never looked at, and nothing is of a text
\* that is not well formed.
Extend(c) ==
  LET last  == Len(document.fields)
      field == document.fields[last]
  IN  /\ last > 0 /\ document.wellFormed
      /\ field.key # "unknown"
      /\ Len(field.text) < MaxLen
      /\ Put([document.fields EXCEPT ![last] = [key |-> field.key, text |-> Append(field.text, c)]])

WireNext == (\E key \in Keys : AddField(key)) \/ (\E c \in Alphabet : Extend(c))

WireSpec == WireInit /\ [][WireNext]_document

-----------------------------------------------------------------------------
\* An object with its members in the order in which they are written.
Swapped(doc) == [fields |-> <<doc.fields[2], doc.fields[1]>>, wellFormed |-> doc.wellFormed]

PrintedForms ==
  LET printed == {to_canonical_json(t) : t \in Canonical}
  IN  printed \cup {Swapped(doc) : doc \in printed}

Numerators   == {Decimal(n) : n \in Int64}
Denominators == {Decimal(d) : d \in 1..kMax}

\* What from_canonical_json accepts is, up to the order of the two members,
\* exactly what to_canonical_json prints of the result: every canonical time
\* survives the round trip, and nothing (leading zero, minus zero, unreduced
\* fraction, value out of range) is normalised or clamped on the way in.
AcceptsExactlyPrintedForms ==
  LET r == from_canonical_json(document)
  IN  IF r.result = "ok"
      THEN /\ r.value \in Canonical
           /\ to_canonical_json(r.value) \in {document, Swapped(document)}
      ELSE document \notin PrintedForms

IsDecimal(sv) ==
  LET digits == IF sv # <<>> /\ sv[1] = Minus THEN Tail(sv) ELSE sv
  IN  /\ digits # <<>>
      /\ \A i \in DOMAIN digits : digits[i] \in Digit
      /\ digits[1] # 0

\* A number that is too large is told apart from a text that is no number:
\* out_of_range means that one of the two does not fit, and the parser throws
\* no overflow_error or domain_error of the constructor behind it.
FailuresAreClassified ==
  LET r == from_canonical_json(document)
  IN  /\ r.result \in {"ok", "invalid_argument", "out_of_range"}
      /\ FieldsComplete(document) =>
           LET num == FieldText(document, "numerator")
               den == FieldText(document, "denominator")
           IN  IsDecimal(num) /\ IsDecimal(den) /\ den[1] # Minus =>
                 (r.result = "out_of_range" <=> num \notin Numerators \/ den \notin Denominators)

\* A document is accepted exactly when it is printed, and a number that is too
\* large is told apart from a text that is no number (to_canonical_json,
\* from_canonical_json).
WireFormIsExact == AcceptsExactlyPrintedForms /\ FailuresAreClassified
=============================================================================
