------------------------------ MODULE JsonText -------------------------------
(***************************************************************************)
(* The characters of JSON texts, as the project's readers and writers treat *)
(* them: string literals with their escapes, UTF-8, and number tokens. The *)
(* same routines are in core/score/schema_foundation.cpp, in               *)
(* core/score/scoreir.cpp and, for strings, in                             *)
(* core/score/entity_revision.cpp.                                         *)
(*                                                                         *)
(* A text is a sequence of bytes. A routine that reads from a position     *)
(* returns what it read and the position after it, or Failure: every way   *)
(* of failing throws the same error.                                       *)
(***************************************************************************)
EXTENDS Integers, Sequences

Byte == 0..255

Quote == 34
Backslash == 92
LetterU == 117
Digit == 48..57

Failure == [ok |-> FALSE]
Taken(value, end) == [ok |-> TRUE, value |-> value, end |-> end]

-----------------------------------------------------------------------------
(***************************************************************************)
(* Escapes.                                                                *)
(***************************************************************************)
\* The two-character escapes: what follows the backslash, and what it means.
SimpleEscape ==
  [c \in {34, 92, 47, 98, 102, 110, 114, 116} |->
     CASE c = 98 -> 8 [] c = 102 -> 12 [] c = 110 -> 10 [] c = 114 -> 13
       [] c = 116 -> 9 [] OTHER -> c]

HexValue(c) ==
  CASE c \in Digit   -> c - 48
    [] c \in 97..102 -> c - 87
    [] c \in 65..70  -> c - 55
    [] OTHER         -> -1

HighSurrogate == 55296..56319     \* 0xD800..0xDBFF
LowSurrogate  == 56320..57343     \* 0xDC00..0xDFFF

\* Mutant of Utf8: the three-byte form starts one code point late.
Utf8_LateThreeBytes(cp) ==
  IF cp < 128 THEN <<cp>>
  ELSE IF cp <= 2048 THEN <<192 + cp \div 64, 128 + (cp % 64)>>
  ELSE IF cp < 65536
       THEN <<224 + cp \div 4096, 128 + ((cp \div 64) % 64), 128 + (cp % 64)>>
       ELSE <<240 + cp \div 262144, 128 + ((cp \div 4096) % 64),
              128 + ((cp \div 64) % 64), 128 + (cp % 64)>>

Utf8(cp) ==
  IF cp < 128 THEN <<cp>>
  ELSE IF cp < 2048 THEN <<192 + cp \div 64, 128 + (cp % 64)>>
  ELSE IF cp < 65536
       THEN <<224 + cp \div 4096, 128 + ((cp \div 64) % 64), 128 + (cp % 64)>>
       ELSE <<240 + cp \div 262144, 128 + ((cp \div 4096) % 64),
              128 + ((cp \div 64) % 64), 128 + (cp % 64)>>

\* The code unit of the four hex digits that start at p.
CodeUnit(t, p) ==
  IF p + 3 > Len(t) \/ \E k \in 0..3 : HexValue(t[p + k]) < 0 THEN Failure
  ELSE Taken(4096 * HexValue(t[p]) + 256 * HexValue(t[p + 1])
              + 16 * HexValue(t[p + 2]) + HexValue(t[p + 3]), p + 4)

\* \uXXXX, with p at the u: one code unit, or a surrogate pair.
UnicodeEscape(t, p) ==
  LET first  == CodeUnit(t, p + 1)
      second == CodeUnit(t, p + 7)
      paired == /\ p + 6 <= Len(t) /\ t[p + 5] = Backslash /\ t[p + 6] = LetterU
                /\ second.ok /\ second.value \in LowSurrogate
  IN  IF ~first.ok \/ first.value \in LowSurrogate THEN Failure
      ELSE IF first.value \notin HighSurrogate THEN Taken(Utf8(first.value), p + 5)
      ELSE IF paired
           THEN Taken(Utf8(65536 + (first.value - 55296) * 1024 + (second.value - 56320)), p + 11)
           ELSE Failure

\* An escape, with p at the character after the backslash.
ReadEscape(t, p) ==
  IF p > Len(t) THEN Failure
  ELSE IF t[p] \in DOMAIN SimpleEscape THEN Taken(<<SimpleEscape[t[p]]>>, p + 1)
  ELSE IF t[p] = LetterU THEN UnicodeEscape(t, p)
  ELSE Failure

-----------------------------------------------------------------------------
(***************************************************************************)
(* String literals.                                                        *)
(***************************************************************************)
\* One character or escape of a string, with p at its first byte.
ReadPiece(t, p) ==
  IF t[p] = Backslash THEN ReadEscape(t, p + 1)
  ELSE IF t[p] < 32 THEN Failure
  ELSE Taken(<<t[p]>>, p + 1)

\* Reads the literal whose opening quote is at p.
ReadString(t, p) ==
  LET rest[q \in 1..(Len(t) + 1)] ==
        LET piece == ReadPiece(t, q)
            after == rest[piece.end]
        IN  IF q > Len(t) THEN Failure
            ELSE IF t[q] = Quote THEN Taken(<<>>, q + 1)
            ELSE IF piece.ok /\ after.ok THEN Taken(piece.value \o after.value, after.end)
            ELSE Failure
  IN  rest[p + 1]

HexDigit(n) == IF n < 10 THEN 48 + n ELSE 87 + n

\* Mutant of EscapedByte: the backslash is not escaped.
EscapedByte_NoBackslash(b) ==
  LET short == {c \in DOMAIN SimpleEscape \ {47, Backslash} : SimpleEscape[c] = b}
  IN  IF short # {} THEN <<Backslash, CHOOSE c \in short : TRUE>>
      ELSE IF b < 32 THEN <<Backslash, LetterU, 48, 48, HexDigit(b \div 16), HexDigit(b % 16)>>
      ELSE <<b>>

EscapedByte(b) ==
  LET short == {c \in DOMAIN SimpleEscape \ {47} : SimpleEscape[c] = b}
  IN  IF short # {} THEN <<Backslash, CHOOSE c \in short : TRUE>>
      ELSE IF b < 32 THEN <<Backslash, LetterU, 48, 48, HexDigit(b \div 16), HexDigit(b % 16)>>
      ELSE <<b>>

WriteString(s) ==
  LET escaped[i \in 0..Len(s)] ==
        IF i = 0 THEN <<Quote>> ELSE escaped[i - 1] \o EscapedByte(s[i])
  IN  Append(escaped[Len(s)], Quote)

-----------------------------------------------------------------------------
(***************************************************************************)
(* Number tokens. The raw text is kept.                                    *)
(***************************************************************************)
Minus == 45
Plus  == 43
Point == 46
Zero  == 48
Exponent == {69, 101}

\* The position after the digits that start at p.
AfterDigits(t, p) ==
  LET after[q \in p..(Len(t) + 1)] ==
        IF q <= Len(t) /\ t[q] \in Digit THEN after[q + 1] ELSE q
  IN  IF p > Len(t) THEN p ELSE after[p]

Has(t, p, chars) == p <= Len(t) /\ t[p] \in chars

\* Mutant of ReadNumber: a leading zero is not looked for behind the sign.
ReadNumber_SignedZero(t, p) ==
  LET int   == IF Has(t, p, {Minus}) THEN p + 1 ELSE p
      point == AfterDigits(t, int)
      exp   == IF Has(t, point, {Point}) THEN AfterDigits(t, point + 1) ELSE point
      sign  == IF Has(t, exp + 1, {Plus, Minus}) THEN exp + 2 ELSE exp + 1
      end   == IF Has(t, exp, Exponent) THEN AfterDigits(t, sign) ELSE exp
  IN  IF \/ point = int
         \/ point - p > 1 /\ t[p] = Zero
         \/ Has(t, point, {Point}) /\ exp = point + 1
         \/ Has(t, exp, Exponent) /\ end = sign
      THEN Failure
      ELSE Taken(SubSeq(t, p, end - 1), end)

ReadNumber(t, p) ==
  LET int   == IF Has(t, p, {Minus}) THEN p + 1 ELSE p
      point == AfterDigits(t, int)
      exp   == IF Has(t, point, {Point}) THEN AfterDigits(t, point + 1) ELSE point
      sign  == IF Has(t, exp + 1, {Plus, Minus}) THEN exp + 2 ELSE exp + 1
      end   == IF Has(t, exp, Exponent) THEN AfterDigits(t, sign) ELSE exp
  IN  IF \/ point = int                                   \* no digit
         \/ point - int > 1 /\ t[int] = Zero              \* leading zero
         \/ Has(t, point, {Point}) /\ exp = point + 1     \* no fraction digit
         \/ Has(t, exp, Exponent) /\ end = sign           \* no exponent digit
      THEN Failure
      ELSE Taken(SubSeq(t, p, end - 1), end)
=============================================================================
