--------------------------- MODULE JsonCharacters ----------------------------
(***************************************************************************)
(* Every text over the bytes that matter to strings, every text over those *)
(* that matter to numbers, one byte at a time, and every list of up to two *)
(* UTF-16 code units, put to the routines of JsonText.                     *)
(***************************************************************************)
EXTENDS JsonText

CONSTANTS StringBytes, MaxString,    \* bytes of strings, and how many
          NumberBytes, MaxNumber,    \* bytes of numbers, and how many
          Units                      \* the code units tried

ASSUME CharactersAssumption ==
  /\ StringBytes \subseteq Byte /\ NumberBytes \subseteq Byte
  /\ \A u \in Units : u \in Nat /\ u < 65536

VARIABLES characters, units

CharactersInit == characters = <<>> /\ units = <<>>

Over(bytes) == \A i \in 1..Len(characters) : characters[i] \in bytes

\* One of the two grows, so that the two sets of inputs are not multiplied.
CharactersNext ==
  \/ /\ units = <<>>
     /\ \/ Over(StringBytes) /\ Len(characters) < MaxString
           /\ \E c \in StringBytes : characters' = Append(characters, c)
        \/ Over(NumberBytes) /\ Len(characters) < MaxNumber
           /\ \E c \in NumberBytes : characters' = Append(characters, c)
     /\ UNCHANGED units
  \/ /\ characters = <<>> /\ Len(units) < 2
     /\ \E u \in Units : units' = Append(units, u)
     /\ UNCHANGED characters

CharactersSpec == CharactersInit /\ [][CharactersNext]_<<characters, units>>

-----------------------------------------------------------------------------
(***************************************************************************)
(* Reference definitions: the number grammar of RFC 8259 and the meaning   *)
(* of UTF-16 and UTF-8.                                                    *)
(***************************************************************************)
AllDigits(s) == s # <<>> /\ \A i \in 1..Len(s) : s[i] \in Digit
IsInteger(s) == AllDigits(s) /\ (s[1] = Zero => Len(s) = 1)
IsExponent(s) ==
  /\ s # <<>> /\ s[1] \in Exponent
  /\ \/ AllDigits(Tail(s))
     \/ Len(s) > 2 /\ s[2] \in {Plus, Minus} /\ AllDigits(SubSeq(s, 3, Len(s)))

\* The integer part ends at i, the fraction, if there is one, at f.
IsNumber(s) ==
  \E sign \in {0, 1}, i \in 1..Len(s), f \in 1..Len(s) :
    /\ sign < i /\ i <= f
    /\ sign = 1 => s[1] = Minus
    /\ IsInteger(SubSeq(s, 1 + sign, i))
    /\ f > i => s[i + 1] = Point /\ AllDigits(SubSeq(s, i + 2, f))
    /\ f < Len(s) => IsExponent(SubSeq(s, f + 1, Len(s)))

\* The code points a list of code units stands for; <<>> if it is ill-formed.
CodePoints(us) ==
  LET high(i) == us[i] \in HighSurrogate
      low(i)  == us[i] \in LowSurrogate
      plain   == \A i \in DOMAIN us : ~high(i) /\ ~low(i)
  IN  IF plain THEN us
      ELSE IF Len(us) = 2 /\ high(1) /\ low(2)
           THEN << 65536 + (us[1] - 55296) * 1024 + (us[2] - 56320) >>
           ELSE <<>>

\* UTF-8, by the number of bytes a code point takes and the bits of each.
IsUtf8Of(bytes, cp) ==
  LET n == Len(bytes)
      low6(i) == bytes[i] - 128
  IN  /\ \A i \in 2..n : bytes[i] \in 128..191
      /\ \/ n = 1 /\ cp < 128 /\ cp = bytes[1]
         \/ n = 2 /\ 128 <= cp /\ cp < 2048 /\ cp = (bytes[1] - 192) * 64 + low6(2)
         \/ n = 3 /\ 2048 <= cp /\ cp < 65536
              /\ cp = (bytes[1] - 224) * 4096 + low6(2) * 64 + low6(3)
         \/ n = 4 /\ 65536 <= cp /\ cp < 1114112
              /\ cp = (bytes[1] - 240) * 262144 + low6(2) * 4096 + low6(3) * 64 + low6(4)

\* \uXXXX with the digits of alternating case, as a text may have them.
Hex(u) ==
  LET digit(n, k) == LET d == (u \div n) % 16
                     IN  IF d > 9 /\ k % 2 = 0 THEN 55 + d ELSE HexDigit(d)
  IN  <<Backslash, LetterU, digit(4096, 1), digit(256, 2), digit(16, 3), digit(1, 4)>>

EscapedUnits == <<Quote>> \o (IF units = <<>> THEN <<>>
                 ELSE IF Len(units) = 1 THEN Hex(units[1])
                 ELSE Hex(units[1]) \o Hex(units[2])) \o <<Quote>>

-----------------------------------------------------------------------------
\* What a writer puts between quotes is read back as the same bytes, to the
\* last one and no further, whatever the bytes are: control characters,
\* quotes, backslashes in front of a letter that is an escape, and bytes of
\* multi-byte characters (json_escape_into, json_escape; parse_string).
WrittenStringsAreReadBack ==
  LET written == WriteString(characters)
  IN  ReadString(written \o <<Quote>>, 1) = Taken(characters, Len(written) + 1)

\* An escaped list of code units is accepted exactly when it is well-formed
\* UTF-16, at every boundary of the encoding, and is stored as the UTF-8 of
\* its code points: no lone half of a surrogate pair gets into the score
\* (the \u branch of parse_string, append_utf8).
EscapesAreUnicode ==
  LET read == ReadString(EscapedUnits, 1)
      cps  == CodePoints(units)
  IN  IF cps = <<>> /\ units # <<>> THEN ~read.ok
      ELSE /\ read.ok /\ read.end = Len(EscapedUnits) + 1
           /\ \/ cps = <<>> /\ read.value = <<>>
              \/ Len(cps) = 1 /\ IsUtf8Of(read.value, cps[1])
              \/ /\ Len(cps) = 2
                 /\ \E k \in 1..Len(read.value) :
                      /\ IsUtf8Of(SubSeq(read.value, 1, k), cps[1])
                      /\ IsUtf8Of(SubSeq(read.value, k + 1, Len(read.value)), cps[2])

\* Strings survive being written, and escapes are Unicode (json_escape,
\* parse_string, append_utf8).
StringsAreExact == WrittenStringsAreReadBack /\ EscapesAreUnicode

\* A number token is taken exactly when it is in the grammar of RFC 8259, and
\* then the longest one: the reader never stops in the middle of a number, so
\* that the rest could be taken for another token (consume_number).
NumbersFollowTheGrammar ==
  LET number == ReadNumber(characters, 1)
  IN  /\ IsNumber(characters) <=> number = Taken(characters, Len(characters) + 1)
      /\ number.ok => /\ IsNumber(SubSeq(characters, 1, number.end - 1))
                      /\ \A e \in (number.end)..Len(characters) :
                           ~IsNumber(SubSeq(characters, 1, e))
=============================================================================
