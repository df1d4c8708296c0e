------------------------------ MODULE Identity -------------------------------
(***************************************************************************)
(* detail::Uuid128 of core/score/entity_revision.h, the payload of EntityId *)
(* and RevisionId: 16 bytes and their one canonical text.                  *)
(*                                                                         *)
(* A text is a sequence of characters: 0..15 are the lower-case hexadecimal *)
(* digits, the others are named below. Both constructors throw the same    *)
(* exception for every fault, so that only acceptance is told apart.       *)
(***************************************************************************)
EXTENDS Integers, SequencesExt

Hyphen == 16
Upper  == 17      \* one of A..F
Other  == 18
HexDigit == 0..15

Bytes == [1..16 -> 0..255]

Invalid == [result |-> "invalid_argument"]
Ok(b)   == [result |-> "ok", value |-> b]

-----------------------------------------------------------------------------
\* The nil test is implied by the version test; the code has both.
IsUuid4(b) ==
  /\ \E i \in 1..16 : b[i] # 0
  /\ b[7] \div 16 = 4
  /\ b[9] \div 16 \in {8, 9, 10, 11}

from_bytes(b) == IF IsUuid4(b) THEN Ok(b) ELSE Invalid

\* The bytes that have a hyphen in front of them.
HyphenBefore == {5, 7, 9, 11}

\* Where the two digits of byte i start.
CharIndex(i) ==
  2 * i - 1 + (IF i >= 5 THEN 1 ELSE 0) + (IF i >= 7 THEN 1 ELSE 0)
            + (IF i >= 9 THEN 1 ELSE 0) + (IF i >= 11 THEN 1 ELSE 0)

BytesOf(s) == [i \in 1..16 |-> 16 * s[CharIndex(i)] + s[CharIndex(i) + 1]]

\* Mutant of IsWireText: a text that goes on is cut off.
IsWireText_Prefix(s) ==
  /\ Len(s) >= 36
  /\ \A i \in HyphenBefore : s[CharIndex(i) - 1] = Hyphen
  /\ \A i \in 1..16 : s[CharIndex(i)] \in HexDigit /\ s[CharIndex(i) + 1] \in HexDigit

IsWireText(s) ==
  /\ Len(s) = 36
  /\ \A i \in HyphenBefore : s[CharIndex(i) - 1] = Hyphen
  /\ \A i \in 1..16 : s[CharIndex(i)] \in HexDigit /\ s[CharIndex(i) + 1] \in HexDigit

\* from_string repeats the tests of from_bytes on what it has decoded.
StringIsUuid4(b) ==
  /\ b[7] \div 16 = 4
  /\ b[9] \div 16 \in {8, 9, 10, 11}
  /\ \E i \in 1..16 : b[i] # 0

\* Mutant of from_string: the variant is taken from the byte before.
from_string_WrongByte(s) ==
  IF IsWireText(s) /\ BytesOf(s)[7] \div 16 = 4 /\ BytesOf(s)[8] \div 16 \in 8..11
  THEN Ok(BytesOf(s)) ELSE Invalid

from_string(s) ==
  IF IsWireText(s) /\ StringIsUuid4(BytesOf(s)) THEN Ok(BytesOf(s)) ELSE Invalid

to_string(b) ==
  LET text[i \in 0..16] ==
        IF i = 0 THEN <<>>
        ELSE text[i - 1] \o (IF i \in HyphenBefore THEN <<Hyphen>> ELSE <<>>)
               \o <<b[i] \div 16, b[i] % 16>>
  IN  text[16]

-----------------------------------------------------------------------------
(***************************************************************************)
(* Identities that start from some bytes and texts that start from their   *)
(* canonical text, and are changed in up to MaxEdits places.               *)
(***************************************************************************)
CONSTANTS MaxEdits,    \* bound on the number of changes
          Characters,  \* the characters put into a text
          ByteValues   \* the bytes put into an identity

ASSUME EditsAssumption == MaxEdits \in Nat /\ ByteValues \subseteq 0..255

\* All zero but for the two marked nibbles, all different, and all zero.
Bases ==
  LET zero == [k \in 1..16 |-> 0]
  IN  {zero, [zero EXCEPT ![7] = 64, ![9] = 128],
       [k \in 1..16 |-> IF k = 7 THEN 79 ELSE IF k = 9 THEN 187 ELSE 16 * k - 1]}

VARIABLES bytes, text, edits
identity == <<bytes, text, edits>>

IdentityInit == bytes \in Bases /\ text = to_string(bytes) /\ edits = 0

EditText ==
  /\ text' \in {[text EXCEPT ![k] = c] : k \in DOMAIN text, c \in Characters}
               \cup {RemoveAt(text, k) : k \in DOMAIN text}
               \cup {InsertAt(text, k, c) : k \in 1..(Len(text) + 1), c \in Characters}
  /\ UNCHANGED bytes

EditBytes ==
  /\ text = to_string(bytes)
  /\ \E k \in 1..16, v \in ByteValues : bytes' = [bytes EXCEPT ![k] = v]
  /\ text' = to_string(bytes')

IdentityNext == edits < MaxEdits /\ edits' = edits + 1 /\ (EditText \/ EditBytes)

IdentitySpec == IdentityInit /\ [][IdentityNext]_identity

-----------------------------------------------------------------------------
\* An identity has one spelling: whatever text is accepted is the canonical
\* text of the bytes it stands for, so that two records that name the same
\* entity name it with the same text (Uuid128::from_string, to_string).
TextsAreCanonical ==
  LET read == from_string(text)
  IN  read.result = "ok" => read.value \in Bytes /\ to_string(read.value) = text

\* The two constructors, which each repeat the rules, admit the same
\* identities: what from_bytes accepts is written as a text that from_string
\* takes back, and what it refuses cannot come in as a text either.
ConstructorsAgree == from_string(to_string(bytes)) = from_bytes(bytes)

\* An identity has one text, and its two constructors admit the same identities
\* (Uuid128::from_bytes, from_string, to_string).
IdentitiesHaveOneText == TextsAreCanonical /\ ConstructorsAgree
=============================================================================
