-------------------------- MODULE SchemaVersionText --------------------------
(***************************************************************************)
(* Every text up to MaxLen characters over an alphabet, one character at a *)
(* time, put to the version parser.                                        *)
(***************************************************************************)
EXTENDS SchemaVersion

CONSTANTS MaxLen,      \* bound on the length of the text
          Alphabet     \* the characters tried

ASSUME AlphabetAssumption == MaxLen \in Nat /\ Alphabet \subseteq Digit \cup {Dot, Other}

VARIABLE text

TextInit == text = <<>>

Extend(c) ==
  /\ Len(text) < MaxLen
  /\ text' = Append(text, c)

TextNext == \E c \in Alphabet : Extend(c)

TextSpec == TextInit /\ [][TextNext]_text

-----------------------------------------------------------------------------
\* The documented grammar, stated without reference to the parser: a component
\* is "0" or a non-zero digit followed by digits, a version is three of them.
IsComponent(seg) ==
  /\ seg # <<>>
  /\ \A i \in 1..Len(seg) : seg[i] \in Digit
  /\ seg[1] = 0 => Len(seg) = 1

InGrammar(s) ==
  \E i, j \in 1..Len(s) :
    /\ i < j /\ s[i] = Dot /\ s[j] = Dot
    /\ IsComponent(SubSeq(s, 1, i - 1))
    /\ IsComponent(SubSeq(s, i + 1, j - 1))
    /\ IsComponent(SubSeq(s, j + 1, Len(s)))

\* The parser accepts exactly the texts that are the printed form of some
\* version: nothing is normalised silently, no version has a second spelling,
\* and every version in range survives printing and parsing
\* (SchemaVersion::from_string and to_string).
AcceptsExactlyPrintedVersions ==
  \A o \in FromString(text) :
     /\ o.result = "ok" => o.value \in Version /\ VersionText(o.value) = text
     /\ o.result # "ok" => text \notin PrintedVersions

\* A text in the grammar whose components are too large is reported as out of
\* range and never as malformed, whatever the order in which the compiler
\* evaluates the components (the two catalog diagnostics differ).
OverflowIsNotMalformed ==
  InGrammar(text) => Invalid \notin FromString(text)

\* Of all texts exactly the printed forms of versions are accepted, each as the
\* version it prints, and a version that is too large is not called malformed
\* (SchemaVersion::from_string, to_string).
VersionTextsAreExact == AcceptsExactlyPrintedVersions /\ OverflowIsNotMalformed
=============================================================================
