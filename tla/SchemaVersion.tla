---------------------------- MODULE SchemaVersion ----------------------------
(***************************************************************************)
(* SchemaVersion of core/score/schema_foundation: the strict               *)
(* "major.minor.patch" grammar, the uint32 limit of a component, the two   *)
(* exceptions of the parser and the component-wise order.                  *)
(*                                                                         *)
(* A character is a number: 0..9 are the digits, Dot separates components, *)
(* Other is any character that no component may contain.                   *)
(***************************************************************************)
EXTENDS Naturals, Sequences, FiniteSets

CONSTANT MaxComponent      \* the largest component; 2^32 - 1 in the code

ASSUME MaxComponentAssumption == MaxComponent \in Nat \ {0}

Digit == 0..9
Dot   == 10
Other == 11

Component == 0..MaxComponent
Version   == Component \X Component \X Component

(***************************************************************************)
(* operator<=> on versions.                                                *)
(***************************************************************************)
VersionLess(a, b) ==
  \/ a[1] < b[1]
  \/ a[1] = b[1] /\ a[2] < b[2]
  \/ a[1] = b[1] /\ a[2] = b[2] /\ a[3] < b[3]

-----------------------------------------------------------------------------
(***************************************************************************)
(* What a parser returns: a value, std::invalid_argument (grammar) or      *)
(* std::out_of_range (uint32 overflow).                                    *)
(***************************************************************************)
Parsed(v)  == [result |-> "ok", value |-> v]
Invalid    == [result |-> "invalid_argument"]
OutOfRange == [result |-> "out_of_range"]

\* The accumulator v of the digit loop after the first i characters.
Accumulated(seg) ==
  LET v[i \in 0..Len(seg)] == IF i = 0 THEN 0 ELSE v[i - 1] * 10 + seg[i]
  IN  v

\* Mutants of ParseComponent: one without the leading-zero check, one that
\* reports every failure of the loop as a grammar violation.
ParseComponent_LeadingZeroAllowed(seg) ==
  LET stops == {i \in 1..Len(seg) : seg[i] \notin Digit}
  IN  IF seg = <<>> \/ stops # {} THEN Invalid
      ELSE IF Accumulated(seg)[Len(seg)] > MaxComponent THEN OutOfRange
      ELSE Parsed(Accumulated(seg)[Len(seg)])

ParseComponent_OverflowIsInvalid(seg) ==
  IF \/ seg = <<>>
     \/ seg[1] = 0 /\ Len(seg) # 1
     \/ \E i \in 1..Len(seg) : seg[i] \notin Digit
     \/ Accumulated(seg)[Len(seg)] > MaxComponent
  THEN Invalid
  ELSE Parsed(Accumulated(seg)[Len(seg)])

\* The loop leaves through an exception at its first offending character: a
\* non-digit, or a digit that takes the accumulator past the limit.
ParseComponent(seg) ==
  LET stops == {i \in 1..Len(seg) : \/ seg[i] \notin Digit
                                    \/ Accumulated(seg)[i] > MaxComponent}
      first == CHOOSE i \in stops : \A j \in stops : i <= j
  IN  CASE seg = <<>> -> Invalid
        [] seg # <<>> /\ seg[1] = 0 /\ Len(seg) # 1 -> Invalid
        [] OTHER -> IF stops = {} THEN Parsed(Accumulated(seg)[Len(seg)])
                    ELSE IF seg[first] \notin Digit THEN Invalid ELSE OutOfRange

\* SchemaVersion::from_string. The three components are arguments of one
\* constructor call, which C++ evaluates in an unspecified order: when several
\* of them throw, any of their exceptions may be the one that is seen. The
\* result is the set of outcomes a build can show.
FromString(s) ==
  LET dots  == {i \in 1..Len(s) : s[i] = Dot}
      d1    == CHOOSE i \in dots : \A j \in dots : i <= j
      d2    == CHOOSE i \in dots : \A j \in dots : i >= j
      part  == << ParseComponent(SubSeq(s, 1, d1 - 1)),
                  ParseComponent(SubSeq(s, d1 + 1, d2 - 1)),
                  ParseComponent(SubSeq(s, d2 + 1, Len(s))) >>
      thrown == {part[i] : i \in {k \in 1..3 : part[k].result # "ok"}}
  IN  IF Cardinality(dots) # 2 THEN {Invalid}
      ELSE IF thrown # {} THEN thrown
      ELSE {Parsed(<<part[1].value, part[2].value, part[3].value>>)}

-----------------------------------------------------------------------------
(***************************************************************************)
(* SchemaVersion::to_string.                                               *)
(***************************************************************************)
Decimal(n) ==
  LET d[m \in 0..n] == IF m < 10 THEN <<m>> ELSE Append(d[m \div 10], m % 10)
  IN  d[n]

VersionText(v) ==
  Decimal(v[1]) \o <<Dot>> \o Decimal(v[2]) \o <<Dot>> \o Decimal(v[3])

\* The texts that print a version.
PrintedVersions == {VersionText(v) : v \in Version}
=============================================================================
