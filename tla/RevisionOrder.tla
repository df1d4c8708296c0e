---------------------------- MODULE RevisionOrder ----------------------------
(***************************************************************************)
(* ProjectRevisionMetadata as a value, and compare_project_revisions, the  *)
(* order that deterministic tooling puts revisions in                      *)
(* (core/score/entity_revision.h and entity_revision.cpp).                 *)
(*                                                                         *)
(* An identity is its bytes, of which there may be fewer than 16; a summary *)
(* is a sequence of characters; an optional parent is <<>> or <<id>>.      *)
(***************************************************************************)
EXTENDS Naturals, Sequences

CONSTANTS IdLength,    \* bytes of an identity
          ByteLimit    \* bytes are 0..ByteLimit

ASSUME IdAssumption == IdLength \in Nat \ {0} /\ ByteLimit \in Nat

Id == [1..IdLength -> 0..ByteLimit]

ManualEdit  == 0
Recognition == 1
Migration   == 2
Origin == {ManualEdit, Recognition, Migration}

Metadata(summaries) ==
  [revision : Id, parent : {<<>>} \cup {<<id>> : id \in Id}, origin : Origin,
   summary : summaries]

-----------------------------------------------------------------------------
Flip(c) == CASE c = "less" -> "greater" [] c = "greater" -> "less" [] OTHER -> "equal"

CompareNumbers(m, n) == IF m < n THEN "less" ELSE IF n < m THEN "greater" ELSE "equal"

\* compare_byte_order: the first byte that differs decides.
CompareBytes(x, y) ==
  IF \A i \in 1..IdLength : x[i] = y[i] THEN "equal"
  ELSE LET first == CHOOSE i \in 1..IdLength :
                      x[i] # y[i] /\ \A j \in 1..(i - 1) : x[j] = y[j]
       IN  CompareNumbers(x[first], y[first])

\* Mutant of CompareParents: an absent parent equals every parent.
CompareParents_AbsentIsEqual(p, q) ==
  IF p = <<>> \/ q = <<>> THEN "equal" ELSE CompareBytes(p[1], q[1])

\* An absent parent comes before a present one.
CompareParents(p, q) ==
  IF p = <<>> /\ q = <<>> THEN "equal"
  ELSE IF p = <<>> THEN "less"
  ELSE IF q = <<>> THEN "greater"
  ELSE CompareBytes(p[1], q[1])

\* std::string's <=>: the first character that differs, then the length.
CompareText(s, t) ==
  LET differs == {i \in DOMAIN s \cap DOMAIN t : s[i] # t[i]}
  IN  IF differs = {} THEN CompareNumbers(Len(s), Len(t))
      ELSE LET first == CHOOSE i \in differs : \A j \in differs : i <= j
           IN  CompareNumbers(s[first], t[first])

compare_project_revisions(a, b) ==
  LET id     == CompareBytes(a.revision, b.revision)
      parent == CompareParents(a.parent, b.parent)
      origin == CompareNumbers(a.origin, b.origin)
  IN  IF id # "equal" THEN id
      ELSE IF parent # "equal" THEN parent
      ELSE IF origin # "equal" THEN origin
      ELSE CompareText(a.summary, b.summary)

-----------------------------------------------------------------------------
(***************************************************************************)
(* The laws of a total order on a set of revisions.                        *)
(***************************************************************************)
Antisymmetric(S) ==
  \A a, b \in S :
    compare_project_revisions(b, a) = Flip(compare_project_revisions(a, b))

EqualIsIdentical(S) ==
  \A a, b \in S : compare_project_revisions(a, b) = "equal" => a = b

Transitive(S) ==
  \A a, b, c \in S :
    compare_project_revisions(a, b) = "less" /\ compare_project_revisions(b, c) = "less"
      => compare_project_revisions(a, c) = "less"
=============================================================================
