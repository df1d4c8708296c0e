--------------------------- MODULE MCRationalTime ----------------------------
(***************************************************************************)
(* Rational time in six-bit integers, -32..31. A behaviour is about the    *)
(* arithmetic on one time or about one document that is parsed; the other  *)
(* stays where it begins. The operands are the canonical times with        *)
(* extreme, coprime, composite and small parts.                            *)
(***************************************************************************)
EXTENDS TimeAccumulator, WireDocument

MCOperands ==
  {t \in Canonical : /\ t[1] \in {kMin, kMin + 1, -6, -1, 0, 1, 4, 15, kMax - 1, kMax}
                     /\ t[2] \in {1, 2, 6, 15, 16, kMax - 1, kMax}}

VARIABLE subject         \* what the behaviour is about

InitAll ==
  /\ subject \in {"time", "document"}
  /\ WireInit /\ TimeInit
  /\ subject = "time" => ~document.wellFormed

NextAll ==
  /\ UNCHANGED subject
  /\ \/ subject = "time" /\ TimeNext /\ UNCHANGED document
     \/ subject = "document" /\ WireNext /\ UNCHANGED accumulator

SpecAll == InitAll /\ [][NextAll]_<<subject, accumulator, document>>
=============================================================================
