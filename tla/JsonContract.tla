---------------------------- MODULE JsonContract -----------------------------
(***************************************************************************)
(* What reading a JSON text comes to, whatever the way of reading it: the  *)
(* text is accepted exactly when the grammar derives it from a value whose *)
(* objects have no member twice, and the answer is that value. The grammar *)
(* is stated on whole texts, by the ways to split them, with no position,  *)
(* no stack and no order of reading.                                       *)
(***************************************************************************)
EXTENDS Naturals, Sequences

CONSTANT Token      \* the tokens texts are made of

Pending     == [answer |-> "pending"]
Refused     == [answer |-> "refused"]
Accepted(v) == [answer |-> "accepted", value |-> v]

Inside(t) == SubSeq(t, 2, Len(t) - 1)

RECURSIVE Values(_), Elements(_), Members(_)

\* The values that the text t spells.
Values(t) ==
  LET bracketed(open, close) == Len(t) >= 2 /\ t[1].is = open /\ t[Len(t)].is = close
      unique(ms) == \A i, j \in DOMAIN ms : ms[i].key = ms[j].key => i = j
  IN  IF Len(t) = 1 /\ t[1].is = "string" THEN {[kind |-> "string", string |-> t[1].text]}
      ELSE IF Len(t) = 1 /\ t[1].is = "scalar" THEN {[kind |-> "scalar", token |-> t[1].text]}
      ELSE IF bracketed("[", "]")
           THEN {[kind |-> "array", array |-> vs] :
                   vs \in Elements(Inside(t)) \cup (IF Len(t) = 2 THEN {<<>>} ELSE {})}
      ELSE IF bracketed("{", "}")
           THEN {[kind |-> "object", object |-> ms] :
                   ms \in {m \in Members(Inside(t)) : unique(m)}
                            \cup (IF Len(t) = 2 THEN {<<>>} ELSE {})}
      ELSE {}

\* The places where a list of elements or members can be split in two.
Commas(t) == {i \in 2..(Len(t) - 1) : t[i].is = ","}

\* The non-empty lists of values, and of members, that t spells.
Elements(t) ==
  {<<v>> : v \in Values(t)} \cup
  UNION {{<<v>> \o vs : v \in Values(SubSeq(t, 1, i - 1)), vs \in Elements(SubSeq(t, i + 1, Len(t)))} :
           i \in Commas(t)}

Members(t) ==
  LET one(s) == IF Len(s) >= 3 /\ s[1].is = "string" /\ s[2].is = ":"
                THEN {[key |-> s[1].text, value |-> v] : v \in Values(SubSeq(s, 3, Len(s)))}
                ELSE {}
  IN  {<<m>> : m \in one(t)} \cup
      UNION {{<<m>> \o ms : m \in one(SubSeq(t, 1, i - 1)), ms \in Members(SubSeq(t, i + 1, Len(t)))} :
               i \in Commas(t)}

-----------------------------------------------------------------------------
VARIABLES text, answer

Init == text \in Seq(Token) /\ answer = Pending

Answer ==
  /\ answer = Pending
  /\ \/ \E v \in Values(text) : answer' = Accepted(v)
     \/ Values(text) = {} /\ answer' = Refused
  /\ UNCHANGED text

\* When a text has been answered another one may be put.
Ask ==
  /\ answer # Pending
  /\ answer' = Pending
  /\ text' \in Seq(Token)

Next == Answer \/ Ask

\* Every text is answered.
Spec == Init /\ [][Next]_<<text, answer>> /\ WF_<<text, answer>>(Answer)
=============================================================================
