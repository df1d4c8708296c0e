----------------------------- MODULE JsonReader ------------------------------
(***************************************************************************)
(* JsonParser of core/score/schema_foundation.cpp (and its copy in         *)
(* core/score/scoreir.cpp): the strict recursive-descent JSON reader, one  *)
(* token at a time, with its call stack as data.                           *)
(*                                                                         *)
(* A text is a sequence of tokens: the white space between them and the    *)
(* characters of strings and numbers are JsonText's. A string is a natural *)
(* number, ordered as the byte strings are; a number or literal is a       *)
(* "scalar"; "broken" is anything that is no token.                        *)
(***************************************************************************)
EXTENDS Integers, Sequences, FiniteSets, SequencesExt

CONSTANT Texts        \* the texts that are read

Punctuation == {"{", "}", "[", "]", ":", ",", "broken"}
Token == [is : Punctuation] \cup [is : {"string", "scalar"}, text : Nat]

ASSUME TextsAssumption == Texts \subseteq Seq(Token)

\* JsonNode: the members of an object are kept in the order of the text.
Str(s)    == [kind |-> "string", string |-> s]
Scalar(x) == [kind |-> "scalar", token |-> x]
Arr(vs)   == [kind |-> "array", array |-> vs]
Obj(ms)   == [kind |-> "object", object |-> ms]
Member(k, v) == [key |-> k, value |-> v]

VARIABLES
  text,      \* text_
  pos,       \* pos_: the index of the next token
  frames,    \* the calls of parse_object and parse_array, innermost last
  pc,        \* what the innermost call does next
  result     \* the value parsed last

vars == <<text, pos, frames, pc, result>>

NoKey == [is |-> "none"]
Frame(kind) == [kind |-> kind, read |-> <<>>, key |-> NoKey]

Init ==
  /\ text \in Texts
  /\ pos = 1
  /\ frames = <<>>
  /\ pc = "value"
  /\ result = Scalar(0)

At(i) == IF i <= Len(text) THEN text[i] ELSE [is |-> "end"]
Peek  == At(pos)
Top   == Last(frames)

-----------------------------------------------------------------------------
\* Mutant of Return: an item is put in front of those before it.
Return_InFront(v, stack) ==
  IF stack = <<>>
  THEN /\ frames' = stack /\ pc' = "end" /\ result' = v
  ELSE LET outer == Last(stack)
           item  == IF outer.kind = "array" THEN v ELSE Member(outer.key.text, v)
       IN  /\ frames' = Append(Front(stack),
                               [outer EXCEPT !.read = <<item>> \o @, !.key = NoKey])
           /\ pc' = "next"
           /\ UNCHANGED result

\* parse_value returns v to the container being read, or to parse().
Return(v, stack) ==
  IF stack = <<>>
  THEN /\ frames' = stack /\ pc' = "end" /\ result' = v
  ELSE LET outer == Last(stack)
           item  == IF outer.kind = "array" THEN v ELSE Member(outer.key.text, v)
       IN  /\ frames' = Append(Front(stack),
                               [outer EXCEPT !.read = Append(@, item), !.key = NoKey])
           /\ pc' = "next"
           /\ UNCHANGED result

ParseScalar ==
  /\ pc = "value"
  /\ Peek.is \in {"string", "scalar"}
  /\ Return(IF Peek.is = "string" THEN Str(Peek.text) ELSE Scalar(Peek.text), frames)
  /\ pos' = pos + 1
  /\ UNCHANGED text

\* An empty container is closed at once.
ParseArray ==
  /\ pc = "value" /\ Peek.is = "["
  /\ IF At(pos + 1).is = "]"
     THEN Return(Arr(<<>>), frames) /\ pos' = pos + 2
     ELSE /\ frames' = Append(frames, Frame("array")) /\ pos' = pos + 1
          /\ UNCHANGED <<pc, result>>
  /\ UNCHANGED text

\* Mutant of ParseObject: the end of an empty object is not consumed.
ParseObject_KeepsEnd ==
  /\ pc = "value" /\ Peek.is = "{"
  /\ IF At(pos + 1).is = "}"
     THEN Return(Obj(<<>>), frames) /\ pos' = pos + 1
     ELSE /\ frames' = Append(frames, Frame("object")) /\ pos' = pos + 1
          /\ pc' = "key" /\ UNCHANGED result
  /\ UNCHANGED text

ParseObject ==
  /\ pc = "value" /\ Peek.is = "{"
  /\ IF At(pos + 1).is = "}"
     THEN Return(Obj(<<>>), frames) /\ pos' = pos + 2
     ELSE /\ frames' = Append(frames, Frame("object")) /\ pos' = pos + 1
          /\ pc' = "key" /\ UNCHANGED result
  /\ UNCHANGED text

\* Mutant of IsDuplicate: only the member before is compared.
IsDuplicate_Adjacent(members, key) ==
  members # <<>> /\ members[Len(members)].key = key

IsDuplicate(members, key) == \E i \in DOMAIN members : members[i].key = key

\* Mutant of KeyIsNext: what stands where the colon belongs is skipped.
KeyIsNext_AnyColon ==
  /\ Peek.is = "string"
  /\ ~IsDuplicate(Top.read, Peek.text)

KeyIsNext ==
  /\ Peek.is = "string"
  /\ At(pos + 1).is = ":"
  /\ ~IsDuplicate(Top.read, Peek.text)

ParseKey ==
  /\ pc = "key"
  /\ KeyIsNext
  /\ frames' = [frames EXCEPT ![Len(frames)].key = Peek]
  /\ pos' = pos + 2
  /\ pc' = "value"
  /\ UNCHANGED <<text, result>>

Closer(kind) == IF kind = "array" THEN "]" ELSE "}"

\* A comma is never followed by the end of the container.
Separate ==
  /\ pc = "next" /\ Peek.is = ","
  /\ pc' = IF Top.kind = "array" THEN "value" ELSE "key"
  /\ pos' = pos + 1
  /\ UNCHANGED <<text, frames, result>>

Close ==
  /\ pc = "next" /\ Peek.is = Closer(Top.kind)
  /\ Return(IF Top.kind = "array" THEN Arr(Top.read) ELSE Obj(Top.read), Front(frames))
  /\ pos' = pos + 1
  /\ UNCHANGED text

\* Mutant of Complete: what follows the value is not looked at.
Complete_AnyTail == TRUE

Complete == pos = Len(text) + 1

Accept ==
  /\ pc = "end" /\ Complete
  /\ pc' = "accepted"
  /\ UNCHANGED <<text, pos, frames, result>>

\* Mutant of Refuse: the end of the text inside a container goes unnoticed.
Refuse_Unterminated ==
  /\ \/ pc = "value" /\ Peek.is \notin {"string", "scalar", "[", "{"}
     \/ pc = "key" /\ ~KeyIsNext
     \/ pc = "next" /\ Peek.is \notin {",", Closer(Top.kind), "end"}
     \/ pc = "end" /\ ~Complete
  /\ pc' = "refused"
  /\ UNCHANGED <<text, pos, frames, result>>

\* JsonParseError.
Refuse ==
  /\ \/ pc = "value" /\ Peek.is \notin {"string", "scalar", "[", "{"}
     \/ pc = "key" /\ ~KeyIsNext
     \/ pc = "next" /\ Peek.is \notin {",", Closer(Top.kind)}
     \/ pc = "end" /\ ~Complete
  /\ pc' = "refused"
  /\ UNCHANGED <<text, pos, frames, result>>

Done == pc \in {"accepted", "refused"}

Next ==
  \/ ParseScalar \/ ParseArray \/ ParseObject
  \/ ParseKey \/ Separate \/ Close
  \/ Accept \/ Refuse

Spec == Init /\ [][Next]_vars /\ WF_vars(Next)

-----------------------------------------------------------------------------
TypeOK ==
  /\ text \in Seq(Token)
  /\ pos \in 1..(Len(text) + 1)
  /\ \A i \in DOMAIN frames : frames[i].kind \in {"array", "object"}
  /\ pc \in {"value", "key", "next", "end", "accepted", "refused"}
  /\ pc \in {"key", "next"} => frames # <<>>
  /\ pc \in {"end", "accepted"} => frames = <<>>

\* No object the reader is in the middle of, at whatever depth, has two
\* members of the same name, nor is it about to take one that it already has:
\* find() can then never answer with a value other than the one that is
\* written last (JsonParser::parse_object, JsonNode::find).
KeysAreDistinct ==
  \A i \in DOMAIN frames :
    LET read == frames[i].read
    IN  frames[i].kind = "object" =>
          /\ \A j, k \in DOMAIN read : read[j].key = read[k].key => j = k
          /\ frames[i].key # NoKey => ~\E j \in DOMAIN read : read[j].key = frames[i].key.text

\* The calls are as deep as the text is nested: one for every bracket that has
\* been read and not closed, and nothing else limits or deepens the recursion.
DepthIsNesting ==
  LET count(brackets) == Cardinality({i \in 1..(pos - 1) : text[i].is \in brackets})
  IN  Len(frames) = count({"{", "["}) - count({"}", "]"})

\* The invariant of the reader, in parts: no object takes a member twice, and
\* the recursion is as deep as the text and no deeper (JsonParser).
ReaderInvariant == TypeOK /\ KeysAreDistinct /\ DepthIsNesting
=============================================================================
