--------------------------- MODULE MCJsonDocument ----------------------------
(***************************************************************************)
(* Reading, writing and reading again, on every text of up to MaxShort     *)
(* tokens and every text one edit away from some longer ones, or the       *)
(* strings and numbers of a text character by character, beside the empty  *)
(* document: the two share no state.                                       *)
(***************************************************************************)
EXTENDS JsonDocument, JsonCharacters

CONSTANT MaxShort       \* bound on the length of the texts taken in full

Symbols == {"{", "}", "[", "]", ":", ",", "?", "a", "b", "0"}

TokenOf == [c \in Symbols |->
  CASE c = "a" -> [is |-> "string", text |-> 1]
    [] c = "b" -> [is |-> "string", text |-> 2]
    [] c = "0" -> [is |-> "scalar", text |-> 0]
    [] c = "?" -> [is |-> "broken"]
    [] OTHER   -> [is |-> c]]

Tokens(symbols) == [i \in DOMAIN symbols |-> TokenOf[symbols[i]]]

Short == UNION {[1..n -> Symbols] : n \in 0..MaxShort}

\* Nesting of each kind in each kind, three members, members out of order,
\* equal names at different depths and, in the last two, in the same object.
Long ==
  { <<"{", "b", ":", "[", "0", ",", "a", "]", ",", "a", ":", "{", "b", ":", "0", "}", "}">>,
    <<"[", "{", "b", ":", "0", ",", "a", ":", "[", "]", "}", ",", "{", "}", "]">>,
    <<"{", "a", ":", "{", "a", ":", "{", "b", ":", "{", "}", ",", "a", ":", "0", "}", "}", "}">>,
    <<"[", "[", "[", "0", "]", ",", "0", "]", ",", "[", "]", "]">>,
    <<"{", "a", ":", "0", ",", "b", ":", "0", ",", "a", ":", "0", "}">>,
    <<"[", "{", "b", ":", "{", "a", ":", "0", "}", ",", "b", ":", "0", "}", "]">> }

\* One symbol replaced, left out, or put in.
Edits(t) ==
  {t} \cup {[t EXCEPT ![i] = c] : i \in DOMAIN t, c \in Symbols}
      \cup {RemoveAt(t, i) : i \in DOMAIN t}
      \cup {InsertAt(t, i, c) : i \in 1..(Len(t) + 1), c \in Symbols}

AllTexts  == {Tokens(t) : t \in Short \cup UNION {Edits(t) : t \in Long}}
LongTexts == {Tokens(t) : t \in UNION {Edits(t) : t \in Long}}

-----------------------------------------------------------------------------
InitAll == InitDocument /\ CharactersInit

NextAll ==
  \/ NextDocument /\ UNCHANGED <<characters, units>>
  \/ text = <<>> /\ CharactersNext /\ UNCHANGED <<vars, saved>>

\* The reader and the writer run on; nobody has to put another character.
SpecAll ==
  /\ InitAll
  /\ [][NextAll]_<<vars, saved, characters, units>>
  /\ WF_<<vars, saved>>(NextDocument /\ UNCHANGED <<characters, units>>)

-----------------------------------------------------------------------------
Answered ==
  CASE pc = "accepted" -> [answer |-> "accepted", value |-> result]
    [] pc = "refused"  -> [answer |-> "refused"]
    [] OTHER           -> [answer |-> "pending"]

Contract == INSTANCE JsonContract WITH answer <- Answered

\* The reader implements the contract: step by step on a stack, it accepts the
\* texts that the grammar derives from values without repeated members, with
\* that value, it refuses every other text, and it does not change its mind
\* (JsonParser::parse).
ImplementsContract == Contract!Spec
=============================================================================
