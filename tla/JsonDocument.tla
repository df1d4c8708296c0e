---------------------------- MODULE JsonDocument -----------------------------
(***************************************************************************)
(* The reader together with the canonical writer of core/score/scoreir.cpp *)
(* (canonical_sort, json_write): a text that was accepted is written out   *)
(* and the reader is started again on what was written.                    *)
(***************************************************************************)
EXTENDS JsonReader

VARIABLE saved        \* <<>>, or the value that was written

-----------------------------------------------------------------------------
(***************************************************************************)
(* The writer recurses into a value as deep as it is nested, which is not  *)
(* limited, but less deep than the text it was read from is long.          *)
(***************************************************************************)
NamedOnce(ms) == \A i, j \in DOMAIN ms : ms[i].key = ms[j].key => i = j

ValueOver(S) ==
  [kind : {"string"}, string : Nat] \cup [kind : {"scalar"}, token : Nat]
    \cup [kind : {"array"}, array : Seq(S)]
    \cup [kind : {"object"}, object : {ms \in Seq([key : Nat, value : S]) : NamedOnce(ms)}]

\* JsonNode, as far as the reader returns it, nested at most n deep. (A bound
\* identifier has its value computed once.)
Value[n \in Nat] == UNION {ValueOver(S) : S \in {IF n = 0 THEN {} ELSE Value[n - 1]}}

\* std::sort
ByKey(ms) ==
  LET order == CHOOSE p \in [DOMAIN ms -> DOMAIN ms] :
                 \A i, j \in DOMAIN ms : i < j => p[i] # p[j] /\ ms[p[i]].key <= ms[p[j]].key
  IN  [i \in DOMAIN ms |-> ms[order[i]]]

\* Mutant of canonical_sort: only the outermost object is put in order.
canonical_sort_Shallow(n, v) == IF v.kind = "object" THEN Obj(ByKey(v.object)) ELSE v

\* Members by key, at every level; elements stay in order.
canonical_sort(n, v) ==
  LET sorted[w \in Value[n]] ==
        IF w.kind = "object"
        THEN Obj(ByKey([i \in DOMAIN w.object |->
                          Member(w.object[i].key, sorted[w.object[i].value])]))
        ELSE IF w.kind = "array" THEN Arr([i \in DOMAIN w.array |-> sorted[w.array[i]]])
        ELSE w
  IN  sorted[v]

Mark(c)   == << [is |-> c] >>
Word(c, x) == << [is |-> c, text |-> x] >>
Named(k, item) == Word("string", k) \o Mark(":") \o item

\* The texts of the items with a comma between them.
Listed(items) ==
  FlattenSeq([i \in DOMAIN items |-> IF i = 1 THEN items[i] ELSE Mark(",") \o items[i]])

json_write_into(n, v) ==
  LET spelled[w \in Value[n]] ==
        IF w.kind = "object"
        THEN Mark("{") \o Listed([i \in DOMAIN w.object |->
                                    Named(w.object[i].key, spelled[w.object[i].value])])
               \o Mark("}")
        ELSE IF w.kind = "array"
        THEN Mark("[") \o Listed([i \in DOMAIN w.array |-> spelled[w.array[i]]]) \o Mark("]")
        ELSE IF w.kind = "string" THEN Word("string", w.string)
        ELSE Word("scalar", w.token)
  IN  spelled[v]

Spelling(v)   == json_write_into(Len(text), v)
json_write(v) == Spelling(canonical_sort(Len(text), v))

-----------------------------------------------------------------------------
InitDocument == Init /\ saved = <<>>

Read == Next /\ UNCHANGED saved

\* The value is written and the text that came out is read.
Rewrite ==
  /\ pc = "accepted" /\ saved = <<>>
  /\ saved' = <<result>>
  /\ text' = json_write(result)
  /\ pos' = 1
  /\ pc' = "value"
  /\ UNCHANGED <<frames, result>>

NextDocument == Read \/ Rewrite

SpecDocument == InitDocument /\ [][NextDocument]_<<vars, saved>> /\ WF_<<vars, saved>>(NextDocument)

-----------------------------------------------------------------------------
\* What has been read of the container of the i-th call, which is not closed.
OpenText(i) ==
  LET f == frames[i]
      more == f.read # <<>> /\ (i < Len(frames) \/ pc # "next")
  IN  (IF f.kind = "array"
       THEN Mark("[") \o Listed([j \in DOMAIN f.read |-> Spelling(f.read[j])])
       ELSE Mark("{") \o Listed([j \in DOMAIN f.read |->
                                   Named(f.read[j].key, Spelling(f.read[j].value))]))
        \o (IF more THEN Mark(",") ELSE <<>>)
        \o (IF f.key = NoKey THEN <<>> ELSE Named(f.key.text, <<>>))

\* Nothing that was read is lost, invented or moved to another container: at
\* any moment the tokens behind the reader are those of the values it holds,
\* container by container from the outside in (JsonParser).
ReadTextIsOnTheStack ==
  pc # "refused" =>
    SubSeq(text, 1, pos - 1) =
      IF pc \in {"end", "accepted"} THEN Spelling(result)
      ELSE FlattenSeq([i \in DOMAIN frames |-> OpenText(i)])

\* Every object in v, however deep, has its members in the order of their names.
InOrder(n, v) ==
  LET inorder[w \in Value[n]] ==
        IF w.kind = "object"
        THEN \A i, j \in DOMAIN w.object :
               inorder[w.object[i].value] /\ (i < j => w.object[i].key < w.object[j].key)
        ELSE w.kind = "array" => \A i \in DOMAIN w.array : inorder[w.array[i]]
  IN  inorder[v]

SameUpToOrder(n, v, w) ==
  LET same[x \in Value[n]] ==
        [y \in Value[n] |->
           IF x.kind = "object" /\ y.kind = "object"
           THEN /\ Len(x.object) = Len(y.object)
                /\ \A i \in DOMAIN x.object : \E j \in DOMAIN y.object :
                     /\ x.object[i].key = y.object[j].key
                     /\ same[x.object[i].value][y.object[j].value]
           ELSE IF x.kind = "array" /\ y.kind = "array"
           THEN /\ Len(x.array) = Len(y.array)
                /\ \A i \in DOMAIN x.array : same[x.array[i]][y.array[i]]
           ELSE x = y]
  IN  same[v][w]

\* What the writer writes is read again as the same document, in the one order
\* of members that all its spellings share, and would be written again as the
\* same text: saving and opening a document settles after the first time
\* (json_write, canonical_sort, parse).
WrittenTextIsReadBack ==
  saved # <<>> /\ pc = "accepted" =>
    /\ SameUpToOrder(Len(text), result, saved[1])
    /\ InOrder(Len(text), result)
    /\ json_write(result) = text

\* Neither on the way in nor on the way out is anything lost (JsonParser,
\* json_write).
NothingIsLost == ReadTextIsOnTheStack /\ WrittenTextIsReadBack

\* A text is refused, or it is written and what was written is accepted: no
\* document that could be opened is lost by saving it (json_write, parse).
ReopeningTerminates == <>(pc = IF saved = <<>> THEN "refused" ELSE "accepted")
=============================================================================
