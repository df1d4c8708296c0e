------------------------- MODULE MCScoreIRValidator --------------------------
(***************************************************************************)
(* A small choral score with one entity of each kind (two roles, three     *)
(* events), and every document that differs from it in one place, or in    *)
(* one place and in one more identity or reference.                        *)
(***************************************************************************)
EXTENDS ScoreIRValidator

\* score, part, staff, voice, two roles, measure, three events, unregistered
MCEntityId == {"S", "P", "T", "V", "R", "Q", "M", "E", "F", "G", "X"}

Item(fields) == [isObject |-> TRUE, fields |-> fields]
Items1(items) == [isArray |-> TRUE, items |-> items]
RoleRefs(refs) == [isArray |-> TRUE, items |-> refs]

SpellingItem == Item([letter |-> "valid", accidental |-> "valid", octave |-> "valid"])
PitchItem ==
  Item([written |-> SpellingItem, sounding |-> SpellingItem, displayAccidental |-> "a"])

NoteItem ==
  Item([id |-> "E", kind |-> "note", measureRef |-> "M", offset |-> "zero", duration |-> "positive",
        pitch |-> PitchItem, roleRefs |-> RoleRefs(<<"R", "Q">>), voiceRef |-> "V"])
RestItem ==
  Item([id |-> "F", kind |-> "rest", measureRef |-> "M", offset |-> "positive",
        duration |-> "positive", voiceRef |-> "V"])
OpaqueItem ==
  Item([id |-> "G", kind |-> "UnknownSymbol", measureRef |-> "M", offset |-> "zero", raw |-> "?"])

Base ==
  Item([k \in {"$schema", "version", "scoreId", "metadata"} \cup {Collections[n] : n \in 1..6} |->
    CASE k = "$schema"  -> "choirloom:score/scoreir/0.1.0"
      [] k = "version"  -> "0.1.0"
      [] k = "scoreId"  -> "S"
      [] k = "metadata" -> Item([title |-> "t"])
      [] k = "parts"    -> Items1(<<Item([id |-> "P", type |-> "choral", name |-> "n"])>>)
      [] k = "staves"   -> Items1(<<Item([id |-> "T", partRef |-> "P", label |-> "l"])>>)
      [] k = "voices"   -> Items1(<<Item([id |-> "V", staffRef |-> "T", label |-> "l"])>>)
      [] k = "performerRoles" -> Items1(<<Item([id |-> "R", label |-> "l"]),
                                          Item([id |-> "Q", label |-> "l"])>>)
      [] k = "measures" -> Items1(<<Item([id |-> "M", index |-> "0", number |-> "1",
                                          pickup |-> "true", actualDuration |-> "positive"])>>)
      [] k = "events"   -> Items1(<<NoteItem, RestItem, OpaqueItem>>)])

-----------------------------------------------------------------------------
\* Edits of a node, of an item of a document, of the document.
Set(node, f, v) ==
  [node EXCEPT !.fields = [k \in DOMAIN node.fields \cup {f} |-> IF k = f THEN v ELSE node.fields[k]]]
Drop(node, f) ==
  [node EXCEPT !.fields = [k \in DOMAIN node.fields \ {f} |-> node.fields[k]]]

Places(doc) ==
  UNION {{<<Collections[k], i>> : i \in DOMAIN Items(doc, Collections[k])} : k \in 1..6}
ItemAt(doc, p) == Items(doc, p[1])[p[2]]
Replace(doc, p, item) == [doc EXCEPT !.fields[p[1]].items[p[2]] = item]

Texts == {"S", "P", "T", "V", "R", "M", "E", "X", "", "malformed", NonString}

\* Another identity or another reference, out of texts.
ItemLinkEdits(item, texts) ==
  {Set(item, f, t) : f \in {"id", "partRef", "staffRef", "measureRef", "voiceRef"}
                             \cap DOMAIN item.fields, t \in texts}
    \cup {Set(item, "roleRefs", RoleRefs(refs)) : refs \in
           IF "roleRefs" \in DOMAIN item.fields THEN {<<t>> : t \in texts} \cup {<<"R", "R">>} ELSE {}}

\* A spelling or a pitch with a field missing, foreign, malformed or of another kind.
SpellingEdits(node) ==
  {Drop(node, f) : f \in DOMAIN node.fields} \cup {Set(node, "cents", "valid")}
    \cup {Set(node, f, "malformed") : f \in DOMAIN node.fields} \cup {[node EXCEPT !.isObject = FALSE]}

PitchEdits(pitch) ==
  {Drop(pitch, f) : f \in DOMAIN pitch.fields} \cup {Set(pitch, "geometry", "x")}
    \cup UNION {{Set(pitch, f, node) : node \in SpellingEdits(pitch.fields[f])} :
                  f \in {"written", "sounding"}}
    \cup {Set(pitch, "displayAccidental", NonString), [pitch EXCEPT !.isObject = FALSE]}

ItemEdits(item) ==
  UNION { {Drop(item, f) : f \in DOMAIN item.fields},
          {Set(item, f, "x") : f \in {"raw", "geometry", "humanVerified", "bogus"}},
          {Set(item, f, t) : f \in {"offset", "duration", "actualDuration"} \cap DOMAIN item.fields,
                             t \in Time},
          {Set(item, "kind", t) : t \in
             IF "kind" \in DOMAIN item.fields
             THEN {"note", "rest", "opaqueNotation", "sonata", "", NonString} ELSE {}},
          {Set(item, f, t) : f \in {"type", "label", "number", "pickup"} \cap DOMAIN item.fields,
                             t \in {"", "choral", "false", NonString}},
          {Set(item, f, t) : f \in {"index"} \cap DOMAIN item.fields,
                             t \in {"malformed", NonString}},
          {Set(item, "pitch", p) : p \in
             IF "pitch" \in DOMAIN item.fields THEN PitchEdits(item.fields["pitch"]) ELSE {}},
          {Set(item, "roleRefs", [isArray |-> b, items |-> <<>>]) : b \in BOOLEAN},
          {Set(item, "roleRefs", RoleRefs(<<NonString, NonString>>))},
          {[isObject |-> FALSE, fields |-> item.fields]} }

LinkEdits(doc, texts) ==
  UNION {{Replace(doc, p, item) : item \in ItemLinkEdits(ItemAt(doc, p), texts)} : p \in Places(doc)}
    \cup {Set(doc, "scoreId", t) : t \in texts}

Edits(doc) ==
  UNION { UNION {{Replace(doc, p, item) : item \in ItemEdits(ItemAt(doc, p))} : p \in Places(doc)},
          {Drop(doc, f) : f \in DOMAIN doc.fields},
          {Set(doc, f, "x") : f \in {"$id", "$schema", "version", "audio", "bogus"}},
          {Set(doc, Collections[k], [isArray |-> b, items |-> <<>>]) : k \in 1..6, b \in BOOLEAN},
          {Set(doc, "metadata", m) : m \in {[isObject |-> FALSE, fields |-> <<>>], Item([title |-> NonString]),
                                            Item([title |-> "t", composer |-> "c"])}},
          {[isObject |-> FALSE, fields |-> <<>>]},
          LinkEdits(doc, Texts) }

MCDocuments == {Base} \cup Edits(Base)

\* The documents of Documents, each as it is and with one link edited in it.
MCInit ==
  /\ \E d \in Documents :
       \/ document = d
       \/ d.isObject /\ \E e \in LinkEdits(d, {"S", "R", "X", ""}) : document = e
  /\ Start

MCSpec == MCInit /\ [][Next]_vars /\ WF_vars(Next)
=============================================================================
