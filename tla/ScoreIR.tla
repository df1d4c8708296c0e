------------------------------- MODULE ScoreIR -------------------------------
(***************************************************************************)
(* The rules of core/score/scoreir.cpp: which diagnostics each part of a   *)
(* score document gives rise to, and the canonical document that is built  *)
(* when there are none. ScoreIRValidator runs them in the two passes of    *)
(* validate_document.                                                      *)
(*                                                                         *)
(* A JSON object is [isObject, fields] with fields a function whose domain *)
(* is the set of its keys (the reader refuses duplicate keys, the writer   *)
(* sorts them); an array is [isArray, items]. A scalar is a text; NonString*)
(* stands for a node of another kind. A rational time is reduced to what   *)
(* parse_time and the sign tests make of it, a letter, an accidental or an *)
(* octave to whether it is one, the index of a measure likewise.           *)
(*                                                                         *)
(* A diagnostic is its code and its place: the field ScoreIRDiagnostic     *)
(* names, Root when it names none or the root. The places inside a role    *)
(* list and inside a pitch are not told apart.                             *)
(***************************************************************************)
EXTENDS Naturals, Sequences, FiniteSets

CONSTANT EntityId     \* the texts EntityId::from_string accepts

NonString == "<not a string>"

ASSUME EntityIdAssumption == "" \notin EntityId /\ NonString \notin EntityId

Collections == <<"parts", "staves", "voices", "performerRoles", "measures", "events">>
Opaque      == {"opaqueNotation", "unsupportedRelation", "UnknownSymbol"}
Time        == {"notATime", "notCanonical", "extraField", "outOfRange",
                "negative", "zero", "positive"}

Diag(code, at) == [code |-> code, at |-> at]
At(coll, i, field) == [coll |-> coll, i |-> i, field |-> field]
Root == At("(root)", 0, "")

\* The shapes: an object or an array that is a record, and a document of them
\* whose times are classified.
IsNode(node) ==
  /\ node = [isObject |-> node.isObject, fields |-> node.fields]
  /\ node.isObject \in BOOLEAN
  /\ node.fields = [f \in DOMAIN node.fields |-> node.fields[f]]

IsArray(array) ==
  /\ array = [isArray |-> array.isArray, items |-> array.items]
  /\ array.isArray \in BOOLEAN
  /\ Len(array.items) \in Nat
  /\ array.items = [i \in 1..Len(array.items) |-> array.items[i]]

IsItem(item) ==
  /\ IsNode(item)
  /\ "roleRefs" \in DOMAIN item.fields => IsArray(item.fields["roleRefs"])
  /\ \A f \in {"offset", "duration", "actualDuration"} \cap DOMAIN item.fields :
       item.fields[f] \in Time

IsDocument(doc) ==
  /\ IsNode(doc)
  /\ doc.isObject \/ DOMAIN doc.fields = {}
  /\ "metadata" \in DOMAIN doc.fields => IsNode(doc.fields["metadata"])
  /\ \A k \in 1..6 : Collections[k] \in DOMAIN doc.fields =>
       /\ IsArray(doc.fields[Collections[k]])
       /\ \A i \in DOMAIN doc.fields[Collections[k]].items :
            IsItem(doc.fields[Collections[k]].items[i])

Has(node, f) == f \in DOMAIN node.fields
IsString(node, f) == Has(node, f) /\ node.fields[f] # NonString
ReportIf(condition, code, at) == IF condition THEN {Diag(code, at)} ELSE {}

\* reject_field
Reserved == {"humanVerified"}
Derived  == {"playbackTime", "performance", "transform", "geometry", "jianpu",
             "rhythmicAnchor", "visualAnchor", "annotation", "audio"}
FieldCode(f) ==
  IF f \in Reserved THEN "reserved-field"
  ELSE IF f \in Derived THEN "derived-layer-field" ELSE "unknown-field"
Closed(node, allowed, at) == {Diag(FieldCode(f), at) : f \in DOMAIN node.fields \ allowed}

-----------------------------------------------------------------------------
(***************************************************************************)
(* Root, identity of the instance, score identity, metadata.               *)
(***************************************************************************)
IsText(node, f, text) == IsString(node, f) /\ node.fields[f] = text

ScoreIdOk(doc) == IsString(doc, "scoreId") /\ doc.fields["scoreId"] \in EntityId

MetadataProblems(doc) ==
  LET meta == doc.fields["metadata"]
  IN  IF ~Has(doc, "metadata") THEN {}
      ELSE IF ~meta.isObject THEN {Diag("unknown-field", Root)}
      ELSE Closed(meta, {"title"}, At("metadata", 0, ""))
             \cup ReportIf(Has(meta, "title") /\ ~IsString(meta, "title"), "unknown-field", Root)

HeaderProblems(doc) ==
  LET known == {"$schema", "version", "scoreId", "metadata"} \cup {Collections[k] : k \in 1..6}
  IN  UNION {
        Closed(doc, known, Root),
        ReportIf(~Has(doc, "$schema"), "missing-schema-binding", Root),
        ReportIf(Has(doc, "$schema") /\ ~IsText(doc, "$schema", "choirloom:score/scoreir/0.1.0"),
           "schema-binding-mismatch", Root),
        ReportIf(Has(doc, "$id"), "schema-binding-mismatch", Root),
        ReportIf(~Has(doc, "version"), "missing-required-field", Root),
        ReportIf(Has(doc, "version") /\ ~IsText(doc, "version", "0.1.0"),
           "unsupported-scoreir-version", Root),
        ReportIf(~Has(doc, "scoreId"), "missing-required-field", Root),
        ReportIf(Has(doc, "scoreId") /\ ~ScoreIdOk(doc), "malformed-entity-id", Root),
        MetadataProblems(doc) }

-----------------------------------------------------------------------------
(***************************************************************************)
(* Pass 1: identities.                                                     *)
(***************************************************************************)
IsCollection(doc, coll) == Has(doc, coll) /\ doc.fields[coll].isArray
Items(doc, coll) == IF IsCollection(doc, coll) THEN doc.fields[coll].items ELSE <<>>

Identified(item) == item.isObject /\ IsString(item, "id") /\ item.fields["id"] \in EntityId

IdProblems(doc, coll) ==
  LET problems(item, at) ==
        UNION { ReportIf(~item.isObject, "unknown-field", at),
                ReportIf(item.isObject /\ ~IsString(item, "id"), "missing-required-field", at),
                ReportIf(item.isObject /\ IsString(item, "id") /\ ~Identified(item),
                   "malformed-entity-id", Root) }
  IN  UNION { ReportIf(~Has(doc, coll), "missing-required-field", Root),
              ReportIf(Has(doc, coll) /\ ~IsCollection(doc, coll), "unknown-field", Root),
              UNION {problems(Items(doc, coll)[i], At(coll, i, "")) :
                       i \in DOMAIN Items(doc, coll)} }

\* The entries of all_ids, each with the place it was read at: the i-th item of
\* the k-th collection, k = 0 for the score. The vector is in order of places.
Entry(k, i, id) == [k |-> k, i |-> i, id |-> id]
TypeOf(entry) == IF entry.k = 0 THEN "score" ELSE Collections[entry.k]

ScoreIdentity(doc) == IF ScoreIdOk(doc) THEN {Entry(0, 0, doc.fields["scoreId"])} ELSE {}

Identities(doc, k) ==
  LET items == Items(doc, Collections[k])
  IN  {Entry(k, i, items[i].fields["id"]) : i \in {j \in DOMAIN items : Identified(items[j])}}

\* Mutant of DuplicateProblems: an identity may be shared by two kinds.
DuplicateProblems_WithinKind(ids) ==
  ReportIf(\E a, b \in ids : a # b /\ a.id = b.id /\ a.k = b.k, "duplicate-entity-id", Root)

DuplicateProblems(ids) ==
  ReportIf(\E a, b \in ids : a # b /\ a.id = b.id, "duplicate-entity-id", Root)

-----------------------------------------------------------------------------
(***************************************************************************)
(* Pass 2: one entity at a time.                                           *)
(***************************************************************************)
\* need_string: what is missing and what is empty look alike to its callers.
need_string(item, f) == IF IsString(item, f) THEN item.fields[f] ELSE ""
Needed(item, f, at) == ReportIf(~IsString(item, f), "missing-required-field", at)

\* EntityId::from_string, then check_ref: kind_of takes the first match.
ReferenceProblems(ids, ref, expected, at) ==
  LET matches == {entry \in ids : entry.id = ref}
      first   == CHOOSE entry \in matches : \A other \in matches : entry.k <= other.k
  IN  IF ref \notin EntityId THEN {Diag("malformed-entity-id", at)}
      ELSE IF matches = {} THEN {Diag("dangling-reference", at)}
      ELSE ReportIf(TypeOf(first) # expected, "mistyped-reference", at)

\* partRef, staffRef, measureRef: an empty text is not looked up.
NeededReference(ids, item, f, expected, at) ==
  LET ref == need_string(item, f)
  IN  Needed(item, f, at)
        \cup (IF ref = "" THEN {} ELSE ReferenceProblems(ids, ref, expected, [at EXCEPT !.field = f]))

\* Mutant of TimeProblems: zero is as good as positive.
TimeProblems_ZeroAllowed(item, f, refused, code, at) ==
  LET t == item.fields[f]
      here == [at EXCEPT !.field = f]
  IN  UNION { ReportIf(~Has(item, f), "missing-required-field", at),
              ReportIf(Has(item, f) /\ t \in {"notATime", "notCanonical"}, "malformed-rational-time", here),
              ReportIf(Has(item, f) /\ t = "extraField", "unknown-field", here),
              ReportIf(Has(item, f) /\ t = "outOfRange", "rational-time-out-of-range", here),
              ReportIf(Has(item, f) /\ t = "negative", code, here) }

TimeProblems(item, f, refused, code, at) ==
  LET t == item.fields[f]
      here == [at EXCEPT !.field = f]
  IN  UNION { ReportIf(~Has(item, f), "missing-required-field", at),
              ReportIf(Has(item, f) /\ t \in {"notATime", "notCanonical"}, "malformed-rational-time", here),
              ReportIf(Has(item, f) /\ t = "extraField", "unknown-field", here),
              ReportIf(Has(item, f) /\ t = "outOfRange", "rational-time-out-of-range", here),
              ReportIf(Has(item, f) /\ t \in refused, code, here) }

NonPositive == {"negative", "zero"}

RoleRefProblems(ids, refs, at) ==
  UNION {IF refs[r] = NonString THEN {Diag("mistyped-reference", at)}
         ELSE ReferenceProblems(ids, refs[r], "performerRoles", at) : r \in DOMAIN refs}

\* check_spelling: written and sounding pitch. Field names are not classified
\* here, and every fault of a letter, an accidental or an octave has one code.
SpellingProblems(pitch, f, at) ==
  LET node == pitch.fields[f]
      malformed(part) == ~Has(node, part) \/ node.fields[part] # "valid"
  IN  IF ~Has(pitch, f) THEN {Diag("missing-required-field", at)}
      ELSE IF ~node.isObject THEN {Diag("malformed-pitch", at)}
      ELSE UNION { ReportIf(~(DOMAIN node.fields \subseteq {"letter", "accidental", "octave"}),
                     "unknown-field", at),
                   ReportIf(\E part \in {"letter", "accidental", "octave"} : malformed(part),
                     "malformed-pitch", at) }

\* Mutant of PitchProblems: the sounding pitch is taken as it comes.
PitchProblems_WrittenOnly(pitch, at) ==
  UNION { ReportIf(~(DOMAIN pitch.fields \subseteq {"written", "displayAccidental", "sounding"}),
            "unknown-field", at),
          SpellingProblems(pitch, "written", at),
          ReportIf(~IsString(pitch, "displayAccidental"), "missing-required-field", at) }

PitchProblems(pitch, at) ==
  UNION { ReportIf(~(DOMAIN pitch.fields \subseteq {"written", "displayAccidental", "sounding"}),
            "unknown-field", at),
          SpellingProblems(pitch, "written", at),
          SpellingProblems(pitch, "sounding", at),
          ReportIf(~IsString(pitch, "displayAccidental"), "missing-required-field", at) }

NoteProblems(ids, item, at) ==
  LET refs == item.fields["roleRefs"].items
      pitch == item.fields["pitch"]
      isArray == Has(item, "roleRefs") /\ item.fields["roleRefs"].isArray
      here == [at EXCEPT !.field = "roleRefs"]
  IN  UNION { IF Has(item, "pitch") /\ pitch.isObject
              THEN PitchProblems(pitch, [at EXCEPT !.field = "pitch"])
              ELSE {Diag("missing-required-field", at)},
              ReportIf(~isArray, "missing-required-field", at),
              ReportIf(isArray /\ refs = <<>>, "empty-role-refs", here),
              IF isArray THEN RoleRefProblems(ids, refs, here) ELSE {},
              ReportIf(isArray /\ \E r, s \in DOMAIN refs :
                              r < s /\ refs[r] = refs[s] /\ refs[r] # NonString,
                 "duplicate-role-ref", here) }

RestProblems(ids, item, at) ==
  LET roleRefs == item.fields["roleRefs"]
      here == [at EXCEPT !.field = "roleRefs"]
  IN  IF ~Has(item, "roleRefs") THEN {}
      ELSE IF ~roleRefs.isArray THEN {Diag("unknown-field", here)}
      ELSE RoleRefProblems(ids, roleRefs.items, here)

EventFields(kind) ==
  {"id", "kind", "measureRef", "offset"} \cup
    CASE kind = "note"     -> {"duration", "pitch", "roleRefs", "voiceRef"}
      [] kind = "rest"     -> {"duration", "voiceRef", "roleRefs"}
      [] kind \in Opaque   -> {"raw"}
      [] OTHER             -> {}

EventProblems(ids, item, at) ==
  LET kind == need_string(item, "kind")
      voice == item.fields["voiceRef"]
  IN  UNION {
        Needed(item, "kind", at),
        Closed(item, EventFields(kind), at),
        ReportIf(kind \notin {"", "note", "rest"} \cup Opaque, "unknown-event-kind", [at EXCEPT !.field = "kind"]),
        NeededReference(ids, item, "measureRef", "measures", at),
        TimeProblems(item, "offset", {"negative"}, "negative-offset", at),
        IF kind \in Opaque THEN Needed(item, "raw", [at EXCEPT !.field = "raw"])
        ELSE UNION {
          TimeProblems(item, "duration", NonPositive, "non-positive-duration", at),
          Needed(item, "voiceRef", at),
          IF IsString(item, "voiceRef")
          THEN ReferenceProblems(ids, voice, "voices", [at EXCEPT !.field = "voiceRef"]) ELSE {} },
        IF kind = "note" THEN NoteProblems(ids, item, at) ELSE {},
        IF kind = "rest" THEN RestProblems(ids, item, at) ELSE {} }

\* index is a number and a non-negative integer, pickup a Boolean: verdicts, with
\* "malformed" for a number that is no such integer and NonString for no number.
MeasureProblems(item, at) ==
  UNION { ReportIf(~IsString(item, "index"), "missing-required-field", at),
          ReportIf(IsText(item, "index", "malformed"), "malformed-pitch",
             [at EXCEPT !.field = "index"]),
          Needed(item, "number", at),
          ReportIf(~Has(item, "pickup") \/ item.fields["pickup"] \notin {"true", "false"},
             "missing-required-field", at),
          TimeProblems(item, "actualDuration", NonPositive, "non-positive-duration", at) }

PartProblems(item, at) ==
  UNION { Needed(item, "type", at), Needed(item, "name", at),
          ReportIf(need_string(item, "type") \notin {"", "choral"}, "unsupported-part-type",
             [at EXCEPT !.field = "type"]) }

Allowed(coll) ==
  CASE coll = "parts"          -> {"id", "type", "name"}
    [] coll = "staves"         -> {"id", "partRef", "label"}
    [] coll = "voices"         -> {"id", "staffRef", "label"}
    [] coll = "performerRoles" -> {"id", "label"}
    [] coll = "measures"       -> {"id", "index", "number", "pickup", "actualDuration"}
    [] coll = "events"         -> {"id", "kind", "measureRef", "offset", "duration", "pitch",
                                   "roleRefs", "voiceRef", "raw"}

TypedProblems(ids, item, coll, at) ==
  CASE coll = "parts"    -> PartProblems(item, at)
    [] coll = "staves"   -> NeededReference(ids, item, "partRef", "parts", at)
                              \cup Needed(item, "label", at)
    [] coll = "voices"   -> NeededReference(ids, item, "staffRef", "staves", at)
                              \cup Needed(item, "label", at)
    [] coll = "performerRoles" -> Needed(item, "label", at)
    [] coll = "measures" -> MeasureProblems(item, at)
    [] coll = "events"   -> EventProblems(ids, item, at)

\* process_entity: without a well-formed id only the field names are checked.
process_entity(ids, item, coll, at) ==
  UNION { Closed(item, Allowed(coll), at),
          Needed(item, "id", at),
          IF Identified(item) THEN TypedProblems(ids, item, coll, at) ELSE {} }

EntityProblems(ids, doc, coll) ==
  UNION {IF Items(doc, coll)[i].isObject
         THEN process_entity(ids, Items(doc, coll)[i], coll, At(coll, i, ""))
         ELSE {} : i \in DOMAIN Items(doc, coll)}

-----------------------------------------------------------------------------
(***************************************************************************)
(* The document that is returned. Events are rebuilt key by key, the other *)
(* collections are copied.                                                 *)
(***************************************************************************)
Only(keys, node) == [node EXCEPT !.fields = [f \in DOMAIN node.fields \cap keys |-> node.fields[f]]]

\* Mutant of CopiedEvent: raw is forgotten.
CopiedEvent_NoRaw(e) ==
  Only({"id", "kind", "measureRef", "offset", "duration", "pitch", "roleRefs", "voiceRef"}, e)

CopiedEvent(e) ==
  Only({"id", "kind", "measureRef", "offset", "duration", "pitch", "roleRefs", "voiceRef", "raw"}, e)

Canonical(doc) ==
  LET copy(f) ==
        CASE f = "metadata" -> Only({"title"}, doc.fields[f])
          [] f = "events"   -> [doc.fields[f] EXCEPT !.items =
                                  [i \in DOMAIN @ |-> CopiedEvent(@[i])]]
          [] OTHER          -> doc.fields[f]
  IN  [doc EXCEPT !.fields = [f \in DOMAIN doc.fields |-> copy(f)]]

Counts(doc) == [k \in 1..6 |-> Len(Items(doc, Collections[k]))]

Pickups(doc) ==
  Cardinality({i \in DOMAIN Items(doc, "measures") :
                 IsText(Items(doc, "measures")[i], "pickup", "true")})
=============================================================================
