---------------------------- MODULE CatalogLoader ----------------------------
(***************************************************************************)
(* SchemaCatalog::from_json of core/score/schema_foundation.cpp: one       *)
(* declarative catalog document read stage by stage (root, header,         *)
(* entries, rules) into a builder and a list of diagnostics.               *)
(*                                                                         *)
(* A document is what the JSON parser hands over, reduced to what from_json *)
(* tells apart. For the entries and the rules that is, in the order of the *)
(* code: is it an object, has it all fields, are they all strings, and     *)
(* then the texts. A SchemaId text that from_string refuses is "malformed";*)
(* the texts of versions are kept character by character.                  *)
(***************************************************************************)
EXTENDS SchemaCatalog

CONSTANT Documents      \* the documents that are loaded

Text      == Seq(0..11)
IdText    == SchemaId \cup {"malformed"}
DocText   == [id : IdText, ver : Text]
Shape     == {"other", "incomplete", "nonString", "strings"}
EntryNode == [shape : Shape, extra : BOOLEAN, id : IdText, ver : Text,
              doc : DocText, path : Path, status : {"known", "unknown"}]
RuleNode  == [shape : Shape, extra : BOOLEAN, from : DocText, to : DocText,
              kind : Kinds \cup {"unknown"}]
JsonDocument ==
  [root : {"malformed", "other", "object"}, extra : BOOLEAN,
   binding : {"missing", "nonString", "different", "exact"},
   format : {"missing", "other", "number"}, token : Text,
   entriesKind : {"missing", "other", "array"}, entries : Seq(EntryNode),
   rulesKind : {"missing", "other", "array"}, rules : Seq(RuleNode)]

\* The texts of versions in a document.
VersionTexts(doc) ==
  (UNION {{doc.entries[k].ver, doc.entries[k].doc.ver} : k \in DOMAIN doc.entries})
  \cup (UNION {{doc.rules[k].from.ver, doc.rules[k].to.ver} : k \in DOMAIN doc.rules})

ASSUME DocumentsAssumption ==
  /\ "malformed" \notin SchemaId
  /\ \A doc \in Documents :
       /\ doc \in JsonDocument
       /\ \A s \in VersionTexts(doc) : \A o \in FromString(s) :
            o.result = "ok" => o.value \in Versions

VARIABLES
  root,                \* the parsed document
  pc,                  \* the stage that is next
  element,             \* index of the entry or rule that is next
  diagnostics,         \* result.diagnostics, as a set: [code, at]
  builder,             \* its entries and rules
  loaded               \* result.catalog: <<>> or <<catalog>>

loader == <<root, pc, element, diagnostics, builder, loaded>>

At(part, n) == [part |-> part, n |-> n]
Header == At("header", 0)
Malformed(at) == Diagnostic("malformed-catalog-json", at)

LoaderInit ==
  /\ root \in Documents
  /\ pc = "root" /\ element = 0
  /\ diagnostics = {}
  /\ builder = [entries |-> <<>>, rules |-> <<>>]
  /\ loaded = <<>>

-----------------------------------------------------------------------------
(***************************************************************************)
(* Root and header. Any problem here returns before the body is read.      *)
(***************************************************************************)
Report(problems) == diagnostics' = diagnostics \cup problems

ReadRoot ==
  /\ pc = "root"
  /\ Report(IF root.root = "object" THEN {} ELSE {Malformed(Header)})
  /\ pc' = IF root.root = "object" THEN "header" ELSE "done"
  /\ UNCHANGED <<root, element, builder, loaded>>

\* catalogFormatVersion is read from the raw token: digits up to the uint32
\* limit, and then only 1 is supported.
FormatProblems ==
  LET t == root.token
      inRange == /\ t # <<>>
                 /\ \A k \in DOMAIN t : t[k] \in Digit /\ Accumulated(t)[k] <= MaxComponent
  IN  IF root.format # "number" \/ ~inRange THEN {Malformed(Header)}
      ELSE IF Accumulated(t)[Len(t)] # 1
           THEN {Diagnostic("catalog-format-unsupported", Header)} ELSE {}

HeaderProblems ==
  UNION { IF root.extra THEN {Malformed(Header)} ELSE {},
          IF root.binding = "exact" THEN {} ELSE {Malformed(Header)},
          FormatProblems }

ReadHeader ==
  /\ pc = "header"
  /\ Report(HeaderProblems)
  /\ pc' = IF HeaderProblems = {} THEN "entries" ELSE "done"
  /\ UNCHANGED <<root, element, builder, loaded>>

-----------------------------------------------------------------------------
(***************************************************************************)
(* Entries.                                                                *)
(***************************************************************************)
OpenEntries ==
  LET usable == root.entriesKind = "array" /\ root.entries # <<>>
  IN  /\ pc = "entries"
      /\ Report(IF usable THEN {} ELSE {Malformed(At("entries", 0))})
      /\ pc' = IF usable THEN "entry" ELSE "done"
      /\ element' = 1
      /\ UNCHANGED <<root, builder, loaded>>

\* SchemaDocumentId::from_string: a set, as FromString is one.
DocumentIdFromString(d) ==
  IF d.id = "malformed" THEN {Invalid}
  ELSE {IF v.result = "ok" THEN Parsed([id |-> d.id, ver |-> v.value]) ELSE v :
          v \in FromString(d.ver)}

\* What reading one element comes to: a value to add, or one diagnostic.
Accept(value) == [code |-> "none", value |-> value]
Reject(code)  == [code |-> code]

VersionCode(result) == IF result = "out_of_range" THEN "schema-version-out-of-range"
                       ELSE "schema-version-format"
DocumentCode(result) == IF result = "out_of_range" THEN "schema-version-out-of-range"
                        ELSE "schema-document-id-format"

\* Mutant of EntryOutcomes: a version that is refused leaves the placeholder.
EntryOutcomes_Placeholder(e) ==
  LET outcome(v, d) ==
        CASE d.result # "ok" -> Reject(DocumentCode(d.result))
          [] d.result = "ok" /\ e.status = "unknown" -> Reject("malformed-catalog-json")
          [] OTHER -> Accept([id |-> e.id, doc |-> d.value, path |-> e.path,
                              ver |-> IF v.result = "ok" THEN v.value ELSE <<0, 0, 0>>])
  IN  IF e.shape # "strings" THEN {Reject("malformed-catalog-json")}
      ELSE IF e.id \notin SchemaId THEN {Reject("schema-id-format")}
      ELSE {outcome(p[1], p[2]) : p \in FromString(e.ver) \X DocumentIdFromString(e.doc)}

\* The outcomes of one entry; the first problem ends it (continue).
EntryOutcomes(e) ==
  LET outcome(v, d) ==
        CASE v.result # "ok" -> Reject(VersionCode(v.result))
          [] v.result = "ok" /\ d.result # "ok" -> Reject(DocumentCode(d.result))
          [] v.result = "ok" /\ d.result = "ok" /\ e.status = "unknown" ->
               Reject("malformed-catalog-json")
          [] OTHER -> Accept([id |-> e.id, ver |-> v.value, doc |-> d.value, path |-> e.path])
  IN  IF e.shape # "strings" THEN {Reject("malformed-catalog-json")}
      ELSE IF e.id \notin SchemaId THEN {Reject("schema-id-format")}
      ELSE {outcome(p[1], p[2]) : p \in FromString(e.ver) \X DocumentIdFromString(e.doc)}

\* A problem of the element at a position, and its unknown fields. Of what is
\* not an object no field is looked at.
Problems(node, outcome, at) ==
  (IF outcome.code = "none" THEN {} ELSE {Diagnostic(outcome.code, at)})
    \cup (IF node.extra /\ node.shape # "other" THEN {Malformed(at)} ELSE {})

\* SchemaCatalogBuilder.
add_entry(b, e) == [entries |-> Append(b.entries, e), rules |-> b.rules]
add_rule(b, r)  == [entries |-> b.entries, rules |-> Append(b.rules, r)]

\* Mutant of ReadEntry: the loop stops at the first entry it rejects.
ReadEntry_StopsAtReject ==
  /\ pc = "entry" /\ element <= Len(root.entries)
  /\ \E o \in EntryOutcomes(root.entries[element]) :
       /\ Report(Problems(root.entries[element], o, At("entry", element)))
       /\ builder' = IF o.code = "none" THEN add_entry(builder, o.value) ELSE builder
       /\ element' = IF o.code = "none" THEN element + 1 ELSE Len(root.entries) + 1
  /\ UNCHANGED <<root, pc, loaded>>

ReadEntry ==
  /\ pc = "entry" /\ element <= Len(root.entries)
  /\ \E o \in EntryOutcomes(root.entries[element]) :
       /\ Report(Problems(root.entries[element], o, At("entry", element)))
       /\ builder' = IF o.code = "none" THEN add_entry(builder, o.value) ELSE builder
  /\ element' = element + 1
  /\ UNCHANGED <<root, pc, loaded>>

-----------------------------------------------------------------------------
(***************************************************************************)
(* Rules: an optional array.                                               *)
(***************************************************************************)
OpenRules ==
  /\ pc = "entry" /\ element > Len(root.entries)
  /\ Report(IF root.rulesKind = "other" THEN {Malformed(At("rules", 0))} ELSE {})
  /\ pc' = IF root.rulesKind = "array" THEN "rule" ELSE "build"
  /\ element' = 1
  /\ UNCHANGED <<root, builder, loaded>>

\* The members of a braced initializer are evaluated in order: from, to, kind.
RuleOutcomes(r) ==
  LET code(result) == IF result = "out_of_range" THEN "schema-version-out-of-range"
                      ELSE "malformed-catalog-json"
      outcome(f, t) ==
        CASE f.result # "ok" -> Reject(code(f.result))
          [] f.result = "ok" /\ t.result # "ok" -> Reject(code(t.result))
          [] f.result = "ok" /\ t.result = "ok" /\ r.kind = "unknown" ->
               Reject("malformed-catalog-json")
          [] OTHER -> Accept([from |-> f.value, to |-> t.value, kind |-> r.kind])
  IN  IF r.shape # "strings" THEN {Reject("malformed-catalog-json")}
      ELSE {outcome(p[1], p[2]) : p \in DocumentIdFromString(r.from) \X DocumentIdFromString(r.to)}

\* Mutant of ReadRule: an overflow in a rule is swallowed with the rule.
ReadRule_OverflowIgnored ==
  /\ pc = "rule" /\ element <= Len(root.rules)
  /\ \E o \in RuleOutcomes(root.rules[element]) :
       /\ Report(IF o.code = "schema-version-out-of-range" THEN {}
                 ELSE Problems(root.rules[element], o, At("rule", element)))
       /\ builder' = IF o.code = "none" THEN add_rule(builder, o.value) ELSE builder
  /\ element' = element + 1
  /\ UNCHANGED <<root, pc, loaded>>

ReadRule ==
  /\ pc = "rule" /\ element <= Len(root.rules)
  /\ \E o \in RuleOutcomes(root.rules[element]) :
       /\ Report(Problems(root.rules[element], o, At("rule", element)))
       /\ builder' = IF o.code = "none" THEN add_rule(builder, o.value) ELSE builder
  /\ element' = element + 1
  /\ UNCHANGED <<root, pc, loaded>>

\* Mutant of FinishLoad: what could be read is built in spite of problems.
FinishLoad_Partial ==
  /\ pc = "build" \/ (pc = "rule" /\ element > Len(root.rules))
  /\ \E c \in Build(builder.entries, builder.rules) : loaded' = <<c>>
  /\ pc' = "done"
  /\ UNCHANGED <<root, element, diagnostics, builder>>

\* No catalog is built with parse problems.
FinishLoad ==
  /\ pc = "build" \/ (pc = "rule" /\ element > Len(root.rules))
  /\ IF diagnostics = {} THEN \E c \in Build(builder.entries, builder.rules) : loaded' = <<c>>
     ELSE UNCHANGED loaded
  /\ pc' = "done"
  /\ UNCHANGED <<root, element, diagnostics, builder>>

LoaderNext ==
  \/ ReadRoot \/ ReadHeader
  \/ OpenEntries \/ ReadEntry
  \/ OpenRules \/ ReadRule
  \/ FinishLoad

LoaderSpec == LoaderInit /\ [][LoaderNext]_loader

-----------------------------------------------------------------------------
LoaderTypeOK ==
  /\ root \in JsonDocument
  /\ pc \in {"root", "header", "entries", "entry", "rule", "build", "done"}
  /\ element \in Nat
  /\ builder \in Catalog
  /\ loaded = <<>> \/ (Len(loaded) = 1 /\ loaded[1] \in Catalog)

\* What a document says, stated without the stages of the loader.
SaysEntry(e, entry) ==
  /\ e.shape = "strings" /\ ~e.extra /\ e.status = "known"
  /\ entry.id = e.id /\ entry.doc.id = e.doc.id /\ entry.path = e.path
  /\ e.ver = VersionText(entry.ver) /\ e.doc.ver = VersionText(entry.doc.ver)

SaysRule(r, rule) ==
  /\ r.shape = "strings" /\ ~r.extra /\ r.kind = rule.kind
  /\ r.from.id = rule.from.id /\ r.from.ver = VersionText(rule.from.ver)
  /\ r.to.id = rule.to.id     /\ r.to.ver = VersionText(rule.to.ver)

\* The catalog that was built holds exactly what the document lists: as many
\* entries and rules, each of them said by the document and each element of
\* the document in it. Nothing is dropped, merged, normalised or invented.
CatalogIsTheDocument ==
  loaded # <<>> =>
    LET c == loaded[1]
        listed == IF root.rulesKind = "array" THEN root.rules ELSE <<>>
    IN  /\ root.root = "object" /\ root.binding = "exact" /\ ~root.extra
        /\ Len(c.entries) = Len(root.entries) /\ Len(c.rules) = Len(listed)
        /\ \A k \in DOMAIN root.entries :
             \E e \in DOMAIN c.entries : SaysEntry(root.entries[k], c.entries[e])
        /\ \A e \in DOMAIN c.entries :
             \E k \in DOMAIN root.entries : SaysEntry(root.entries[k], c.entries[e])
        /\ \A k \in DOMAIN listed :
             \E r \in DOMAIN c.rules : SaysRule(listed[k], c.rules[r])
        /\ \A r \in DOMAIN c.rules :
             \E k \in DOMAIN listed : SaysRule(listed[k], c.rules[r])

\* "The catalog parser is strict": a problem anywhere, also in one entry or rule,
\* rejects the catalog, and "no catalog is returned" (docs/schema-foundation-notes.md:119-127,
\* schema_foundation.cpp:837), so a caller may test either. The comment in the header
\* says otherwise, see CatalogAbsentOnlyIfRootUnusable.
CatalogOrDiagnostics ==
  pc = "done" => (loaded = <<>> <=> diagnostics # {})

\* The loader returns a catalog or diagnostics, and the catalog says what the
\* document says, nothing less and nothing else, however many elements were
\* good or bad (SchemaCatalog::from_json).
LoaderIsFaithful == LoaderTypeOK /\ CatalogOrDiagnostics /\ CatalogIsTheDocument

\* Which elements are as they should be, stated without the order of the tests.
SoundDoc(d) == d.id \in SchemaId /\ d.ver \in PrintedVersions
SoundEntry(e) ==
  /\ e.shape = "strings" /\ ~e.extra /\ e.status = "known"
  /\ e.id \in SchemaId /\ e.ver \in PrintedVersions /\ SoundDoc(e.doc)
SoundRule(r) ==
  r.shape = "strings" /\ ~r.extra /\ r.kind \in Kinds /\ SoundDoc(r.from) /\ SoundDoc(r.to)

Faulty(at) == \E d \in diagnostics : d.at = at

\* One pass reports every faulty element, and no other: a reader of the
\* diagnostics can repair all entries and rules at once, once the header is
\* sound and there are entries (the continue statements of from_json).
EveryFaultIsReported ==
  pc = "done" /\ ~Faulty(Header) /\ ~Faulty(At("entries", 0)) =>
    /\ \A k \in DOMAIN root.entries : Faulty(At("entry", k)) <=> ~SoundEntry(root.entries[k])
    /\ root.rulesKind = "array" =>
         \A k \in DOMAIN root.rules : Faulty(At("rule", k)) <=> ~SoundRule(root.rules[k])

\* "Parse problems surface as diagnostics (catalog absent only when the root is
\* unusable)" (schema_foundation.h:318-319). In the widest reading the root is
\* unusable when it is not an object, its header is not in order or it lists no
\* entries: in every other document a bad entry or rule would be reported beside a
\* catalog of the good ones. The code returns no catalog (schema_foundation.cpp:837).
CatalogAbsentOnlyIfRootUnusable ==
  pc = "done" /\ ~Faulty(Header) /\ ~Faulty(At("entries", 0)) => loaded # <<>>
=============================================================================
