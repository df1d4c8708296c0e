---------------------------- MODULE SchemaCatalog ----------------------------
(***************************************************************************)
(* The declarative schema registry of core/score/schema_foundation: the    *)
(* builder's sort, structural validation, exact lookup, raw-version        *)
(* inspection and the compatibility query. All of it is pure; the modules  *)
(* CatalogRegistry, CatalogLoader and MigrationPlanner give it state.      *)
(***************************************************************************)
EXTENDS SchemaVersion

CONSTANTS
  SchemaId,           \* format families, canonical by construction
  Versions,           \* the versions that occur in documents and queries
  IdTextLess(_, _),   \* byte order of two SchemaId texts
  DocTextLess(_, _)   \* byte order of two SchemaDocumentId texts

DocumentId == [id : SchemaId, ver : Versions]

StrictTotalOrderOn(S, Less(_, _)) ==
  /\ \A a, b \in S : a # b => (Less(a, b) <=> ~Less(b, a))
  /\ \A a, b, c \in S : Less(a, b) /\ Less(b, c) => Less(a, c)
  /\ \A a \in S : ~Less(a, a)

ASSUME VersionsAssumption == Versions \subseteq Version
ASSUME TextOrderAssumption ==
  /\ StrictTotalOrderOn(SchemaId, IdTextLess)
  /\ StrictTotalOrderOn(DocumentId, DocTextLess)

\* A repo-relative path: rooted when it starts with a separator or a drive
\* letter, backslash when it contains one, segs its segments.
Path  == [rooted : BOOLEAN, backslash : BOOLEAN, segs : Seq(STRING)]
Kinds == {"readable", "migration"}
Entry == [id : SchemaId, ver : Versions, doc : DocumentId, path : Path]
Rule  == [from : DocumentId, to : DocumentId, kind : Kinds]
Catalog == [entries : Seq(Entry), rules : Seq(Rule)]

IsAbsolutePath(p) == p.rooted
HasTraversal(p)   == \E i \in DOMAIN p.segs : p.segs[i] = ".."

-----------------------------------------------------------------------------
(***************************************************************************)
(* SchemaCatalogBuilder::build sorts entries and rules with std::sort,     *)
(* which is not stable: elements equal under the comparison may come out   *)
(* in any order, so build is a set of catalogs.                            *)
(***************************************************************************)
\* Mutant of EntryLess: the version is left out of the key.
EntryLess_IdOnly(a, b) == IdTextLess(a.id, b.id)

EntryLess(a, b) ==
  \/ a.id # b.id /\ IdTextLess(a.id, b.id)
  \/ a.id = b.id /\ VersionLess(a.ver, b.ver)

RuleLess(a, b) ==
  \/ a.from # b.from /\ DocTextLess(a.from, b.from)
  \/ a.from = b.from /\ a.to # b.to /\ DocTextLess(a.to, b.to)
  \/ a.from = b.from /\ a.to = b.to /\ a.kind = "readable" /\ b.kind = "migration"

SortedArrangements(s, Less(_, _)) ==
  LET arrangement(p) == [i \in DOMAIN s |-> s[p[i]]]
      Permutation == {p \in [DOMAIN s -> DOMAIN s] :
                        \A i, j \in DOMAIN s : i # j => p[i] # p[j]}
  IN  {arrangement(p) : p \in {q \in Permutation :
         \A i, j \in DOMAIN s : i < j => ~Less(s[q[j]], s[q[i]])}}

Build(entries, rules) ==
  [entries : SortedArrangements(entries, EntryLess),
   rules   : SortedArrangements(rules, RuleLess)]

-----------------------------------------------------------------------------
(***************************************************************************)
(* validate_catalog: the diagnostics, each with the position it is about.  *)
(***************************************************************************)
Diagnostic(code, at) == [code |-> code, at |-> at]

\* Mutant of Pairs: only neighbours in the sorted order are compared.
Pairs_Neighbours(s) == {p \in (DOMAIN s) \X (DOMAIN s) : p[2] = p[1] + 1}

Pairs(s) == {p \in (DOMAIN s) \X (DOMAIN s) : p[1] < p[2]}

DuplicateDiagnostics(es) ==
  UNION {   {Diagnostic("duplicate-schema-entry", p) : p \in
               {q \in Pairs(es) : /\ es[q[1]].id = es[q[2]].id
                                  /\ es[q[1]].ver = es[q[2]].ver}},
            {Diagnostic("duplicate-document-id", p) : p \in
               {q \in Pairs(es) : es[q[1]].doc = es[q[2]].doc}},
            {Diagnostic("duplicate-schema-path", p) : p \in
               {q \in Pairs(es) : es[q[1]].path = es[q[2]].path}} }

\* Mutant of EntryDiagnostics: the version inside documentId is not compared.
EntryDiagnostics_VersionUnchecked(es) ==
  UNION {   {Diagnostic("document-id-schema-id-mismatch", i) : i \in
               {k \in DOMAIN es : es[k].doc.id # es[k].id}},
            {Diagnostic("absolute-schema-path", i) : i \in
               {k \in DOMAIN es : IsAbsolutePath(es[k].path)}},
            {Diagnostic("path-traversal", i) : i \in
               {k \in DOMAIN es : HasTraversal(es[k].path) \/ es[k].path.backslash}} }

EntryDiagnostics(es) ==
  UNION {   {Diagnostic("document-id-schema-id-mismatch", i) : i \in
               {k \in DOMAIN es : es[k].doc.id # es[k].id}},
            {Diagnostic("document-id-version-mismatch", i) : i \in
               {k \in DOMAIN es : es[k].doc.ver # es[k].ver}},
            {Diagnostic("absolute-schema-path", i) : i \in
               {k \in DOMAIN es : IsAbsolutePath(es[k].path)}},
            {Diagnostic("path-traversal", i) : i \in
               {k \in DOMAIN es : HasTraversal(es[k].path) \/ es[k].path.backslash}} }

\* The document ids rules may name: those of the entries' documentId field.
Registered(es) == {es[i].doc : i \in DOMAIN es}

\* Mutant of RuleDiagnostics: only exact duplicates are reported.
RuleDiagnostics_ConflictsAllowed(es, rs) ==
  UNION {   {Diagnostic("cross-schema-edge", i) : i \in
               {k \in DOMAIN rs : rs[k].from.id # rs[k].to.id}},
            {Diagnostic("rule-target-unknown", i) : i \in
               {k \in DOMAIN rs : ~({rs[k].from, rs[k].to} \subseteq Registered(es))}},
            {Diagnostic("duplicate-rule", p) : p \in
               {q \in Pairs(rs) : rs[q[1]] = rs[q[2]]}} }

RuleDiagnostics(es, rs) ==
  UNION {   {Diagnostic("cross-schema-edge", i) : i \in
               {k \in DOMAIN rs : rs[k].from.id # rs[k].to.id}},
            {Diagnostic("rule-target-unknown", i) : i \in
               {k \in DOMAIN rs : ~({rs[k].from, rs[k].to} \subseteq Registered(es))}},
            {Diagnostic("duplicate-rule", p) : p \in
               {q \in Pairs(rs) : rs[q[1]] = rs[q[2]]}},
            {Diagnostic("conflicting-rule", p) : p \in
               {q \in Pairs(rs) : /\ rs[q[1]].from = rs[q[2]].from
                                  /\ rs[q[1]].to = rs[q[2]].to
                                  /\ rs[q[1]].kind # rs[q[2]].kind}} }

ValidateCatalog(c) ==
  UNION { DuplicateDiagnostics(c.entries),
          EntryDiagnostics(c.entries),
          RuleDiagnostics(c.entries, c.rules) }

Valid(c) == ValidateCatalog(c) = {}

-----------------------------------------------------------------------------
(***************************************************************************)
(* lookup_schema: exact tuple, the first match in entry order; otherwise   *)
(* the newest version seen for the id decides which diagnostic is given.   *)
(***************************************************************************)
NoEntry == [id |-> "none"]

\* The running max_version after the first i entries; it starts at 0.0.0.
MaxVersion(es, id) ==
  LET m[i \in 0..Len(es)] ==
        IF i = 0 THEN <<0, 0, 0>>
        ELSE IF es[i].id = id /\ VersionLess(m[i - 1], es[i].ver)
             THEN es[i].ver ELSE m[i - 1]
  IN  m[Len(es)]

Found(e)      == [found |-> TRUE, entry |-> e, code |-> "none"]
NotFound(why) == [found |-> FALSE, entry |-> NoEntry, code |-> why]

\* Mutant of LookupSchema: the comparison with the newest version is not
\* strict on the other side.
LookupSchema_FutureSwapped(es, id, ver) ==
  LET matches == {i \in DOMAIN es : es[i].id = id /\ es[i].ver = ver}
  IN  IF matches # {} THEN Found(es[CHOOSE i \in matches : \A j \in matches : i <= j])
      ELSE IF \A i \in DOMAIN es : es[i].id # id THEN NotFound("unknown-schema")
      ELSE IF VersionLess(ver, MaxVersion(es, id))
           THEN NotFound("unsupported-future-version")
           ELSE NotFound("unknown-schema-version")

LookupSchema(es, id, ver) ==
  LET matches == {i \in DOMAIN es : es[i].id = id /\ es[i].ver = ver}
  IN  IF matches # {} THEN Found(es[CHOOSE i \in matches : \A j \in matches : i <= j])
      ELSE IF \A i \in DOMAIN es : es[i].id # id THEN NotFound("unknown-schema")
      ELSE IF VersionLess(MaxVersion(es, id), ver)
           THEN NotFound("unsupported-future-version")
           ELSE NotFound("unknown-schema-version")

\* Mutant of InspectSchemaVersion: one handler catches both parser exceptions.
InspectSchemaVersion_OneHandler(es, id, raw) ==
  IF raw = <<>> THEN {NotFound("missing-schema-version")}
  ELSE {IF o.result = "ok" THEN LookupSchema(es, id, o.value)
        ELSE NotFound("malformed-schema-version") : o \in FromString(raw[1])}

\* inspect_schema_version: no text, a text the parser refuses, or a lookup.
\* A set, because FromString is one.
InspectSchemaVersion(es, id, raw) ==
  IF raw = <<>> THEN {NotFound("missing-schema-version")}
  ELSE {CASE o.result = "invalid_argument" -> NotFound("malformed-schema-version")
          [] o.result = "out_of_range" -> NotFound("schema-version-out-of-range")
          [] OTHER -> LookupSchema(es, id, o.value) : o \in FromString(raw[1])}

-----------------------------------------------------------------------------
(***************************************************************************)
(* schema_compatibility: gated on validation, then exact equality, then    *)
(* the first rule that declares the direction; nothing is inferred.        *)
(***************************************************************************)
Answer(value, codes) == [value |-> value, codes |-> codes]
Codes(ds) == {d.code : d \in ds}

SchemaCompatibility(c, id, from, to) ==
  LET f == LookupSchema(c.entries, id, from)
      t == LookupSchema(c.entries, id, to)
      matches == {i \in DOMAIN c.rules :
                    /\ c.rules[i].from = [id |-> id, ver |-> from]
                    /\ c.rules[i].to   = [id |-> id, ver |-> to]}
      first == c.rules[CHOOSE i \in matches : \A j \in matches : i <= j]
  IN  IF ~Valid(c) THEN Answer("unsupported", Codes(ValidateCatalog(c)))
      ELSE IF ~f.found \/ ~t.found
           THEN Answer("unsupported", {f.code, t.code} \ {"none"})
      ELSE IF from = to THEN Answer("exact", {})
      ELSE IF matches = {} THEN Answer("unsupported", {"unsupported-direction"})
      ELSE IF first.kind = "readable" THEN Answer("readable", {})
           ELSE Answer("requires-migration", {})
=============================================================================
