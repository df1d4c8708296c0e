---------------------------- MODULE CatalogFiles -----------------------------
(***************************************************************************)
(* validate_catalog_files of core/score/schema_foundation.cpp: for every   *)
(* entry of a catalog, in order, the path policy, the resolution of the    *)
(* path, the containment test, the file, and what the file says.           *)
(*                                                                         *)
(* The file system is the environment: disk says where a path leads, which *)
(* need not be where it points (links), and what is there. A call into it  *)
(* may fail at any time. A location is a sequence of components, Root the  *)
(* one of the repository.                                                  *)
(***************************************************************************)
EXTENDS SchemaCatalog

CONSTANTS
  Catalogs,        \* the catalogs that are validated
  Targets,         \* what a path may lead to: [at, state, node]
  Root,            \* the location of the repository
  FailingCalls,    \* the calls into the file system that may fail
  CollectRefs(_)   \* collect_refs: the strings under "$ref" in a JSON value

ASSUME CatalogsAssumption == Catalogs \subseteq Catalog
ASSUME RootAssumption == Root \in Seq(STRING) /\ Root # <<>>
ASSUME CallsAssumption == FailingCalls \subseteq {"root", "target", "exists", "open"}

\* The reader of JSON refuses an object that has a member twice.
HasNoMemberTwice(node) ==
  node.kind = "object" =>
    /\ DOMAIN node.object = 1..Len(node.object)
    /\ \A k, l \in DOMAIN node.object :
      /\ node.object[k] = [key |-> node.object[k].key, value |-> node.object[k].value]
      /\ node.object[k].key = node.object[l].key => k = l

ASSUME TargetsAssumption ==
  \A t \in Targets : /\ t.at \in Seq(STRING)
                     /\ t.state \in {"json", "missing", "malformed"}
                     /\ HasNoMemberTwice(t.node)

\* JSON values, with the strings that matter told apart.
DocName(d) == [is |-> "document", doc |-> d]
VerText(v) == [is |-> "version", ver |-> v]
Dialect    == [is |-> "dialect"]
Str(s)     == [kind |-> "string", string |-> s]
Arr(vs)    == [kind |-> "array", array |-> vs]
Obj(ms)    == [kind |-> "object", object |-> ms]
Null       == [kind |-> "null"]

VARIABLES
  catalog, disk,
  i,               \* the entry being validated
  test,            \* the test that is next
  root_canon,      \* the canonical root, <<>> if it could not be had
  full_canon,      \* the canonical path of the file
  diags,           \* diagnostics: [code, at], at the index of the entry
  opened,          \* the entries whose files were read
  failed           \* the calls that failed: [entry, call]

files == <<catalog, disk, i, test, root_canon, full_canon, diags, opened, failed>>

Current == catalog.entries[i]
Target == disk[Current.path]

FilesInit ==
  /\ catalog \in Catalogs
  /\ disk \in [{catalog.entries[k].path : k \in DOMAIN catalog.entries} -> Targets]
  /\ i = 1 /\ test = IF catalog.entries = <<>> THEN "done" ELSE "policy"
  /\ root_canon = <<>> /\ full_canon = <<>>
  /\ diags = {} /\ opened = {} /\ failed = {}

-----------------------------------------------------------------------------
ReportCodes(codes) == diags' = diags \cup {Diagnostic(c, i) : c \in codes}

\* On to the next entry.
Continue ==
  /\ i' = i + 1
  /\ test' = IF i = Len(catalog.entries) THEN "done" ELSE "policy"

PolicyCodes(path) ==
  IF IsAbsolutePath(path) THEN {"absolute-schema-path"}
  ELSE IF path.backslash \/ HasTraversal(path) THEN {"path-traversal"}
  ELSE {}

CheckPolicy ==
  /\ test = "policy"
  /\ ReportCodes(PolicyCodes(Current.path))
  /\ IF PolicyCodes(Current.path) = {} THEN test' = "resolve" /\ UNCHANGED i ELSE Continue
  /\ UNCHANGED <<catalog, disk, root_canon, full_canon, opened, failed>>

Outcomes(call) == IF call \in FailingCalls THEN {TRUE, FALSE} ELSE {TRUE}

Failing(calls) == failed' = failed \cup {[entry |-> i, call |-> c] : c \in calls}

\* Three calls share one error_code: absolute and weakly_canonical of the root,
\* then weakly_canonical of the target. Each call sets it anew and it is
\* tested once, at the end. When the root could not be had it is empty.
Resolve ==
  /\ test = "resolve"
  /\ \E rootOk \in Outcomes("root"), targetOk \in Outcomes("target") :
       /\ root_canon' = IF rootOk THEN Root ELSE <<>>
       /\ full_canon' = IF targetOk THEN Target.at ELSE <<>>
       /\ ReportCodes(IF targetOk THEN {} ELSE {"path-traversal"})
       /\ Failing((IF rootOk THEN {} ELSE {"root"}) \cup (IF targetOk THEN {} ELSE {"target"}))
       /\ IF targetOk THEN test' = "contain" /\ UNCHANGED i ELSE Continue
  /\ UNCHANGED <<catalog, disk, opened>>

\* Mutant of Within: the locations only have to agree where both have components.
Within_Overlap(root, full) ==
  \A k \in DOMAIN root \cap DOMAIN full : full[k] = root[k]

\* The loop over the components of the root.
Within(root, full) ==
  \A k \in DOMAIN root : k \in DOMAIN full /\ full[k] = root[k]

Contain ==
  /\ test = "contain"
  /\ ReportCodes(IF Within(root_canon, full_canon) THEN {} ELSE {"path-traversal"})
  /\ IF Within(root_canon, full_canon) THEN test' = "open" /\ UNCHANGED i ELSE Continue
  /\ UNCHANGED <<catalog, disk, root_canon, full_canon, opened, failed>>

\* exists is the overload that throws: the diagnostics go with the exception.
Throw ==
  /\ test = "open" /\ "exists" \in FailingCalls
  /\ test' = "threw"
  /\ diags' = {}
  /\ Failing({"exists"})
  /\ UNCHANGED <<catalog, disk, i, root_canon, full_canon, opened>>

\* Mutant of Open: a file that cannot be opened is resolved and tried again.
Open_Retries ==
  /\ test = "open"
  /\ \E openOk \in Outcomes("open") :
       LET readable == Target.state # "missing" /\ openOk
       IN  /\ UNCHANGED <<i, diags>>
           /\ opened' = IF readable THEN opened \cup {i} ELSE opened
           /\ Failing(IF openOk THEN {} ELSE {"open"})
           /\ test' = IF readable THEN "read" ELSE "resolve"
  /\ UNCHANGED <<catalog, disk, root_canon, full_canon>>

Open ==
  /\ test = "open"
  /\ \E openOk \in Outcomes("open") :
       LET readable == Target.state # "missing" /\ openOk
       IN  /\ ReportCodes(IF readable THEN {} ELSE {"missing-schema-file"})
           /\ opened' = IF readable THEN opened \cup {i} ELSE opened
           /\ Failing(IF openOk THEN {} ELSE {"open"})
           /\ IF readable THEN test' = "read" /\ UNCHANGED i ELSE Continue
  /\ UNCHANGED <<catalog, disk, root_canon, full_canon>>

-----------------------------------------------------------------------------
\* JsonNode::find: what the first member of that name holds, if any does.
Find(node, key) ==
  LET named == {k \in DOMAIN node.object : node.object[k].key = key}
  IN  IF node.kind # "object" THEN {}
      ELSE {node.object[k].value : k \in {m \in named : \A l \in named : m <= l}}

\* Mutant of RegisteredTexts: the list is filled while the entries are validated.
RegisteredTexts_SoFar == {DocName(catalog.entries[k].doc) : k \in 1..i}

RegisteredTexts == {DocName(catalog.entries[k].doc) : k \in DOMAIN catalog.entries}

NodeCodes(node) ==
  UNION { IF Find(node, "$id") = {Str(DocName(Current.doc))} THEN {} ELSE {"on-disk-id-mismatch"},
          IF Find(node, "version") = {Str(VerText(Current.ver))} THEN {} ELSE {"on-disk-version-mismatch"},
          IF CollectRefs(node) \subseteq RegisteredTexts \cup {Dialect} THEN {} ELSE {"unregistered-ref"} }

\* Mutant of ReadFile: a malformed file ends the validation.
ReadFile_Return ==
  /\ test = "read"
  /\ ReportCodes(IF Target.state = "malformed" THEN {"malformed-catalog-json"}
                 ELSE NodeCodes(Target.node))
  /\ IF Target.state = "malformed" THEN test' = "done" /\ UNCHANGED i ELSE Continue
  /\ UNCHANGED <<catalog, disk, root_canon, full_canon, opened, failed>>

ReadFile ==
  /\ test = "read"
  /\ ReportCodes(IF Target.state = "malformed" THEN {"malformed-catalog-json"}
                 ELSE NodeCodes(Target.node))
  /\ Continue
  /\ UNCHANGED <<catalog, disk, root_canon, full_canon, opened, failed>>

FilesNext == CheckPolicy \/ Resolve \/ Contain \/ Throw \/ Open \/ ReadFile

FilesSpec == FilesInit /\ [][FilesNext]_files /\ WF_files(FilesNext)

-----------------------------------------------------------------------------
(***************************************************************************)
(* What an entry and its file should be like, whatever the tests and the   *)
(* order in which they are made.                                           *)
(***************************************************************************)
TargetOf(k) == disk[catalog.entries[k].path]

\* No file that is tried nests deeper than this.
MaxDepth == 6

\* What a file refers to: the values of "$ref" in any part of it.
Refs(node) ==
  LET inside(n) == CASE n.kind = "object" -> {n.object[k].value : k \in DOMAIN n.object}
                     [] n.kind = "array"  -> {n.array[k] : k \in DOMAIN n.array}
                     [] OTHER -> {}
      parts[d \in 0..MaxDepth] ==
        IF d = 0 THEN {node} ELSE parts[d - 1] \cup UNION {inside(n) : n \in parts[d - 1]}
      objects == {n \in parts[MaxDepth] : n.kind = "object"}
      members == UNION {{n.object[k] : k \in DOMAIN n.object} : n \in objects}
  IN  {m.value.string : m \in {x \in members : x.key = "$ref" /\ x.value.kind = "string"}}

\* CollectRefs finds in every file what there is.
CollectIsExact == \A t \in Targets : CollectRefs(t.node) = Refs(t.node)

DocNames == {DocName(catalog.entries[k].doc) : k \in DOMAIN catalog.entries}

Sound(k) ==
  LET e == catalog.entries[k]
      t == TargetOf(k)
      says(key, text) == \E m \in DOMAIN t.node.object :
                           t.node.object[m] = [key |-> key, value |-> Str(text)]
  IN  /\ ~e.path.rooted /\ ~e.path.backslash
      /\ ".." \notin {e.path.segs[m] : m \in DOMAIN e.path.segs}
      /\ Len(t.at) >= Len(Root) /\ SubSeq(t.at, 1, Len(Root)) = Root
      /\ t.state = "json" /\ t.node.kind = "object"
      /\ says("$id", DocName(e.doc)) /\ says("version", VerText(e.ver))
      /\ \A ref \in Refs(t.node) : ref \in DocNames \cup {Dialect}

Reported(k) == \E d \in diags : d.at = k

RootResolved(k) == [entry |-> k, call |-> "root"] \notin failed

\* An entry with a fault, of whatever kind and whatever the faults of the
\* entries before it, has a diagnostic of its own once it has been validated,
\* also when calls into the file system fail, unless it is the root that could
\* not be resolved (the continue statements of validate_catalog_files).
UnsoundEntriesAreReported ==
  test # "threw" =>
    \A k \in DOMAIN catalog.entries :
      RootResolved(k) /\ (k < i \/ test = "done") => Sound(k) \/ Reported(k)

\* When no call fails the verdict is exact: the entries with a fault are
\* reported, and no others are.
VerdictIsExact ==
  test = "done" /\ failed = {} => \A k \in DOMAIN catalog.entries : Reported(k) <=> ~Sound(k)

\* Where the validation of an entry has come to, and what is noted of it: nothing
\* is, unless it is over, but the calls that failed and that its file was read.
TestsInOrder ==
  /\ test \in {"policy", "resolve", "contain", "open", "read", "threw", "done"}
  /\ i \in 1..(Len(catalog.entries) + 1) /\ (test = "done" <=> i = Len(catalog.entries) + 1)
  /\ \A d \in diags : d.at \in 1..(i - 1)
  /\ \A f \in failed : f.entry \in 1..i
                      /\ (f.entry = i => test \in {"contain", "open", "read", "threw"})
  /\ \A k \in opened : k \in 1..i /\ (k = i => test = "read")
  /\ test \in {"resolve", "contain", "open", "read"} => PolicyCodes(Current.path) = {}
  /\ test \in {"contain", "open", "read"} =>
       /\ full_canon = Target.at
       /\ root_canon = IF RootResolved(i) THEN Root ELSE <<>>
  /\ test \in {"open", "read"} => Within(root_canon, full_canon)
  /\ test = "read" => Target.state # "missing"

\* No fault is overlooked whatever fails, and none is invented when nothing does
\* (validate_catalog_files).
FaultsAreReported == TestsInOrder /\ UnsoundEntriesAreReported /\ VerdictIsExact

\* Where the links in the repository lead out of it, no file is read, provided
\* the root was resolved (the containment test by path components).
LinksOutsideAreNotRead ==
  \A k \in opened : RootResolved(k) => Len(TargetOf(k).at) >= Len(Root)
                                       /\ SubSeq(TargetOf(k).at, 1, Len(Root)) = Root

\* No file outside the repository is read: containment is enforced "BEFORE any
\* file I/O" (schema-foundation-notes.md). Not when resolving the root fails.
ReadsStayInsideRoot ==
  \A k \in opened : Len(TargetOf(k).at) >= Len(Root)
                    /\ SubSeq(TargetOf(k).at, 1, Len(Root)) = Root

\* The two validations together: when neither has anything to say about a
\* catalog and its files, every reference in every file names the dialect or
\* exactly one entry, and the file of that entry is in the repository and
\* calls itself by that name (validate_catalog and validate_catalog_files).
AcceptedRepositoryIsClosed ==
  /\ test = "done" /\ diags = {}
  /\ \A k \in DOMAIN catalog.entries : RootResolved(k)
  /\ DuplicateDiagnostics(catalog.entries) = {} /\ EntryDiagnostics(catalog.entries) = {}
  /\ RuleDiagnostics(catalog.entries, catalog.rules) = {}
  =>
    \A k \in DOMAIN catalog.entries : \A ref \in Refs(TargetOf(k).node) \ {Dialect} :
      \E m \in DOMAIN catalog.entries :
        /\ \A l \in DOMAIN catalog.entries : DocName(catalog.entries[l].doc) = ref <=> l = m
        /\ Within(Root, TargetOf(m).at)
        /\ Find(TargetOf(m).node, "$id") = {Str(ref)}

\* Validation comes to an end, with its diagnostics or with an exception.
Terminates == <>(test \in {"done", "threw"})
=============================================================================
