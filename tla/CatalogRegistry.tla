--------------------------- MODULE CatalogRegistry ---------------------------
(***************************************************************************)
(* A client of SchemaCatalogBuilder: entries and rules are added in any    *)
(* order, valid or not, and build() may be called at any time and again.   *)
(* The catalog it returns is an immutable snapshot, so the builder can     *)
(* move on while queries are put to an older catalog.                      *)
(***************************************************************************)
EXTENDS SchemaCatalog

CONSTANTS
  Entries,        \* the entries a client may add
  Rules,          \* the rules a client may add
  MaxEntries,     \* bound on add_entry calls
  MaxRules        \* bound on add_rule calls

ASSUME PoolsAssumption ==
  /\ Entries \subseteq Entry /\ Rules \subseteq Rule
  /\ MaxEntries \in Nat /\ MaxRules \in Nat

VARIABLES
  entries,        \* SchemaCatalogBuilder::entries_
  rules,          \* SchemaCatalogBuilder::rules_
  built           \* the catalog last built

vars == <<entries, rules, built>>

Init ==
  /\ entries = <<>>
  /\ rules = <<>>
  /\ built = [entries |-> <<>>, rules |-> <<>>]

AddEntry(e) ==
  /\ Len(entries) < MaxEntries
  /\ entries' = Append(entries, e)
  /\ UNCHANGED <<rules, built>>

AddRule(r) ==
  /\ Len(rules) < MaxRules
  /\ rules' = Append(rules, r)
  /\ UNCHANGED <<entries, built>>

\* Mutant of BuildCatalog: build hands its lists over, and the builder is empty.
BuildCatalog_HandsOver ==
  /\ built' \in Build(entries, rules)
  /\ entries' = <<>> /\ rules' = <<>>

BuildCatalog ==
  /\ built' \in Build(entries, rules)
  /\ UNCHANGED <<entries, rules>>

Next ==
  \/ \E e \in Entries : AddEntry(e)
  \/ \E r \in Rules : AddRule(r)
  \/ BuildCatalog

Spec == Init /\ [][Next]_vars

TypeOK ==
  /\ entries \in Seq(Entries) /\ Len(entries) <= MaxEntries
  /\ rules \in Seq(Rules) /\ Len(rules) <= MaxRules
  /\ built \in Catalog

-----------------------------------------------------------------------------
\* "Deterministic iteration/order" (docs/schema-foundation-notes.md, section 2)
\* although std::sort is unstable and rules and entries arrive in any order:
\* if one catalog that could be built from the builder's content is valid, it
\* is the only one that can be built.
BuildIsDeterministicWhenValid ==
  \A c, d \in Build(entries, rules) : Valid(c) => c = d

\* Whichever arrangement std::sort leaves equal elements in, structural
\* validation reports the same codes (validate_catalog).
VerdictIgnoresSortOrder ==
  \A c, d \in Build(entries, rules) : Codes(ValidateCatalog(c)) = Codes(ValidateCatalog(d))

\* validate_catalog checks rule endpoints against documentId texts, while
\* compatibility and planning look documents up by (schemaId, schemaVersion):
\* in a valid catalog the two registries agree, so no accepted rule leads to a
\* document that lookup_schema does not find.
RuleEndpointsResolve ==
  Valid(built) =>
    \A i \in DOMAIN built.rules :
      \A d \in {built.rules[i].from, built.rules[i].to} :
        /\ LookupSchema(built.entries, d.id, d.ver).found
        /\ LookupSchema(built.entries, d.id, d.ver).entry.doc = d

\* lookup_schema keeps its three failures apart: unknown id, a version newer
\* than every registered one of that id (even if other ids have newer ones),
\* and an older or intermediate version that is not registered.
LookupClassifies ==
  \A id \in SchemaId, ver \in Versions :
    LET r    == LookupSchema(built.entries, id, ver)
        mine == {built.entries[i].ver :
                   i \in {k \in DOMAIN built.entries : built.entries[k].id = id}}
    IN  /\ r.found <=> ver \in mine
        /\ r.code = "unknown-schema" <=> mine = {}
        /\ r.code = "unsupported-future-version" <=>
             mine # {} /\ \A v \in mine : VersionLess(v, ver)

\* "A future version is unsupported-future-version, never malformed"
\* (docs/schema-foundation-notes.md, section 2): raising the major number of any
\* version up to the last one the integer type holds makes the text of an
\* unregistered version a future version of a known family and nothing else, and
\* one more makes it out of range; printing and inspecting a version answers
\* what looking it up answers.
FutureIsNeverMalformed ==
  \A id \in SchemaId, v \in Versions : \A major \in {v[1], MaxComponent, MaxComponent + 1} :
    LET w == <<major, v[2], v[3]>>
    IN  InspectSchemaVersion(built.entries, id, <<VersionText(w)>>) =
          IF major > MaxComponent THEN {NotFound("schema-version-out-of-range")}
          ELSE IF /\ \E i \in DOMAIN built.entries : built.entries[i].id = id
                  /\ \A u \in Versions : u[1] < major
               THEN {NotFound("unsupported-future-version")}
               ELSE {LookupSchema(built.entries, id, w)}

\* A direction is readable or needs a migration, never both: the answer of
\* schema_compatibility does not depend on which rule the loop meets first, and
\* every declared rule of a valid catalog is honoured with its own kind. (A rule
\* from a document to itself passes validation but can never be the answer.)
DeclaredKindIsAnswered ==
  Valid(built) =>
    \A i \in DOMAIN built.rules :
      LET r == built.rules[i]
          a == SchemaCompatibility(built, r.from.id, r.from.ver, r.to.ver)
      IN  r.from # r.to =>
            a.value = IF r.kind = "readable" THEN "readable" ELSE "requires-migration"

\* Nothing depends on how std::sort leaves equal elements: neither what is
\* reported nor, where nothing is, the catalog itself (build, validate_catalog).
BuildIsDeterministic == VerdictIgnoresSortOrder /\ BuildIsDeterministicWhenValid

\* A version gets the same answer as a value and as a text, and each reason for
\* which it is not found has its own (lookup_schema, inspect_schema_version).
VersionsAreClassified == LookupClassifies /\ FutureIsNeverMalformed

\* A client goes on adding and rebuilds: as long as its catalogs are valid, what
\* an older one answered a newer one answers too. A document that was found is
\* found again, the same one, and a pair that was exact, readable or in need of
\* a migration stays so, whatever has been added before or after it in the
\* order (build copies the lists and keeps them; duplicates and conflicting
\* rules are refused, so the first match is the only one).
RebuildKeepsAnswers ==
  [][ Valid(built) /\ Valid(built') =>
        \A id \in SchemaId, from, to \in Versions :
          LET found  == LookupSchema(built.entries, id, from)
              answer == SchemaCompatibility(built, id, from, to)
          IN  /\ found.found => LookupSchema(built'.entries, id, from) = found
              /\ answer.value # "unsupported" =>
                   SchemaCompatibility(built', id, from, to) = answer ]_vars
=============================================================================
