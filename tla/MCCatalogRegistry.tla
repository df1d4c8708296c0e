-------------------------- MODULE MCCatalogRegistry --------------------------
(***************************************************************************)
(* The versions of schemas, the two ways to a catalog, and the validation  *)
(* of its files. A behaviour is about one of four subjects, which share no *)
(* state: a client of the builder, a catalog document that is loaded, the  *)
(* text of a version that is parsed, or the files of a catalog. The others *)
(* stay where they begin; the files are then those of an empty catalog.    *)
(*                                                                         *)
(* The client has two format families, versions whose numeric and textual  *)
(* orders disagree (0.9.0 and 0.10.0), and entries and rules that collide  *)
(* with each other in every way validate_catalog looks for.                *)
(*                                                                         *)
(* Catalog documents: every header with one sound entry, and a sound       *)
(* header with up to two entries and one rule, or one entry and two rules, *)
(* each sound or faulty in one of the ways from_json tells apart. The      *)
(* limit of a component is 10: 9 and 10 are in range, 11 is not.           *)
(***************************************************************************)
EXTENDS CatalogRegistry, CatalogLoader, SchemaVersionText, MCCatalogFiles

\* 0.9.0, 0.10.0, 0.09.0, 0.11.0, and x.11.0, which throws either exception.
T9       == VersionText(V9)
T10      == VersionText(V10)
Leading  == <<0, Dot, 0, 9, Dot, 0>>
TooLarge == <<0, Dot, 1, 1, Dot, 0>>
Either   == <<Other, Dot, 1, 1, Dot, 0>>

File(name) == [rooted |-> FALSE, backslash |-> FALSE, segs |-> <<name>>]
EntryOf(id, ver) ==
  [shape |-> "strings", extra |-> FALSE, id |-> id, ver |-> ver, doc |-> Doc(id, ver),
   path |-> File("a"), status |-> "known"]
Good == EntryOf("score", T9)

EntryNodes ==
  { Good, EntryOf("score", T10), EntryOf("part", T9),
    [Good EXCEPT !.shape = "other"], [Good EXCEPT !.shape = "nonString", !.extra = TRUE],
    [Good EXCEPT !.extra = TRUE], [Good EXCEPT !.id = "malformed"],
    [Good EXCEPT !.ver = Leading], [Good EXCEPT !.ver = Either],
    [Good EXCEPT !.doc.ver = TooLarge], [Good EXCEPT !.doc.id = "malformed"],
    [Good EXCEPT !.status = "unknown"] }

GoodRule ==
  [shape |-> "strings", extra |-> FALSE, from |-> Doc("score", T9), to |-> Doc("score", T10),
   kind |-> "migration"]

RuleNodes ==
  { GoodRule, [GoodRule EXCEPT !.kind = "readable"],
    [GoodRule EXCEPT !.shape = "incomplete", !.extra = TRUE], [GoodRule EXCEPT !.extra = TRUE],
    [GoodRule EXCEPT !.to.ver = TooLarge], [GoodRule EXCEPT !.from.ver = Either],
    [GoodRule EXCEPT !.kind = "unknown"] }

UpTo(m, S) == UNION {[1..n -> S] : n \in 0..m}

Document(es, rulesKind, rs) ==
  [root |-> "object", extra |-> FALSE, binding |-> "exact", format |-> "number", token |-> <<1>>,
   entriesKind |-> "array", entries |-> es, rulesKind |-> rulesKind, rules |-> rs]

Minimal == Document(<<Good>>, "missing", <<>>)

Headers ==
  {[Minimal EXCEPT !.extra = x, !.binding = b, !.format = f, !.token = t] :
     x \in BOOLEAN, b \in {"missing", "nonString", "different", "exact"},
     f \in {"missing", "other", "number"}, t \in {<<1>>, <<2>>, <<1, 1>>, <<1, Dot, 0>>}}

AllDocuments ==
  UNION { Headers,
          {[Minimal EXCEPT !.root = k] : k \in {"malformed", "other"}},
          {[Minimal EXCEPT !.entriesKind = k, !.entries = <<>>] : k \in {"missing", "other"}},
          {[Minimal EXCEPT !.rulesKind = "other", !.entries = es] : es \in UpTo(2, EntryNodes)},
          {Document(es, "array", rs) : es \in UpTo(2, EntryNodes), rs \in UpTo(1, RuleNodes)},
          {Document(es, "array", rs) : es \in UpTo(1, EntryNodes), rs \in UpTo(2, RuleNodes)} }

-----------------------------------------------------------------------------

Outside == [rooted |-> FALSE, backslash |-> FALSE, segs |-> <<"..", "x">>]

MCEntries ==
  { [id |-> "score", ver |-> V9,  doc |-> Doc("score", V9),  path |-> File("a")],
    [id |-> "score", ver |-> V10, doc |-> Doc("score", V10), path |-> File("b")],
    [id |-> "score", ver |-> V9,  doc |-> Doc("score", V9),  path |-> File("b")],
    [id |-> "score", ver |-> V9,  doc |-> Doc("score", V10), path |-> File("c")],
    [id |-> "part",  ver |-> V9,  doc |-> Doc("part", V9),   path |-> File("d")],
    [id |-> "part",  ver |-> V0,  doc |-> Doc("part", V0),   path |-> Outside] }

MCRules ==
  { [from |-> Doc("score", V9),  to |-> Doc("score", V10), kind |-> "readable"],
    [from |-> Doc("score", V9),  to |-> Doc("score", V10), kind |-> "migration"],
    [from |-> Doc("score", V10), to |-> Doc("score", V9),  kind |-> "migration"],
    [from |-> Doc("score", V9),  to |-> Doc("part", V9),   kind |-> "readable"],
    [from |-> Doc("score", V10), to |-> Doc("score", V10), kind |-> "readable"] }

\* Two digits on both sides of the limit of a component, which is 10.
MCAlphabet == {0, 1, Dot, Other}

-----------------------------------------------------------------------------
VARIABLE subject         \* what the behaviour is about

InitAll ==
  /\ subject \in {"builder", "loader", "version", "files"}
  /\ Init /\ LoaderInit /\ TextInit /\ FilesInit
  /\ subject # "loader" => root = Minimal
  /\ subject # "files" => catalog = Nothing

NextAll ==
  /\ UNCHANGED subject
  /\ \/ subject = "builder" /\ Next /\ UNCHANGED <<loader, text, files>>
     \/ subject = "loader" /\ LoaderNext /\ UNCHANGED <<vars, text, files>>
     \/ subject = "version" /\ TextNext /\ UNCHANGED <<vars, loader, files>>
     \/ subject = "files" /\ FilesNext /\ UNCHANGED <<vars, loader, text>>

\* The validation of the files runs on; a client need not go on.
SpecAll ==
  /\ InitAll
  /\ [][NextAll]_<<subject, vars, loader, text, files>>
  /\ WF_files(FilesNext /\ UNCHANGED <<subject, vars, loader, text>>)
=============================================================================
