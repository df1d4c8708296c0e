--------------------------- MODULE MCCatalogFiles ----------------------------
(***************************************************************************)
(* Catalogs of two entries, with paths that the policy refuses and entries *)
(* that collide, over a disk that holds at each path any of some files,    *)
(* inside the repository, outside of it, and next to it.                   *)
(***************************************************************************)
EXTENDS CatalogFiles

V0  == <<0, 0, 0>>
V9  == <<0, 9, 0>>
V10 == <<0, 10, 0>>

MCSchemaId == {"score", "part"}
MCVersions == {V0, V9, V10}

MCIdTextLess(a, b) == a = "part" /\ b = "score"

\* "0.0.0" < "0.10.0" < "0.9.0" as texts.
VersionTextRank(v) == IF v = V0 THEN 0 ELSE IF v = V10 THEN 1 ELSE 2

MCDocTextLess(d, e) ==
  \/ MCIdTextLess(d.id, e.id)
  \/ d.id = e.id /\ VersionTextRank(d.ver) < VersionTextRank(e.ver)

Doc(id, v) == [id |-> id, ver |-> v]

Part  == Doc("part", V9)
Score == Doc("score", V9)

Path_(segs)      == [rooted |-> FALSE, backslash |-> FALSE, segs |-> segs]
Entry_(d, path)  == [id |-> d.id, ver |-> d.ver, doc |-> d, path |-> path]

First  == Entry_(Part, Path_(<<"part">>))
Second == Entry_(Score, Path_(<<"score">>))

\* No entry at all; and two, the second of which may be refused or collide.
Nothing == [entries |-> <<>>, rules |-> <<>>]

MCCatalogs ==
  {Nothing} \cup
  {[entries |-> <<First, e>>, rules |-> <<>>] :
     e \in { Second,
             Entry_(Score, Path_(<<"..", "score">>)),
             Entry_(Score, [Path_(<<"score">>) EXCEPT !.rooted = TRUE]),
             Entry_(Score, [Path_(<<"score">>) EXCEPT !.backslash = TRUE]),
             Entry_(Score, Path_(<<"part">>)),
             Entry_(Part, Path_(<<"score">>)),
             [Second EXCEPT !.doc = Part] }}

Member(k, v) == [key |-> k, value |-> v]
Ref(text)    == Member("$ref", Str(text))

Node(d, more) == Obj(<< Member("$id", Str(DocName(d))), Member("version", Str(VerText(V9))) >> \o more)

\* References to nothing, to the other document, under an array, in an object
\* under a member, and one that is no string.
Nodes ==
  { Node(Part, <<>>),
    Node(Part, << Member("items", Arr(<<Null, Obj(<<Ref(DocName(Score))>>)>>)) >>),
    Node(Part, << Member("$ref", Obj(<<Ref(Dialect), Member("a", Obj(<<Ref(DocName(Part))>>))>>)) >>),
    Node(Score, << Member("items", Arr(<<Obj(<<Ref([is |-> "unknown"])>>)>>)) >>),
    Node(Score, << Ref(DocName(Part)) >>),
    Obj(<< Member("$id", Null), Member("version", Str(VerText(V9))) >>),
    Obj(<< Member("$id", Str(DocName(Score))), Member("version", Str(VerText(V10))) >>),
    Arr(<<>>) }

RECURSIVE collect_refs(_)

\* Mutant of collect_refs: the elements of arrays are left out.
collect_refs_NoArrays(node) ==
  IF node.kind # "object" THEN {}
  ELSE LET own == {k \in DOMAIN node.object : node.object[k].key = "$ref"
                                              /\ node.object[k].value.kind = "string"}
       IN  {node.object[k].value.string : k \in own}
             \cup UNION {collect_refs(node.object[k].value) : k \in DOMAIN node.object}

\* Every string under a member "$ref", at any depth.
collect_refs(node) ==
  CASE node.kind = "object" ->
         LET own == {k \in DOMAIN node.object : node.object[k].key = "$ref"
                                                /\ node.object[k].value.kind = "string"}
         IN  {node.object[k].value.string : k \in own}
               \cup UNION {collect_refs(node.object[k].value) : k \in DOMAIN node.object}
    [] node.kind = "array" -> UNION {collect_refs(node.array[k]) : k \in DOMAIN node.array}
    [] OTHER -> {}

MCRoot == <<"home", "repo">>

MCTargets ==
  {[at |-> MCRoot \o <<"file">>, state |-> "json", node |-> n] : n \in Nodes}
  \cup {[at |-> MCRoot \o <<"file">>, state |-> s, node |-> Null] : s \in {"missing", "malformed"}}
  \cup {[at |-> at, state |-> "json", node |-> Node(Part, <<>>)] :
          at \in {<<"home", "repo2", "file">>, <<"home">>}}
=============================================================================
