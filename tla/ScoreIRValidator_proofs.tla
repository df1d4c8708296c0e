----------------------- MODULE ScoreIRValidator_proofs -----------------------
(***************************************************************************)
(* Proofs about ScoreIRValidator, for documents of any size and whatever   *)
(* texts name their entities.                                              *)
(***************************************************************************)
EXTENDS ScoreIRValidator, WellFoundedInduction, TLAPS

-----------------------------------------------------------------------------
(***************************************************************************)
(* The passes.                                                             *)
(***************************************************************************)
LEMMA CollectionNames ==
  /\ Len(Collections) = 6 /\ DOMAIN Collections = 1..6
  /\ Collections[1] = "parts" /\ Collections[2] = "staves" /\ Collections[3] = "voices"
  /\ Collections[4] = "performerRoles" /\ Collections[5] = "measures" /\ Collections[6] = "events"
  BY DEF Collections

\* The empty pass, and a pass one collection longer.
LEMMA NoneYet ==
  ASSUME NEW doc
  PROVE  /\ IdentitiesUpTo(doc, 0) = ScoreIdentity(doc)
         /\ CollectProblems(doc, 0) = HeaderProblems(doc)
         /\ ProblemsUpTo(doc, 0) = IdentityProblems(doc)
  BY DEF IdentitiesUpTo, CollectProblems, ProblemsUpTo

LEMMA OneMore ==
  ASSUME NEW doc, NEW n \in Nat
  PROVE  /\ IdentitiesUpTo(doc, n + 1) = IdentitiesUpTo(doc, n) \cup Identities(doc, n + 1)
         /\ CollectProblems(doc, n + 1)
              = CollectProblems(doc, n) \cup IdProblems(doc, Collections[n + 1])
         /\ ProblemsUpTo(doc, n + 1)
              = ProblemsUpTo(doc, n)
                  \cup EntityProblems(AllIdentities(doc), doc, Collections[n + 1])
<1>1. \A k : k \in 1..n + 1 <=> k \in 1..n \/ k = n + 1
  OBVIOUS
<1>2. IdentitiesUpTo(doc, n + 1) = IdentitiesUpTo(doc, n) \cup Identities(doc, n + 1)
  BY <1>1, Zenon DEF IdentitiesUpTo
<1>3. CollectProblems(doc, n + 1)
        = CollectProblems(doc, n) \cup IdProblems(doc, Collections[n + 1])
  BY <1>1, Zenon DEF CollectProblems
<1>4. ProblemsUpTo(doc, n + 1)
        = ProblemsUpTo(doc, n) \cup EntityProblems(AllIdentities(doc), doc, Collections[n + 1])
  BY <1>1, Zenon DEF ProblemsUpTo
<1>5. QED
  BY <1>2, <1>3, <1>4

\* What is registered: an item of a collection, by a registered text.
LEMMA ItemsAreNumbered ==
  ASSUME NEW doc, IsDocument(doc), NEW k \in 1..6
  PROVE  /\ DOMAIN Items(doc, Collections[k]) \subseteq Nat
         /\ Identities(doc, k) \subseteq [k : 0..6, i : Nat, id : EntityId]
<1>1. DOMAIN Items(doc, Collections[k]) \subseteq Nat
  <2>1. CASE IsCollection(doc, Collections[k])
    <3>1. IsArray(doc.fields[Collections[k]])
      BY <2>1 DEF IsCollection, Has, IsDocument
    <3>2. QED
      BY <2>1, <3>1 DEF Items, IsArray
  <2>2. CASE ~IsCollection(doc, Collections[k])
    BY <2>2 DEF Items
  <2>3. QED
    BY <2>1, <2>2
<1>2. QED
  BY <1>1 DEF Identities, Entry, Identified

LEMMA IdentitiesTyped ==
  ASSUME NEW doc, IsDocument(doc)
  PROVE  ScoreIdentity(doc) \subseteq [k : 0..6, i : Nat, id : EntityId]
  BY DEF ScoreIdentity, ScoreIdOk, Entry

PassInv == TypeOK /\ PassInvariant /\ document \in Documents

LEMMA InitPasses ==
  ASSUME Init
  PROVE  PassInv
  BY CollectionNames DEF Init, Start, PassInv, TypeOK, PassInvariant, Accepted

LEMMA RefuseRootPasses ==
  ASSUME PassInv, RefuseRoot
  PROVE  PassInv'
  BY DEF RefuseRoot, PassInv, TypeOK, PassInvariant, Accepted

LEMMA ReadHeaderPasses ==
  ASSUME PassInv, ReadHeader
  PROVE  PassInv'
<1>1. IsDocument(document)
  BY DocumentsAssumption DEF PassInv
<1>2. TypeOK'
  BY <1>1, IdentitiesTyped DEF ReadHeader, PassInv, TypeOK
<1>3. PassInvariant'
  BY <1>1, NoneYet DEF ReadHeader, PassInv, PassInvariant, Accepted
<1>4. QED
  BY <1>2, <1>3 DEF ReadHeader, PassInv

LEMMA CollectIdsPasses ==
  ASSUME PassInv, CollectIds
  PROVE  PassInv'
<1>1. IsDocument(document) /\ c \in 1..6 /\ c - 1 \in Nat /\ (c - 1) + 1 = c
  BY DocumentsAssumption, CollectionNames DEF PassInv, TypeOK
<1>2. /\ all_ids' = IdentitiesUpTo(document, c)
      /\ diags' = CollectProblems(document, c)
  BY <1>1, OneMore DEF CollectIds, PassInv, PassInvariant
<1>3. TypeOK'
  BY <1>1, CollectionNames, ItemsAreNumbered DEF CollectIds, NextCollection, PassInv, TypeOK
<1>4. PassInvariant'
  <2>1. CASE c < 6
    BY <1>1, <1>2, <2>1, CollectionNames
       DEF CollectIds, NextCollection, PassInv, PassInvariant, Accepted
  <2>2. CASE c = 6
    BY <1>1, <1>2, <2>2, CollectionNames
       DEF CollectIds, NextCollection, PassInv, PassInvariant, Accepted, AllIdentities
  <2>3. QED
    BY <1>1, <2>1, <2>2
<1>5. QED
  BY <1>3, <1>4 DEF CollectIds, PassInv

LEMMA FindDuplicatesPasses ==
  ASSUME PassInv, FindDuplicates
  PROVE  PassInv'
<1>1. TypeOK'
  BY DEF FindDuplicates, PassInv, TypeOK
<1>2. PassInvariant'
  BY NoneYet DEF FindDuplicates, PassInv, PassInvariant, Accepted, IdentityProblems
<1>3. QED
  BY <1>1, <1>2 DEF FindDuplicates, PassInv

LEMMA CheckEntitiesPasses ==
  ASSUME PassInv, CheckEntities
  PROVE  PassInv'
<1>1. c \in 1..6 /\ c - 1 \in Nat /\ (c - 1) + 1 = c
  BY CollectionNames DEF PassInv, TypeOK
<1>2. diags' = ProblemsUpTo(document, c)
  <2>1. ProblemsUpTo(document, (c - 1) + 1) =
          ProblemsUpTo(document, c - 1)
            \cup EntityProblems(AllIdentities(document), document, Collections[(c - 1) + 1])
    BY <1>1, OneMore
  <2>2. QED
    BY <1>1, <2>1 DEF CheckEntities, PassInv, PassInvariant
<1>3. TypeOK'
  BY <1>1, CollectionNames DEF CheckEntities, NextCollection, PassInv, TypeOK
<1>4. PassInvariant'
  <2>1. CASE c < 6
    BY <1>1, <1>2, <2>1, CollectionNames
       DEF CheckEntities, NextCollection, PassInv, PassInvariant, Accepted
  <2>2. CASE c = 6
    BY <1>1, <1>2, <2>2, CollectionNames
       DEF CheckEntities, NextCollection, PassInv, PassInvariant, Accepted, Problems
  <2>3. QED
    BY <1>1, <2>1, <2>2
<1>5. QED
  BY <1>3, <1>4 DEF CheckEntities, PassInv

LEMMA BuildDocumentPasses ==
  ASSUME PassInv, BuildDocument
  PROVE  PassInv'
<1>1. TypeOK'
  BY DEF BuildDocument, PassInv, TypeOK
<1>2. PassInvariant'
  BY DEF BuildDocument, PassInv, PassInvariant, Accepted
<1>3. QED
  BY <1>1, <1>2 DEF BuildDocument, PassInv

LEMMA StepPasses ==
  ASSUME PassInv, [Next]_vars
  PROVE  PassInv'
<1>1. CASE UNCHANGED vars
  BY <1>1 DEF vars, PassInv, TypeOK, PassInvariant, Accepted
<1>2. QED
  BY <1>1, RefuseRootPasses, ReadHeaderPasses, CollectIdsPasses, FindDuplicatesPasses,
     CheckEntitiesPasses, BuildDocumentPasses DEF Next
-----------------------------------------------------------------------------
(***************************************************************************)
(* When the rules have nothing to say.                                     *)
(***************************************************************************)
LEMMA NothingIn3 ==
  ASSUME NEW a, NEW b, NEW c3
  PROVE  UNION {a, b, c3} = {} <=> a = {} /\ b = {} /\ c3 = {}
  OBVIOUS

LEMMA NothingIn4 ==
  ASSUME NEW a1, NEW a2, NEW a3, NEW a4
  PROVE  UNION {a1, a2, a3, a4} = {} <=> a1 = {} /\ a2 = {} /\ a3 = {} /\ a4 = {}
  OBVIOUS

LEMMA ClosedIsEmpty ==
  ASSUME NEW node, NEW allowed, NEW at
  PROVE  Closed(node, allowed, at) = {} <=> DOMAIN node.fields \subseteq allowed
  BY DEF Closed

LEMMA PartProblemsEmpty ==
  ASSUME NEW item, NEW at
  PROVE  PartProblems(item, at) = {}
           <=> IsString(item, "type") /\ IsString(item, "name")
                 /\ item.fields["type"] \in {"", "choral"}
<1>1. Needed(item, "type", at) = {} <=> IsString(item, "type")
  BY DEF Needed, ReportIf
<1>2. Needed(item, "name", at) = {} <=> IsString(item, "name")
  BY DEF Needed, ReportIf
<1>3. ReportIf(need_string(item, "type") \notin {"", "choral"}, "unsupported-part-type",
              [at EXCEPT !.field = "type"]) = {}
        <=> need_string(item, "type") \in {"", "choral"}
  BY DEF ReportIf
<1>4. QED
  BY <1>1, <1>2, <1>3, NothingIn3 DEF PartProblems, need_string

LEMMA HoldsTable ==
  ASSUME NEW v
  PROVE  /\ Contract!Holds("id", v) <=> v \in EntityId
         /\ Contract!Holds("text", v) <=> v # NonString
         /\ Contract!Holds("choral", v) <=> v \in {"", "choral"}
         /\ Contract!Holds("natural", v) <=> v # NonString /\ v # "malformed"
         /\ Contract!Holds("boolean", v) <=> v \in {"true", "false"}
         /\ Contract!Holds("offset", v) <=> v \in {"zero", "positive"}
         /\ Contract!Holds("duration", v) <=> v = "positive"
         /\ Contract!Holds("voices", v) <=> v # NonString /\ Contract!Owns("voices", v)
         /\ Contract!Holds("parts", v) <=> v # NonString /\ (v = "" \/ Contract!Owns("parts", v))
         /\ Contract!Holds("staves", v) <=> v # NonString /\ (v = "" \/ Contract!Owns("staves", v))
         /\ Contract!Holds("measures", v) <=> v # NonString /\ (v = "" \/ Contract!Owns("measures", v))
  BY DEF Contract!Holds, Contract!Text, Contract!NotAText, NonString

LEMMA ProcessEmpty ==
  ASSUME NEW ids, NEW item, NEW coll, NEW at, Identified(item)
  PROVE  process_entity(ids, item, coll, at) = {}
           <=> DOMAIN item.fields \subseteq Allowed(coll) /\ TypedProblems(ids, item, coll, at) = {}
<1>1. Needed(item, "id", at) = {}
  BY DEF Needed, ReportIf, Identified
<1>2. process_entity(ids, item, coll, at)
        = UNION {Closed(item, Allowed(coll), at), {}, TypedProblems(ids, item, coll, at)}
  BY <1>1 DEF process_entity
<1>3. QED
  <2>1. Closed(item, Allowed(coll), at) = {} <=> DOMAIN item.fields \subseteq Allowed(coll)
    BY ClosedIsEmpty, Zenon
  <2>2. UNION {Closed(item, Allowed(coll), at), {}, TypedProblems(ids, item, coll, at)} = {}
          <=> Closed(item, Allowed(coll), at) = {} /\ TypedProblems(ids, item, coll, at) = {}
    BY NothingIn3, Zenon
  <2>3. QED
    BY <1>2, <2>1, <2>2, Zenon

WholeShape(item, shape) == Contract!Shaped(item, shape, {}, Contract!Holds)

LEMMA ShapedWhole ==
  ASSUME NEW item, NEW shape, item.isObject
  PROVE  WholeShape(item, shape)
           <=> /\ DOMAIN item.fields = DOMAIN shape
               /\ \A f \in DOMAIN shape : Contract!Holds(shape[f], item.fields[f])
  BY DEF Contract!Shaped, WholeShape

LEMMA PartsAgree ==
  ASSUME NEW ids, NEW item, NEW at, Identified(item)
  PROVE  process_entity(ids, item, "parts", at) = {} <=> Contract!IsEntity("parts", item)
<1>1. "id" \in DOMAIN item.fields /\ item.fields["id"] \in EntityId /\ item.isObject
  BY DEF Identified, IsString, Has
<1>2. process_entity(ids, item, "parts", at) = {}
        <=> DOMAIN item.fields \subseteq {"id", "type", "name"} /\ PartProblems(item, at) = {}
  BY ProcessEmpty DEF Allowed, TypedProblems
<1>3. Contract!IsEntity("parts", item)
        <=> /\ DOMAIN item.fields = {"id", "type", "name"}
            /\ Contract!Holds("id", item.fields["id"])
            /\ Contract!Holds("choral", item.fields["type"])
            /\ Contract!Holds("text", item.fields["name"])
  <2> DEFINE S == [id |-> "id", type |-> "choral", name |-> "text"]
  <2>1. DOMAIN S = {"id", "type", "name"} /\ S["id"] = "id" /\ S["type"] = "choral" /\ S["name"] = "text"
    OBVIOUS
  <2>2. Contract!IsEntity("parts", item) <=> WholeShape(item, S)
    BY DEF Contract!IsEntity, Contract!Shape, WholeShape
  <2> HIDE DEF S
  <2>3. QED
    BY <1>1, <2>1, <2>2, ShapedWhole
<1>4. /\ Contract!Holds("id", item.fields["id"])
      /\ Contract!Holds("choral", item.fields["type"]) <=> item.fields["type"] \in {"", "choral"}
      /\ Contract!Holds("text", item.fields["name"]) <=> item.fields["name"] # NonString
  BY <1>1, HoldsTable
<1>5. "" # NonString /\ "choral" # NonString
  BY DEF NonString
<1>6. QED
  BY <1>1, <1>2, <1>3, <1>4, <1>5, PartProblemsEmpty DEF IsString, Has

\* Every collection is there, and every item of it is identified.
AllIdentified ==
  \A k \in 1..6 :
    /\ IsCollection(document, Collections[k])
    /\ \A i \in DOMAIN Items(document, Collections[k]) :
         Identified(Items(document, Collections[k])[i])

AllDistinct == DuplicateProblems(AllIdentities(document)) = {}

LEMMA IdProblemsEmpty ==
  ASSUME NEW doc, NEW coll
  PROVE  IdProblems(doc, coll) = {}
           <=> /\ IsCollection(doc, coll)
               /\ \A i \in DOMAIN Items(doc, coll) : Identified(Items(doc, coll)[i])
<1> DEFINE P(item, at) ==
       UNION { ReportIf(~item.isObject, "unknown-field", at),
               ReportIf(item.isObject /\ ~IsString(item, "id"), "missing-required-field", at),
               ReportIf(item.isObject /\ IsString(item, "id") /\ ~Identified(item),
                  "malformed-entity-id", Root) }
           Q == UNION {P(Items(doc, coll)[i], At(coll, i, "")) : i \in DOMAIN Items(doc, coll)}
<1>1. ASSUME NEW item, NEW at PROVE P(item, at) = {} <=> Identified(item)
  <2>1. ReportIf(~item.isObject, "unknown-field", at) = {} <=> item.isObject
    BY DEF ReportIf
  <2>2. ReportIf(item.isObject /\ ~IsString(item, "id"), "missing-required-field", at) = {}
          <=> ~(item.isObject /\ ~IsString(item, "id"))
    BY DEF ReportIf
  <2>3. ReportIf(item.isObject /\ IsString(item, "id") /\ ~Identified(item),
                 "malformed-entity-id", Root) = {}
          <=> ~(item.isObject /\ IsString(item, "id") /\ ~Identified(item))
    BY DEF ReportIf
  <2>4. QED
    BY <2>1, <2>2, <2>3, NothingIn3 DEF Identified
<1>2. Q = {} <=> \A i \in DOMAIN Items(doc, coll) : P(Items(doc, coll)[i], At(coll, i, "")) = {}
  <2> HIDE DEF P
  <2> QED
    OBVIOUS
<1>3. ReportIf(~Has(doc, coll), "missing-required-field", Root) = {} <=> Has(doc, coll)
  BY DEF ReportIf
<1>4. ReportIf(Has(doc, coll) /\ ~IsCollection(doc, coll), "unknown-field", Root) = {}
        <=> ~(Has(doc, coll) /\ ~IsCollection(doc, coll))
  BY DEF ReportIf
<1>5. IdProblems(doc, coll)
        = UNION { ReportIf(~Has(doc, coll), "missing-required-field", Root),
                  ReportIf(Has(doc, coll) /\ ~IsCollection(doc, coll), "unknown-field", Root), Q }
  BY DEF IdProblems
<1> HIDE DEF Q
<1>6. IdProblems(doc, coll) = {} <=> IsCollection(doc, coll) /\ Q = {}
  BY <1>3, <1>4, <1>5, NothingIn3 DEF IsCollection
<1>7. QED
  BY <1>1, <1>2, <1>6

\* What is registered when everything is identified.
LEMMA RegisteredEntries ==
  ASSUME AllIdentified, NEW e
  PROVE  e \in AllIdentities(document)
           <=> \/ e \in ScoreIdentity(document)
               \/ \E k \in 1..6 : \E i \in DOMAIN Items(document, Collections[k]) :
                    e = Entry(k, i, Items(document, Collections[k])[i].fields["id"])
<1>1. \A k \in 1..6 : e \in Identities(document, k)
        <=> \E i \in DOMAIN Items(document, Collections[k]) :
              e = Entry(k, i, Items(document, Collections[k])[i].fields["id"])
  BY DEF AllIdentified, Identities
<1>2. e \in AllIdentities(document)
        <=> e \in ScoreIdentity(document) \/ \E k \in 1..6 : e \in Identities(document, k)
  BY CollectionNames DEF AllIdentities, IdentitiesUpTo
<1>3. QED
  BY <1>1, <1>2

LEMMA OwnsHere ==
  ASSUME AllIdentified, NEW k \in 1..6, NEW ref
  PROVE  Contract!Owns(Collections[k], ref)
           <=> \E i \in DOMAIN Items(document, Collections[k]) :
                 Items(document, Collections[k])[i].fields["id"] = ref
  BY DEF AllIdentified, Items, Contract!Owns, Contract!Entities, Contract!Id

\* When no identity is shared, a reference is clean if its target is of its kind.
LEMMA ReferenceProblemsEmpty ==
  ASSUME AllIdentified, AllDistinct, NEW k \in 1..6, NEW ref, NEW at
  PROVE  ReferenceProblems(AllIdentities(document), ref, Collections[k], at) = {}
           <=> Contract!Owns(Collections[k], ref)
<1> DEFINE ids     == AllIdentities(document)
           matches == {entry \in ids : entry.id = ref}
           first   == CHOOSE entry \in matches : \A other \in matches : entry.k <= other.k
<1>1. \A a, b \in ids : a.id = b.id => a = b
  BY DEF AllDistinct, DuplicateProblems, ReportIf
<1>2. ReferenceProblems(ids, ref, Collections[k], at) = {}
        <=> ref \in EntityId /\ matches # {} /\ TypeOf(first) = Collections[k]
  BY DEF ReferenceProblems, ReportIf
<1>3. \A e \in ids : e.k \in 0..6 /\ e.k <= e.k
  BY RegisteredEntries DEF Entry, ScoreIdentity
<1>4. \A e \in matches : first = e
  BY <1>1, <1>3
<1>5. ASSUME Contract!Owns(Collections[k], ref)
      PROVE  ref \in EntityId /\ matches # {} /\ TypeOf(first) = Collections[k]
  <2>1. PICK i \in DOMAIN Items(document, Collections[k]) :
               Items(document, Collections[k])[i].fields["id"] = ref
    BY <1>5, OwnsHere
  <2>2. Entry(k, i, ref) \in ids
    BY <2>1, RegisteredEntries
  <2>3. Entry(k, i, ref) \in matches /\ Entry(k, i, ref).k = k
    BY <2>2 DEF Entry
  <2>4. ref \in EntityId
    BY <2>1 DEF AllIdentified, Identified
  <2>5. TypeOf(first) = Collections[k]
    <3>1. first = Entry(k, i, ref)
      BY <1>4, <2>3
    <3> HIDE DEF first
    <3>2. first.k = k /\ k # 0
      BY <2>3, <3>1
    <3>3. QED
      BY <3>2 DEF TypeOf
  <2>6. QED
    BY <2>3, <2>4, <2>5
<1>6. ASSUME matches # {}, TypeOf(first) = Collections[k]
      PROVE  Contract!Owns(Collections[k], ref)
  <2>1. first \in ids /\ first.id = ref
    BY <1>4, <1>6
  <2> HIDE DEF first, matches
  <2>2. first \notin ScoreIdentity(document)
    BY <1>6, CollectionNames DEF ScoreIdentity, Entry, TypeOf
  <2>3. PICK n \in 1..6 : \E i \in DOMAIN Items(document, Collections[n]) :
               first = Entry(n, i, Items(document, Collections[n])[i].fields["id"])
    BY <2>1, <2>2, RegisteredEntries
  <2>4. first.k = n /\ Collections[n] = Collections[k]
    BY <1>6, <2>3 DEF TypeOf, Entry
  <2>5. n = k
    BY <2>4, CollectionNames
  <2>6. QED
    BY <2>1, <2>3, <2>5, OwnsHere DEF Entry
<1>7. QED
  BY <1>2, <1>5, <1>6

LEMMA NeededReferenceEmpty ==
  ASSUME AllIdentified, AllDistinct, NEW k \in 1..6, NEW item, NEW f, NEW at
  PROVE  NeededReference(AllIdentities(document), item, f, Collections[k], at) = {}
           <=> /\ IsString(item, f)
               /\ item.fields[f] = "" \/ Contract!Owns(Collections[k], item.fields[f])
<1> DEFINE there == [at EXCEPT !.field = f]
           P == ReferenceProblems(AllIdentities(document), item.fields[f], Collections[k], there)
<1>1. P = {} <=> Contract!Owns(Collections[k], item.fields[f])
  BY ReferenceProblemsEmpty
<1>2. Needed(item, f, at) = {} <=> IsString(item, f)
  BY DEF Needed, ReportIf
<1>3. IsString(item, f) =>
        NeededReference(AllIdentities(document), item, f, Collections[k], at)
          = Needed(item, f, at) \cup (IF item.fields[f] = "" THEN {} ELSE P)
  BY DEF NeededReference, need_string
<1>4. ~IsString(item, f) =>
        Needed(item, f, at) \subseteq NeededReference(AllIdentities(document), item, f, Collections[k], at)
  BY DEF NeededReference
<1> HIDE DEF P
<1>5. QED
  BY <1>1, <1>2, <1>3, <1>4

\* The kinds that are no events.
LEMMA StavesAgree ==
  ASSUME AllIdentified, AllDistinct, NEW item, NEW at, Identified(item)
  PROVE  process_entity(AllIdentities(document), item, "staves", at) = {}
           <=> Contract!IsEntity("staves", item)
<1>1. "id" \in DOMAIN item.fields /\ item.fields["id"] \in EntityId /\ item.isObject
  BY DEF Identified, IsString, Has
<1>2. Needed(item, "label", at) = {} <=> IsString(item, "label")
  BY DEF Needed, ReportIf
<1>3. NeededReference(AllIdentities(document), item, "partRef", "parts", at) = {}
        <=> /\ IsString(item, "partRef")
            /\ item.fields["partRef"] = "" \/ Contract!Owns("parts", item.fields["partRef"])
  <2>1. NeededReference(AllIdentities(document), item, "partRef", Collections[1], at) = {}
          <=> /\ IsString(item, "partRef")
              /\ item.fields["partRef"] = "" \/ Contract!Owns(Collections[1], item.fields["partRef"])
    <3>1. 1 \in 1..6 /\ 2 \in 1..6
      OBVIOUS
    <3>2. QED
      BY <3>1, NeededReferenceEmpty, Zenon
  <2>2. QED
    BY <2>1, CollectionNames
<1>4. process_entity(AllIdentities(document), item, "staves", at) = {}
        <=> /\ DOMAIN item.fields \subseteq {"id", "partRef", "label"}
            /\ NeededReference(AllIdentities(document), item, "partRef", "parts", at) = {}
            /\ Needed(item, "label", at) = {}
  BY ProcessEmpty DEF Allowed, TypedProblems
<1>5. Contract!IsEntity("staves", item)
        <=> /\ DOMAIN item.fields = {"id", "partRef", "label"}
            /\ Contract!Holds("id", item.fields["id"])
            /\ Contract!Holds("parts", item.fields["partRef"])
            /\ Contract!Holds("text", item.fields["label"])
  <2> DEFINE S == [id |-> "id", partRef |-> "parts", label |-> "text"]
  <2>1. DOMAIN S = {"id", "partRef", "label"} /\ S["id"] = "id" /\ S["partRef"] = "parts" /\ S["label"] = "text"
    OBVIOUS
  <2>2. Contract!IsEntity("staves", item) <=> WholeShape(item, S)
    BY DEF Contract!IsEntity, Contract!Shape, WholeShape
  <2> HIDE DEF S
  <2>3. QED
    BY <1>1, <2>1, <2>2, ShapedWhole
<1>6. /\ Contract!Holds("id", item.fields["id"])
      /\ Contract!Holds("parts", item.fields["partRef"])
           <=> /\ item.fields["partRef"] # NonString
               /\ item.fields["partRef"] = "" \/ Contract!Owns("parts", item.fields["partRef"])
      /\ Contract!Holds("text", item.fields["label"]) <=> item.fields["label"] # NonString
  BY <1>1, HoldsTable
<1>7. QED
  BY <1>1, <1>2, <1>3, <1>4, <1>5, <1>6 DEF IsString, Has

LEMMA VoicesAgree ==
  ASSUME AllIdentified, AllDistinct, NEW item, NEW at, Identified(item)
  PROVE  process_entity(AllIdentities(document), item, "voices", at) = {}
           <=> Contract!IsEntity("voices", item)
<1>1. "id" \in DOMAIN item.fields /\ item.fields["id"] \in EntityId /\ item.isObject
  BY DEF Identified, IsString, Has
<1>2. Needed(item, "label", at) = {} <=> IsString(item, "label")
  BY DEF Needed, ReportIf
<1>3. NeededReference(AllIdentities(document), item, "staffRef", "staves", at) = {}
        <=> /\ IsString(item, "staffRef")
            /\ item.fields["staffRef"] = "" \/ Contract!Owns("staves", item.fields["staffRef"])
  <2>1. NeededReference(AllIdentities(document), item, "staffRef", Collections[2], at) = {}
          <=> /\ IsString(item, "staffRef")
              /\ item.fields["staffRef"] = "" \/ Contract!Owns(Collections[2], item.fields["staffRef"])
    <3>1. 1 \in 1..6 /\ 2 \in 1..6
      OBVIOUS
    <3>2. QED
      BY <3>1, NeededReferenceEmpty, Zenon
  <2>2. QED
    BY <2>1, CollectionNames
<1>4. process_entity(AllIdentities(document), item, "voices", at) = {}
        <=> /\ DOMAIN item.fields \subseteq {"id", "staffRef", "label"}
            /\ NeededReference(AllIdentities(document), item, "staffRef", "staves", at) = {}
            /\ Needed(item, "label", at) = {}
  BY ProcessEmpty DEF Allowed, TypedProblems
<1>5. Contract!IsEntity("voices", item)
        <=> /\ DOMAIN item.fields = {"id", "staffRef", "label"}
            /\ Contract!Holds("id", item.fields["id"])
            /\ Contract!Holds("staves", item.fields["staffRef"])
            /\ Contract!Holds("text", item.fields["label"])
  <2> DEFINE S == [id |-> "id", staffRef |-> "staves", label |-> "text"]
  <2>1. DOMAIN S = {"id", "staffRef", "label"} /\ S["id"] = "id" /\ S["staffRef"] = "staves" /\ S["label"] = "text"
    OBVIOUS
  <2>2. Contract!IsEntity("voices", item) <=> WholeShape(item, S)
    BY DEF Contract!IsEntity, Contract!Shape, WholeShape
  <2> HIDE DEF S
  <2>3. QED
    BY <1>1, <2>1, <2>2, ShapedWhole
<1>6. /\ Contract!Holds("id", item.fields["id"])
      /\ Contract!Holds("staves", item.fields["staffRef"])
           <=> /\ item.fields["staffRef"] # NonString
               /\ item.fields["staffRef"] = "" \/ Contract!Owns("staves", item.fields["staffRef"])
      /\ Contract!Holds("text", item.fields["label"]) <=> item.fields["label"] # NonString
  BY <1>1, HoldsTable
<1>7. QED
  BY <1>1, <1>2, <1>3, <1>4, <1>5, <1>6 DEF IsString, Has

LEMMA RolesAgree ==
  ASSUME NEW ids, NEW item, NEW at, Identified(item)
  PROVE  process_entity(ids, item, "performerRoles", at) = {}
           <=> Contract!IsEntity("performerRoles", item)
<1>1. "id" \in DOMAIN item.fields /\ item.fields["id"] \in EntityId /\ item.isObject
  BY DEF Identified, IsString, Has
<1>2. process_entity(ids, item, "performerRoles", at) = {}
        <=> DOMAIN item.fields \subseteq {"id", "label"} /\ IsString(item, "label")
  BY ProcessEmpty DEF Allowed, TypedProblems, Needed, ReportIf
<1>3. Contract!IsEntity("performerRoles", item)
        <=> /\ DOMAIN item.fields = {"id", "label"}
            /\ Contract!Holds("id", item.fields["id"])
            /\ Contract!Holds("text", item.fields["label"])
  <2> DEFINE S == [id |-> "id", label |-> "text"]
  <2>1. DOMAIN S = {"id", "label"} /\ S["id"] = "id" /\ S["label"] = "text"
    OBVIOUS
  <2>2. Contract!IsEntity("performerRoles", item) <=> WholeShape(item, S)
    BY DEF Contract!IsEntity, Contract!Shape, WholeShape
  <2> HIDE DEF S
  <2>3. QED
    BY <1>1, <2>1, <2>2, ShapedWhole
<1>4. QED
  BY <1>1, <1>2, <1>3, HoldsTable DEF IsString, Has

LEMMA TimeProblemsEmpty ==
  ASSUME NEW item, IsItem(item), NEW f \in {"offset", "duration", "actualDuration"},
         NEW refused, NEW code, NEW at
  PROVE  TimeProblems(item, f, refused, code, at) = {}
           <=> Has(item, f) /\ item.fields[f] \in {"negative", "zero", "positive"} \ refused
<1>1. CASE ~Has(item, f)
  BY <1>1 DEF TimeProblems, ReportIf
<1>2. CASE Has(item, f)
  <2> DEFINE t == item.fields[f]
             here == [at EXCEPT !.field = f]
  <2>1. t \in Time
    BY <1>2 DEF Has, IsItem
  <2>2. TimeProblems(item, f, refused, code, at)
          = UNION { ReportIf(t \in {"notATime", "notCanonical"}, "malformed-rational-time", here),
                    ReportIf(t = "extraField", "unknown-field", here),
                    ReportIf(t = "outOfRange", "rational-time-out-of-range", here),
                    ReportIf(t \in refused, code, here) }
    BY <1>2 DEF TimeProblems, ReportIf
  <2> HIDE DEF t, here
  <2>3. ReportIf(t \in {"notATime", "notCanonical"}, "malformed-rational-time", here) = {}
          <=> t \notin {"notATime", "notCanonical"}
    BY DEF ReportIf
  <2>4. ReportIf(t = "extraField", "unknown-field", here) = {} <=> t # "extraField"
    BY DEF ReportIf
  <2>5. ReportIf(t = "outOfRange", "rational-time-out-of-range", here) = {} <=> t # "outOfRange"
    BY DEF ReportIf
  <2>6. ReportIf(t \in refused, code, here) = {} <=> t \notin refused
    BY DEF ReportIf
  <2>7. TimeProblems(item, f, refused, code, at) = {}
          <=> /\ t \notin {"notATime", "notCanonical"}
              /\ t # "extraField" /\ t # "outOfRange" /\ t \notin refused
    BY <2>2, <2>3, <2>4, <2>5, <2>6, NothingIn4
  <2>8. QED
    BY <1>2, <2>1, <2>7 DEF Time, t
<1>3. QED
  BY <1>1, <1>2

LEMMA MeasuresAgree ==
  ASSUME NEW ids, NEW item, NEW at, Identified(item), IsItem(item)
  PROVE  process_entity(ids, item, "measures", at) = {}
           <=> Contract!IsEntity("measures", item)
<1>1. "id" \in DOMAIN item.fields /\ item.fields["id"] \in EntityId /\ item.isObject
  BY DEF Identified, IsString, Has
<1> DEFINE a1 == ReportIf(~IsString(item, "index"), "missing-required-field", at)
           a2 == ReportIf(IsText(item, "index", "malformed"), "malformed-pitch",
                          [at EXCEPT !.field = "index"])
           a3 == Needed(item, "number", at)
           a4 == ReportIf(~Has(item, "pickup") \/ item.fields["pickup"] \notin {"true", "false"},
                          "missing-required-field", at)
           a5 == TimeProblems(item, "actualDuration", NonPositive, "non-positive-duration", at)
<1>2. /\ a1 = {} <=> IsString(item, "index")
      /\ a2 = {} <=> ~(IsString(item, "index") /\ item.fields["index"] = "malformed")
      /\ a3 = {} <=> IsString(item, "number")
      /\ a4 = {} <=> Has(item, "pickup") /\ item.fields["pickup"] \in {"true", "false"}
  BY DEF ReportIf, Needed, IsText
<1>3. a5 = {} <=> Has(item, "actualDuration") /\ item.fields["actualDuration"] = "positive"
  BY TimeProblemsEmpty DEF NonPositive
<1>4. MeasureProblems(item, at) = UNION {a1, a2, a3, a4, a5}
  BY DEF MeasureProblems
<1> HIDE DEF a1, a2, a3, a4, a5
<1>5. MeasureProblems(item, at) = {} <=> a1 = {} /\ a2 = {} /\ a3 = {} /\ a4 = {} /\ a5 = {}
  <2>1. UNION {a1, a2, a3, a4, a5} = {}
          <=> a1 = {} /\ a2 = {} /\ a3 = {} /\ a4 = {} /\ a5 = {}
    OBVIOUS
  <2>2. QED
    BY <1>4, <2>1, Zenon
<1>6. process_entity(ids, item, "measures", at) = {}
        <=> /\ DOMAIN item.fields \subseteq {"id", "index", "number", "pickup", "actualDuration"}
            /\ MeasureProblems(item, at) = {}
  BY ProcessEmpty DEF Allowed, TypedProblems
<1>7. Contract!IsEntity("measures", item)
        <=> /\ DOMAIN item.fields = {"id", "index", "number", "pickup", "actualDuration"}
            /\ Contract!Holds("id", item.fields["id"])
            /\ Contract!Holds("natural", item.fields["index"])
            /\ Contract!Holds("text", item.fields["number"])
            /\ Contract!Holds("boolean", item.fields["pickup"])
            /\ Contract!Holds("duration", item.fields["actualDuration"])
  <2> DEFINE S == [id |-> "id", index |-> "natural", number |-> "text",
                   pickup |-> "boolean", actualDuration |-> "duration"]
  <2>1. /\ DOMAIN S = {"id", "index", "number", "pickup", "actualDuration"}
        /\ S["id"] = "id" /\ S["index"] = "natural" /\ S["number"] = "text"
        /\ S["pickup"] = "boolean" /\ S["actualDuration"] = "duration"
    OBVIOUS
  <2>2. Contract!IsEntity("measures", item) <=> WholeShape(item, S)
    BY DEF Contract!IsEntity, Contract!Shape, WholeShape
  <2> HIDE DEF S
  <2>3. QED
    BY <1>1, <2>1, <2>2, ShapedWhole
<1>8. /\ Contract!Holds("id", item.fields["id"])
      /\ Contract!Holds("natural", item.fields["index"])
           <=> item.fields["index"] # NonString /\ item.fields["index"] # "malformed"
      /\ Contract!Holds("text", item.fields["number"]) <=> item.fields["number"] # NonString
      /\ Contract!Holds("boolean", item.fields["pickup"]) <=> item.fields["pickup"] \in {"true", "false"}
      /\ Contract!Holds("duration", item.fields["actualDuration"])
           <=> item.fields["actualDuration"] = "positive"
  BY <1>1, HoldsTable
<1>9. QED
  BY <1>1, <1>2, <1>3, <1>5, <1>6, <1>7, <1>8 DEF IsString, Has

\* The events: pitches, the roles of a note or a rest, the fields of a kind.
IsSpelling(node) == Contract!Shaped(node, Contract!Spelling, {}, Contract!HoldsInSpelling)

LEMMA SpellingMeaning ==
  ASSUME NEW node
  PROVE  IsSpelling(node)
           <=> /\ node.isObject
               /\ DOMAIN node.fields = {"letter", "accidental", "octave"}
               /\ \A part \in {"letter", "accidental", "octave"} : node.fields[part] = "valid"
<1> DEFINE S == Contract!Spelling
<1>1. /\ DOMAIN S = {"letter", "accidental", "octave"}
      /\ \A part \in {"letter", "accidental", "octave"} : S[part] = "valid"
  BY DEF Contract!Spelling
<1>2. IsSpelling(node)
        <=> /\ node.isObject
            /\ DOMAIN S \ {} \subseteq DOMAIN node.fields
            /\ DOMAIN node.fields \subseteq DOMAIN S
            /\ \A f \in DOMAIN node.fields : node.fields[f] = S[f]
  BY DEF IsSpelling, Contract!Shaped, Contract!HoldsInSpelling
<1> HIDE DEF S
<1>3. QED
  BY <1>1, <1>2

LEMMA SpellingProblemsEmpty ==
  ASSUME NEW pitch, NEW f, NEW at
  PROVE  SpellingProblems(pitch, f, at) = {} <=> Has(pitch, f) /\ IsSpelling(pitch.fields[f])
<1> DEFINE node == pitch.fields[f]
           parts == {"letter", "accidental", "octave"}
           malformed(part) == ~Has(node, part) \/ node.fields[part] # "valid"
           a1 == ReportIf(~(DOMAIN node.fields \subseteq parts), "unknown-field", at)
           a2 == ReportIf(\E part \in parts : malformed(part), "malformed-pitch", at)
<1>1. a1 = {} <=> DOMAIN node.fields \subseteq parts
  BY DEF ReportIf
<1>2. a2 = {} <=> \A part \in parts : ~malformed(part)
  BY DEF ReportIf
<1>3. SpellingProblems(pitch, f, at)
        = IF ~Has(pitch, f) THEN {Diag("missing-required-field", at)}
          ELSE IF ~node.isObject THEN {Diag("malformed-pitch", at)} ELSE UNION {a1, a2}
  BY DEF SpellingProblems
<1> HIDE DEF a1, a2
<1>4. SpellingProblems(pitch, f, at) = {} <=> Has(pitch, f) /\ node.isObject /\ a1 = {} /\ a2 = {}
  BY <1>3
<1>5. QED
  BY <1>1, <1>2, <1>4, SpellingMeaning DEF Has

LEMMA PitchMeaning ==
  ASSUME NEW v
  PROVE  Contract!Holds("pitch", v)
           <=> /\ v.isObject
               /\ DOMAIN v.fields = {"written", "sounding", "displayAccidental"}
               /\ IsSpelling(v.fields["written"]) /\ IsSpelling(v.fields["sounding"])
               /\ v.fields["displayAccidental"] # NonString
<1> DEFINE P == Contract!Pitch
<1>1. /\ DOMAIN P = {"written", "sounding", "displayAccidental"}
      /\ P["written"] = "spelling" /\ P["sounding"] = "spelling" /\ P["displayAccidental"] = "text"
  BY DEF Contract!Pitch
<1>2. Contract!Holds("pitch", v)
        <=> /\ v.isObject
            /\ DOMAIN P \ {} \subseteq DOMAIN v.fields
            /\ DOMAIN v.fields \subseteq DOMAIN P
            /\ \A f \in DOMAIN v.fields :
                 IF P[f] = "text" THEN v.fields[f] # NonString ELSE IsSpelling(v.fields[f])
  BY DEF Contract!Holds, Contract!Shaped, Contract!HoldsInPitch, IsSpelling, Contract!Text,
         Contract!NotAText, NonString
<1> HIDE DEF P
<1>3. QED
  BY <1>1, <1>2

LEMMA PitchProblemsEmpty ==
  ASSUME NEW pitch, NEW at
  PROVE  pitch.isObject /\ PitchProblems(pitch, at) = {} <=> Contract!Holds("pitch", pitch)
<1> DEFINE a1 == ReportIf(~(DOMAIN pitch.fields \subseteq {"written", "displayAccidental", "sounding"}),
                          "unknown-field", at)
           a2 == SpellingProblems(pitch, "written", at)
           a3 == SpellingProblems(pitch, "sounding", at)
           a4 == ReportIf(~IsString(pitch, "displayAccidental"), "missing-required-field", at)
<1>1. /\ a1 = {} <=> DOMAIN pitch.fields \subseteq {"written", "displayAccidental", "sounding"}
      /\ a4 = {} <=> IsString(pitch, "displayAccidental")
  BY DEF ReportIf
<1>2. PitchProblems(pitch, at) = UNION {a1, a2, a3, a4}
  BY DEF PitchProblems
<1>3. /\ a2 = {} <=> Has(pitch, "written") /\ IsSpelling(pitch.fields["written"])
      /\ a3 = {} <=> Has(pitch, "sounding") /\ IsSpelling(pitch.fields["sounding"])
  BY SpellingProblemsEmpty
<1> HIDE DEF a1, a2, a3, a4
<1>4. PitchProblems(pitch, at) = {} <=> a1 = {} /\ a2 = {} /\ a3 = {} /\ a4 = {}
  BY <1>2
<1>5. QED
  BY <1>1, <1>3, <1>4, PitchMeaning DEF IsString, Has

\* The items of a list of roles are texts that name a role.
AllRoles(refs) ==
  \A r \in DOMAIN refs : refs[r] # NonString /\ Contract!Owns("performerRoles", refs[r])

LEMMA RoleRefProblemsEmpty ==
  ASSUME AllIdentified, AllDistinct, NEW refs, NEW at
  PROVE  RoleRefProblems(AllIdentities(document), refs, at) = {} <=> AllRoles(refs)
<1> DEFINE P(r) == IF refs[r] = NonString THEN {Diag("mistyped-reference", at)}
                   ELSE ReferenceProblems(AllIdentities(document), refs[r], "performerRoles", at)
<1>1. ASSUME NEW r PROVE P(r) = {} <=> refs[r] # NonString /\ Contract!Owns("performerRoles", refs[r])
  <2>1. ReferenceProblems(AllIdentities(document), refs[r], Collections[4], at) = {}
          <=> Contract!Owns(Collections[4], refs[r])
    <3>1. 4 \in 1..6
      OBVIOUS
    <3>2. QED
      BY <3>1, ReferenceProblemsEmpty, Zenon
  <2>2. QED
    BY <2>1, CollectionNames
<1>2. RoleRefProblems(AllIdentities(document), refs, at) = UNION {P(r) : r \in DOMAIN refs}
  BY DEF RoleRefProblems
<1> HIDE DEF P
<1>3. RoleRefProblems(AllIdentities(document), refs, at) = {} <=> \A r \in DOMAIN refs : P(r) = {}
  BY <1>2
<1>4. QED
  BY <1>1, <1>3 DEF AllRoles

LEMMA RolesMeaning ==
  ASSUME NEW v
  PROVE  /\ Contract!Holds("roles", v) <=> v.isArray /\ AllRoles(v.items)
         /\ Contract!Holds("aSet", v)
              <=> /\ v.isArray /\ AllRoles(v.items) /\ v.items # <<>>
                  /\ \A r, s \in DOMAIN v.items : v.items[r] = v.items[s] => r = s
  BY DEF Contract!Holds, Contract!RoleList, AllRoles, Contract!Text, Contract!NotAText, NonString

LEMMA NoteProblemsEmpty ==
  ASSUME AllIdentified, AllDistinct, NEW item, IsItem(item), NEW at
  PROVE  NoteProblems(AllIdentities(document), item, at) = {}
           <=> /\ Has(item, "pitch") /\ Contract!Holds("pitch", item.fields["pitch"])
               /\ Has(item, "roleRefs") /\ Contract!Holds("aSet", item.fields["roleRefs"])
<1> DEFINE ids == AllIdentities(document)
           refs == item.fields["roleRefs"].items
           pitch == item.fields["pitch"]
           isArray == Has(item, "roleRefs") /\ item.fields["roleRefs"].isArray
           here == [at EXCEPT !.field = "roleRefs"]
           there == [at EXCEPT !.field = "pitch"]
           a1 == IF Has(item, "pitch") /\ pitch.isObject THEN PitchProblems(pitch, there)
                 ELSE {Diag("missing-required-field", at)}
           a2 == ReportIf(~isArray, "missing-required-field", at)
           a3 == ReportIf(isArray /\ refs = <<>>, "empty-role-refs", here)
           a4 == IF isArray THEN RoleRefProblems(ids, refs, here) ELSE {}
           twice == \E r, s \in DOMAIN refs : r < s /\ refs[r] = refs[s] /\ refs[r] # NonString
           a5 == ReportIf(isArray /\ twice, "duplicate-role-ref", here)
<1>1. a1 = {} <=> Has(item, "pitch") /\ Contract!Holds("pitch", pitch)
  <2>1. pitch.isObject /\ PitchProblems(pitch, there) = {} <=> Contract!Holds("pitch", pitch)
    BY PitchProblemsEmpty
  <2> HIDE DEF pitch, there
  <2>2. QED
    BY <2>1
<1>2. a2 = {} <=> isArray
  BY DEF ReportIf
<1>3. a3 = {} <=> ~(isArray /\ refs = <<>>)
  BY DEF ReportIf
<1>4. isArray => (a4 = {} <=> AllRoles(refs))
  BY RoleRefProblemsEmpty
<1>5. a5 = {} <=> ~(isArray /\ twice)
  BY DEF ReportIf
<1>6. NoteProblems(ids, item, at) = UNION {a1, a2, a3, a4, a5}
  BY DEF NoteProblems
<1>7. ASSUME isArray, AllRoles(refs)
      PROVE  ~twice <=> \A r, s \in DOMAIN refs : refs[r] = refs[s] => r = s
  <2>1. DOMAIN refs \subseteq Nat
    BY <1>7 DEF IsItem, IsArray, Has
  <2> HIDE DEF refs
  <2>2. \A r \in DOMAIN refs : refs[r] # NonString
    BY <1>7 DEF AllRoles
  <2>3. QED
    BY <2>1, <2>2
<1>8. Contract!Holds("aSet", item.fields["roleRefs"])
        <=> /\ item.fields["roleRefs"].isArray /\ AllRoles(refs) /\ refs # <<>>
            /\ \A r, s \in DOMAIN refs : refs[r] = refs[s] => r = s
  BY RolesMeaning
<1> HIDE DEF a1, a2, a3, a4, a5, twice, refs
<1>9. NoteProblems(ids, item, at) = {} <=> a1 = {} /\ a2 = {} /\ a3 = {} /\ a4 = {} /\ a5 = {}
  BY <1>6
<1>10. QED
  BY <1>1, <1>2, <1>3, <1>4, <1>5, <1>7, <1>8, <1>9

LEMMA RestProblemsEmpty ==
  ASSUME AllIdentified, AllDistinct, NEW item, NEW at
  PROVE  RestProblems(AllIdentities(document), item, at) = {}
           <=> ~Has(item, "roleRefs") \/ Contract!Holds("roles", item.fields["roleRefs"])
<1> DEFINE here == [at EXCEPT !.field = "roleRefs"]
           refs == item.fields["roleRefs"].items
           P == RoleRefProblems(AllIdentities(document), refs, here)
<1>1. P = {} <=> AllRoles(refs)
  BY RoleRefProblemsEmpty
<1>2. RestProblems(AllIdentities(document), item, at)
        = IF ~Has(item, "roleRefs") THEN {}
          ELSE IF ~item.fields["roleRefs"].isArray THEN {Diag("unknown-field", here)} ELSE P
  BY DEF RestProblems
<1> HIDE DEF P
<1>3. QED
  BY <1>1, <1>2, RolesMeaning

\* What every event says, and what the kinds add.
LocatedWell(item) ==
  /\ IsString(item, "measureRef")
  /\ item.fields["measureRef"] = "" \/ Contract!Owns("measures", item.fields["measureRef"])
  /\ Has(item, "offset") /\ item.fields["offset"] \in {"zero", "positive"}

VoicedWell(item) ==
  /\ Has(item, "duration") /\ item.fields["duration"] = "positive"
  /\ IsString(item, "voiceRef") /\ Contract!Owns("voices", item.fields["voiceRef"])

SaysOfKind(item, kind) ==
  /\ DOMAIN item.fields \subseteq EventFields(kind)
  /\ LocatedWell(item)
  /\ kind \in Opaque => IsString(item, "raw")
  /\ kind \notin Opaque => VoicedWell(item)
  /\ kind = "note" => /\ Has(item, "pitch") /\ Contract!Holds("pitch", item.fields["pitch"])
                      /\ Has(item, "roleRefs") /\ Contract!Holds("aSet", item.fields["roleRefs"])
  /\ kind = "rest" => ~Has(item, "roleRefs") \/ Contract!Holds("roles", item.fields["roleRefs"])

LEMMA VoiceProblemsEmpty ==
  ASSUME AllIdentified, AllDistinct, NEW item, IsItem(item), NEW at, NEW there
  PROVE  UNION { TimeProblems(item, "duration", NonPositive, "non-positive-duration", at),
                 Needed(item, "voiceRef", at),
                 IF IsString(item, "voiceRef")
                 THEN ReferenceProblems(AllIdentities(document), item.fields["voiceRef"], "voices", there)
                 ELSE {} } = {}
           <=> VoicedWell(item)
<1> DEFINE a1 == TimeProblems(item, "duration", NonPositive, "non-positive-duration", at)
           a2 == Needed(item, "voiceRef", at)
           P  == ReferenceProblems(AllIdentities(document), item.fields["voiceRef"], "voices", there)
           a3 == IF IsString(item, "voiceRef") THEN P ELSE {}
<1>1. a1 = {} <=> Has(item, "duration") /\ item.fields["duration"] = "positive"
  BY TimeProblemsEmpty DEF NonPositive
<1>2. a2 = {} <=> IsString(item, "voiceRef")
  BY DEF Needed, ReportIf
<1>3. P = {} <=> Contract!Owns("voices", item.fields["voiceRef"])
  <2>1. 3 \in 1..6
    OBVIOUS
  <2>2. ReferenceProblems(AllIdentities(document), item.fields["voiceRef"], Collections[3], there) = {}
          <=> Contract!Owns(Collections[3], item.fields["voiceRef"])
    BY <2>1, ReferenceProblemsEmpty, Zenon
  <2>3. QED
    BY <2>2, CollectionNames
<1> HIDE DEF P, a1, a2
<1>4. UNION {a1, a2, a3} = {} <=> a1 = {} /\ a2 = {} /\ (IsString(item, "voiceRef") => P = {})
  OBVIOUS
<1>5. QED
  BY <1>1, <1>2, <1>3, <1>4 DEF VoicedWell, P, a1, a2

LEMMA EventProblemsEmpty ==
  ASSUME AllIdentified, AllDistinct, NEW item, IsItem(item), NEW at
  PROVE  EventProblems(AllIdentities(document), item, at) = {}
           <=> /\ IsString(item, "kind")
               /\ item.fields["kind"] \in {"", "note", "rest"} \cup Opaque
               /\ SaysOfKind(item, item.fields["kind"])
<1> DEFINE ids == AllIdentities(document)
           kind == need_string(item, "kind")
           there == [at EXCEPT !.field = "voiceRef"]
           a1 == Needed(item, "kind", at)
           a2 == Closed(item, EventFields(kind), at)
           a3 == ReportIf(kind \notin {"", "note", "rest"} \cup Opaque, "unknown-event-kind",
                          [at EXCEPT !.field = "kind"])
           a4 == NeededReference(ids, item, "measureRef", "measures", at)
           a5 == TimeProblems(item, "offset", {"negative"}, "negative-offset", at)
           V  == UNION { TimeProblems(item, "duration", NonPositive, "non-positive-duration", at),
                         Needed(item, "voiceRef", at),
                         IF IsString(item, "voiceRef")
                         THEN ReferenceProblems(ids, item.fields["voiceRef"], "voices", there) ELSE {} }
           R  == Needed(item, "raw", [at EXCEPT !.field = "raw"])
           N  == NoteProblems(ids, item, at)
           S  == RestProblems(ids, item, at)
           a6 == IF kind \in Opaque THEN R ELSE V
           a7 == IF kind = "note" THEN N ELSE {}
           a8 == IF kind = "rest" THEN S ELSE {}
<1>1. /\ a1 = {} <=> IsString(item, "kind")
      /\ R = {} <=> IsString(item, "raw")
      /\ a3 = {} <=> kind \in {"", "note", "rest"} \cup Opaque
  BY DEF Needed, ReportIf
<1>2. a2 = {} <=> DOMAIN item.fields \subseteq EventFields(kind)
  BY ClosedIsEmpty
<1>3. a4 = {} <=> /\ IsString(item, "measureRef")
                  /\ item.fields["measureRef"] = "" \/ Contract!Owns("measures", item.fields["measureRef"])
  <2>1. 5 \in 1..6
    OBVIOUS
  <2>2. NeededReference(ids, item, "measureRef", Collections[5], at) = {}
          <=> /\ IsString(item, "measureRef")
              /\ item.fields["measureRef"] = "" \/ Contract!Owns(Collections[5], item.fields["measureRef"])
    BY <2>1, NeededReferenceEmpty, Zenon
  <2>3. QED
    BY <2>2, CollectionNames
<1>4. a5 = {} <=> Has(item, "offset") /\ item.fields["offset"] \in {"zero", "positive"}
  BY TimeProblemsEmpty
<1>5. V = {} <=> VoicedWell(item)
  BY VoiceProblemsEmpty
<1>6. N = {} <=> /\ Has(item, "pitch") /\ Contract!Holds("pitch", item.fields["pitch"])
                 /\ Has(item, "roleRefs") /\ Contract!Holds("aSet", item.fields["roleRefs"])
  BY NoteProblemsEmpty
<1>7. S = {} <=> ~Has(item, "roleRefs") \/ Contract!Holds("roles", item.fields["roleRefs"])
  BY RestProblemsEmpty
<1>8. EventProblems(ids, item, at) = UNION {a1, a2, a3, a4, a5, a6, a7, a8}
  BY DEF EventProblems
<1> HIDE DEF a1, a2, a3, a4, a5, V, R, N, S
<1>9. EventProblems(ids, item, at) = {}
        <=> a1 = {} /\ a2 = {} /\ a3 = {} /\ a4 = {} /\ a5 = {} /\ a6 = {} /\ a7 = {} /\ a8 = {}
  <2> HIDE DEF a6, a7, a8
  <2> QED
    BY <1>8
<1>10. IsString(item, "kind") => kind = item.fields["kind"]
  BY DEF need_string
<1> HIDE DEF kind
<1>11. LocatedWell(item) <=> a4 = {} /\ a5 = {}
  BY <1>3, <1>4 DEF LocatedWell
<1>12. QED
  BY <1>1, <1>2, <1>5, <1>6, <1>7, <1>9, <1>10, <1>11 DEF SaysOfKind

LEMMA EventShapes ==
  /\ LET S == Contract!EventShape("note")
     IN  /\ DOMAIN S = {"id", "kind", "measureRef", "offset", "duration", "pitch", "roleRefs", "voiceRef"}
         /\ S["id"] = "id" /\ S["kind"] = "text" /\ S["measureRef"] = "measures" /\ S["offset"] = "offset"
         /\ S["duration"] = "duration" /\ S["pitch"] = "pitch" /\ S["roleRefs"] = "aSet"
         /\ S["voiceRef"] = "voices"
  /\ LET S == Contract!EventShape("rest")
     IN  /\ DOMAIN S = {"id", "kind", "measureRef", "offset", "duration", "roleRefs", "voiceRef"}
         /\ S["id"] = "id" /\ S["kind"] = "text" /\ S["measureRef"] = "measures" /\ S["offset"] = "offset"
         /\ S["duration"] = "duration" /\ S["roleRefs"] = "roles" /\ S["voiceRef"] = "voices"
  /\ \A kind \in Opaque :
       LET S == Contract!EventShape(kind)
       IN  /\ DOMAIN S = {"id", "kind", "measureRef", "offset", "raw"}
           /\ S["id"] = "id" /\ S["kind"] = "text" /\ S["measureRef"] = "measures"
           /\ S["offset"] = "offset" /\ S["raw"] = "text"
<1> DEFINE L == Contract!Located
           note == [duration |-> "duration", pitch |-> "pitch", roleRefs |-> "aSet", voiceRef |-> "voices"]
           rest == [duration |-> "duration", roleRefs |-> "roles", voiceRef |-> "voices"]
           raw  == [raw |-> "text"]
<1>1. /\ DOMAIN L = {"id", "kind", "measureRef", "offset"}
      /\ L["id"] = "id" /\ L["kind"] = "text" /\ L["measureRef"] = "measures" /\ L["offset"] = "offset"
  BY DEF Contract!Located
<1>2. /\ DOMAIN note = {"duration", "pitch", "roleRefs", "voiceRef"}
      /\ note["duration"] = "duration" /\ note["pitch"] = "pitch" /\ note["roleRefs"] = "aSet"
      /\ note["voiceRef"] = "voices"
  OBVIOUS
<1>3. /\ DOMAIN rest = {"duration", "roleRefs", "voiceRef"}
      /\ rest["duration"] = "duration" /\ rest["roleRefs"] = "roles" /\ rest["voiceRef"] = "voices"
  OBVIOUS
<1>4. DOMAIN raw = {"raw"} /\ raw["raw"] = "text"
  OBVIOUS
<1>5. /\ Contract!EventShape("note") = Contract!Extended(L, note)
      /\ Contract!EventShape("rest") = Contract!Extended(L, rest)
      /\ \A kind \in Opaque : Contract!EventShape(kind) = Contract!Extended(L, raw)
  BY DEF Contract!EventShape, Opaque
<1> HIDE DEF L, note, rest, raw
<1>6. LET S == Contract!EventShape("note")
      IN  /\ DOMAIN S = {"id", "kind", "measureRef", "offset", "duration", "pitch", "roleRefs", "voiceRef"}
          /\ S["id"] = "id" /\ S["kind"] = "text" /\ S["measureRef"] = "measures" /\ S["offset"] = "offset"
          /\ S["duration"] = "duration" /\ S["pitch"] = "pitch" /\ S["roleRefs"] = "aSet"
          /\ S["voiceRef"] = "voices"
  BY <1>1, <1>2, <1>5 DEF Contract!Extended
<1>7. LET S == Contract!EventShape("rest")
      IN  /\ DOMAIN S = {"id", "kind", "measureRef", "offset", "duration", "roleRefs", "voiceRef"}
          /\ S["id"] = "id" /\ S["kind"] = "text" /\ S["measureRef"] = "measures" /\ S["offset"] = "offset"
          /\ S["duration"] = "duration" /\ S["roleRefs"] = "roles" /\ S["voiceRef"] = "voices"
  BY <1>1, <1>3, <1>5 DEF Contract!Extended
<1>8. \A kind \in Opaque :
        LET S == Contract!EventShape(kind)
        IN  /\ DOMAIN S = {"id", "kind", "measureRef", "offset", "raw"}
            /\ S["id"] = "id" /\ S["kind"] = "text" /\ S["measureRef"] = "measures"
            /\ S["offset"] = "offset" /\ S["raw"] = "text"
  BY <1>1, <1>4, <1>5 DEF Contract!Extended
<1>9. QED
  BY <1>6, <1>7, <1>8

EventShaped(item, shape, optional) == Contract!Shaped(item, shape, optional, Contract!Holds)

LEMMA EventShapedMeaning ==
  ASSUME NEW item, NEW shape, NEW optional, item.isObject
  PROVE  EventShaped(item, shape, optional)
           <=> /\ DOMAIN shape \ optional \subseteq DOMAIN item.fields
               /\ DOMAIN item.fields \subseteq DOMAIN shape
               /\ \A f \in DOMAIN item.fields : Contract!Holds(shape[f], item.fields[f])
  BY DEF Contract!Shaped, EventShaped

LEMMA IsEventMeaning ==
  ASSUME NEW item, item.isObject
  PROVE  Contract!IsEvent(item)
           <=> /\ "kind" \in DOMAIN item.fields
               /\ \/ /\ item.fields["kind"] = "note"
                     /\ EventShaped(item, Contract!EventShape("note"), {})
                  \/ /\ item.fields["kind"] = "rest"
                     /\ EventShaped(item, Contract!EventShape("rest"), {"roleRefs"})
                  \/ /\ item.fields["kind"] \in Opaque
                     /\ EventShaped(item, Contract!EventShape(item.fields["kind"]), {})
<1>1. Contract!IsEvent(item)
        <=> /\ "kind" \in DOMAIN item.fields
            /\ item.fields["kind"] \in {"note", "rest", "opaqueNotation", "unsupportedRelation", "UnknownSymbol"}
            /\ EventShaped(item, Contract!EventShape(item.fields["kind"]),
                           IF item.fields["kind"] = "rest" THEN {"roleRefs"} ELSE {})
  BY DEF Contract!IsEvent, EventShaped
<1>2. CASE item.fields["kind"] = "note"
  BY <1>1, <1>2 DEF Opaque
<1>3. CASE item.fields["kind"] = "rest"
  BY <1>1, <1>3 DEF Opaque
<1>4. CASE item.fields["kind"] \in Opaque
  BY <1>1, <1>4 DEF Opaque
<1>5. CASE item.fields["kind"] \notin {"note", "rest"} \cup Opaque
  BY <1>1, <1>5 DEF Opaque
<1>6. QED
  BY <1>2, <1>3, <1>4, <1>5

\* What the fields of an event hold, kind by kind.
LEMMA LocatedHolds ==
  ASSUME NEW item, Identified(item),
         {"id", "kind", "measureRef", "offset"} \subseteq DOMAIN item.fields,
         IsString(item, "kind")
  PROVE  /\ Contract!Holds("id", item.fields["id"])
         /\ Contract!Holds("text", item.fields["kind"])
         /\ Contract!Holds("measures", item.fields["measureRef"])
              /\ Contract!Holds("offset", item.fields["offset"])
              <=> LocatedWell(item)
  BY HoldsTable DEF LocatedWell, Identified, IsString, Has

LEMMA NoteAgrees ==
  ASSUME NEW item, Identified(item), IsString(item, "kind"), item.fields["kind"] = "note"
  PROVE  SaysOfKind(item, "note") <=> EventShaped(item, Contract!EventShape("note"), {})
<1> DEFINE All == {"id", "kind", "measureRef", "offset", "duration", "pitch", "roleRefs", "voiceRef"}
           S == Contract!EventShape("note")
<1>1. EventFields("note") = All /\ "note" \notin Opaque
  BY DEF EventFields, Opaque
<1>2. SaysOfKind(item, "note")
        <=> /\ DOMAIN item.fields \subseteq All
            /\ LocatedWell(item) /\ VoicedWell(item)
            /\ Has(item, "pitch") /\ Contract!Holds("pitch", item.fields["pitch"])
            /\ Has(item, "roleRefs") /\ Contract!Holds("aSet", item.fields["roleRefs"])
  BY <1>1 DEF SaysOfKind
<1>3. EventShaped(item, S, {})
        <=> /\ DOMAIN item.fields = All
            /\ \A f \in All : Contract!Holds(S[f], item.fields[f])
  BY EventShapes, EventShapedMeaning DEF Identified
<1>4. (\A f \in All : Contract!Holds(S[f], item.fields[f]))
        <=> /\ Contract!Holds("id", item.fields["id"])
            /\ Contract!Holds("text", item.fields["kind"])
            /\ Contract!Holds("measures", item.fields["measureRef"])
            /\ Contract!Holds("offset", item.fields["offset"])
            /\ Contract!Holds("duration", item.fields["duration"])
            /\ Contract!Holds("pitch", item.fields["pitch"])
            /\ Contract!Holds("aSet", item.fields["roleRefs"])
            /\ Contract!Holds("voices", item.fields["voiceRef"])
  BY EventShapes
<1>5. VoicedWell(item)
        <=> /\ Has(item, "duration") /\ Has(item, "voiceRef")
            /\ Contract!Holds("duration", item.fields["duration"])
            /\ Contract!Holds("voices", item.fields["voiceRef"])
  BY HoldsTable DEF VoicedWell, IsString, Has
<1>6. LocatedWell(item) => {"id", "kind", "measureRef", "offset"} \subseteq DOMAIN item.fields
  BY DEF LocatedWell, IsString, Has, Identified
<1> HIDE DEF S
<1>7. ASSUME SaysOfKind(item, "note") PROVE EventShaped(item, S, {})
  <2>1. DOMAIN item.fields = All
    BY <1>2, <1>5, <1>6, <1>7 DEF Has
  <2>2. QED
    BY <1>2, <1>3, <1>4, <1>5, <1>6, <1>7, <2>1, LocatedHolds
<1>8. ASSUME EventShaped(item, S, {}) PROVE SaysOfKind(item, "note")
  <2>1. DOMAIN item.fields = All
    BY <1>3, <1>8
  <2>2. QED
    BY <1>2, <1>3, <1>4, <1>5, <1>8, <2>1, LocatedHolds DEF Has
<1>9. QED
  BY <1>7, <1>8 DEF S

LEMMA RestAgrees ==
  ASSUME NEW item, Identified(item), IsString(item, "kind"), item.fields["kind"] = "rest"
  PROVE  SaysOfKind(item, "rest") <=> EventShaped(item, Contract!EventShape("rest"), {"roleRefs"})
<1> DEFINE All == {"id", "kind", "measureRef", "offset", "duration", "roleRefs", "voiceRef"}
           Most == {"id", "kind", "measureRef", "offset", "duration", "voiceRef"}
           S == Contract!EventShape("rest")
<1>1. EventFields("rest") = All /\ "rest" \notin Opaque
  BY DEF EventFields, Opaque
<1>2. SaysOfKind(item, "rest")
        <=> /\ DOMAIN item.fields \subseteq All
            /\ LocatedWell(item) /\ VoicedWell(item)
            /\ ~Has(item, "roleRefs") \/ Contract!Holds("roles", item.fields["roleRefs"])
  BY <1>1 DEF SaysOfKind
<1>3. EventShaped(item, S, {"roleRefs"})
        <=> /\ Most \subseteq DOMAIN item.fields /\ DOMAIN item.fields \subseteq All
            /\ \A f \in DOMAIN item.fields : Contract!Holds(S[f], item.fields[f])
  <2>1. DOMAIN S = All /\ All \ {"roleRefs"} = Most
    BY EventShapes
  <2>2. QED
    BY <2>1, EventShapedMeaning DEF Identified
<1>4. ASSUME Most \subseteq DOMAIN item.fields, DOMAIN item.fields \subseteq All
      PROVE  (\A f \in DOMAIN item.fields : Contract!Holds(S[f], item.fields[f]))
              <=> /\ Contract!Holds("id", item.fields["id"])
                  /\ Contract!Holds("text", item.fields["kind"])
                  /\ Contract!Holds("measures", item.fields["measureRef"])
                  /\ Contract!Holds("offset", item.fields["offset"])
                  /\ Contract!Holds("duration", item.fields["duration"])
                  /\ Contract!Holds("voices", item.fields["voiceRef"])
                  /\ ~Has(item, "roleRefs") \/ Contract!Holds("roles", item.fields["roleRefs"])
  BY <1>4, EventShapes DEF Has
<1>5. VoicedWell(item)
        <=> /\ Has(item, "duration") /\ Has(item, "voiceRef")
            /\ Contract!Holds("duration", item.fields["duration"])
            /\ Contract!Holds("voices", item.fields["voiceRef"])
  BY HoldsTable DEF VoicedWell, IsString, Has
<1>6. LocatedWell(item) => {"id", "kind", "measureRef", "offset"} \subseteq DOMAIN item.fields
  BY DEF LocatedWell, IsString, Has, Identified
<1> HIDE DEF S
<1>7. ASSUME SaysOfKind(item, "rest") PROVE EventShaped(item, S, {"roleRefs"})
  <2>1. Most \subseteq DOMAIN item.fields
    BY <1>2, <1>5, <1>6, <1>7 DEF Has
  <2>2. QED
    BY <1>2, <1>3, <1>4, <1>5, <1>6, <1>7, <2>1, LocatedHolds
<1>8. ASSUME EventShaped(item, S, {"roleRefs"}) PROVE SaysOfKind(item, "rest")
  <2>1. Most \subseteq DOMAIN item.fields
    BY <1>3, <1>8
  <2>2. QED
    BY <1>2, <1>3, <1>4, <1>5, <1>8, <2>1, LocatedHolds DEF Has
<1>9. QED
  BY <1>7, <1>8 DEF S

LEMMA OpaqueAgrees ==
  ASSUME NEW item, Identified(item), IsString(item, "kind"), item.fields["kind"] \in Opaque
  PROVE  SaysOfKind(item, item.fields["kind"])
           <=> EventShaped(item, Contract!EventShape(item.fields["kind"]), {})
<1> DEFINE All == {"id", "kind", "measureRef", "offset", "raw"}
           kind == item.fields["kind"]
           S == Contract!EventShape(kind)
<1>1. EventFields(kind) = All /\ kind \notin {"note", "rest"} /\ kind \in Opaque
  BY DEF EventFields, Opaque
<1>2. SaysOfKind(item, kind)
        <=> DOMAIN item.fields \subseteq All /\ LocatedWell(item) /\ IsString(item, "raw")
  BY <1>1 DEF SaysOfKind
<1>3. /\ DOMAIN S = All
      /\ S["id"] = "id" /\ S["kind"] = "text" /\ S["measureRef"] = "measures"
      /\ S["offset"] = "offset" /\ S["raw"] = "text"
  BY EventShapes
<1>4. item.isObject
  BY DEF Identified
<1> HIDE DEF S
<1>5. EventShaped(item, S, {})
        <=> /\ DOMAIN item.fields = All
            /\ \A f \in All : Contract!Holds(S[f], item.fields[f])
  BY <1>3, <1>4, EventShapedMeaning
<1>6. (\A f \in All : Contract!Holds(S[f], item.fields[f]))
        <=> /\ Contract!Holds("id", item.fields["id"])
            /\ Contract!Holds("text", item.fields["kind"])
            /\ Contract!Holds("measures", item.fields["measureRef"])
            /\ Contract!Holds("offset", item.fields["offset"])
            /\ Contract!Holds("text", item.fields["raw"])
  BY <1>3
<1>7. Contract!Holds("text", item.fields["raw"]) <=> item.fields["raw"] # NonString
  BY HoldsTable
<1>8. LocatedWell(item) => {"id", "kind", "measureRef", "offset"} \subseteq DOMAIN item.fields
  BY DEF LocatedWell, IsString, Has, Identified
<1>9. ASSUME SaysOfKind(item, kind) PROVE EventShaped(item, S, {})
  <2>1. DOMAIN item.fields = All
    BY <1>2, <1>8, <1>9 DEF IsString, Has
  <2>2. QED
    BY <1>2, <1>5, <1>6, <1>7, <1>8, <1>9, <2>1, LocatedHolds DEF IsString
<1>10. ASSUME EventShaped(item, S, {}) PROVE SaysOfKind(item, kind)
  <2>1. DOMAIN item.fields = All
    BY <1>5, <1>10
  <2>2. QED
    BY <1>2, <1>5, <1>6, <1>7, <1>10, <2>1, LocatedHolds DEF IsString, Has
<1>11. QED
  BY <1>9, <1>10 DEF S

LEMMA EventsAgree ==
  ASSUME AllIdentified, AllDistinct, NEW item, NEW at, Identified(item), IsItem(item)
  PROVE  process_entity(AllIdentities(document), item, "events", at) = {}
           <=> Contract!IsEntity("events", item)
<1> DEFINE kind == item.fields["kind"]
<1>1. process_entity(AllIdentities(document), item, "events", at) = {}
        <=> /\ DOMAIN item.fields \subseteq Allowed("events")
            /\ EventProblems(AllIdentities(document), item, at) = {}
  BY ProcessEmpty DEF TypedProblems
<1>2. EventFields(kind) \subseteq Allowed("events")
  BY DEF EventFields, Allowed
<1>3. EventProblems(AllIdentities(document), item, at) = {}
        <=> /\ IsString(item, "kind") /\ kind \in {"", "note", "rest"} \cup Opaque
            /\ SaysOfKind(item, kind)
  BY EventProblemsEmpty
<1>4. Contract!IsEntity("events", item) <=> Contract!IsEvent(item)
  BY DEF Contract!IsEntity
<1>5. ~SaysOfKind(item, "")
  <2>1. EventFields("") = {"id", "kind", "measureRef", "offset"} /\ "" \notin Opaque
    BY DEF EventFields, Opaque
  <2>2. QED
    BY <2>1 DEF SaysOfKind, VoicedWell, Has
<1>6. process_entity(AllIdentities(document), item, "events", at) = {}
        <=> /\ IsString(item, "kind") /\ kind \in {"note", "rest"} \cup Opaque
            /\ SaysOfKind(item, kind)
  BY <1>1, <1>2, <1>3, <1>5 DEF SaysOfKind
<1>7. item.isObject
  BY DEF Identified
<1>8. "kind" \in DOMAIN item.fields /\ kind \in {"note", "rest"} \cup Opaque => IsString(item, "kind")
  BY DEF IsString, Has, NonString, Opaque
<1>9. CASE ~IsString(item, "kind") \/ kind \notin {"note", "rest"} \cup Opaque
  BY <1>4, <1>6, <1>7, <1>8, <1>9, IsEventMeaning
<1>10. CASE IsString(item, "kind") /\ kind = "note"
  BY <1>4, <1>6, <1>7, <1>10, IsEventMeaning, NoteAgrees DEF IsString, Has, Opaque
<1>11. CASE IsString(item, "kind") /\ kind = "rest"
  BY <1>4, <1>6, <1>7, <1>11, IsEventMeaning, RestAgrees DEF IsString, Has, Opaque
<1>12. CASE IsString(item, "kind") /\ kind \in Opaque
  BY <1>4, <1>6, <1>7, <1>12, IsEventMeaning, OpaqueAgrees DEF IsString, Has, Opaque
<1>13. QED
  BY <1>9, <1>10, <1>11, <1>12

-----------------------------------------------------------------------------
(***************************************************************************)
(* The whole document.                                                     *)
(***************************************************************************)
Required == {"$schema", "version", "scoreId"} \cup {Collections[k] : k \in 1..6}

HeaderIsRight ==
  /\ DOMAIN document.fields \subseteq Required \cup {"metadata"}
  /\ {"$schema", "version", "scoreId"} \subseteq DOMAIN document.fields
  /\ Contract!IsHeader

LEMMA MetadataProblemsEmpty ==
  MetadataProblems(document) = {}
    <=> ("metadata" \in DOMAIN document.fields =>
           LET meta == document.fields["metadata"]
           IN  /\ meta.isObject /\ DOMAIN meta.fields \subseteq {"title"}
               /\ \A f \in DOMAIN meta.fields : Contract!Text(meta.fields[f]))
<1> DEFINE meta == document.fields["metadata"]
           a1 == Closed(meta, {"title"}, At("metadata", 0, ""))
           a2 == ReportIf(Has(meta, "title") /\ ~IsString(meta, "title"), "unknown-field", Root)
<1>1. a1 = {} <=> DOMAIN meta.fields \subseteq {"title"}
  BY ClosedIsEmpty
<1>2. a2 = {} <=> ~(Has(meta, "title") /\ ~IsString(meta, "title"))
  BY DEF ReportIf
<1>3. MetadataProblems(document)
        = IF ~Has(document, "metadata") THEN {}
          ELSE IF ~meta.isObject THEN {Diag("unknown-field", Root)} ELSE a1 \cup a2
  BY DEF MetadataProblems
<1> HIDE DEF a1, a2
<1>4. MetadataProblems(document) = {}
        <=> (Has(document, "metadata") => meta.isObject /\ a1 = {} /\ a2 = {})
  BY <1>3
<1>5. QED
  BY <1>1, <1>2, <1>4 DEF Has, IsString, Contract!Text, Contract!NotAText, NonString

LEMMA HeaderProblemsEmpty ==
  HeaderProblems(document) = {} <=> HeaderIsRight
<1> DEFINE doc == document
           known == {"$schema", "version", "scoreId", "metadata"} \cup {Collections[k] : k \in 1..6}
           a1 == Closed(doc, known, Root)
           a2 == ReportIf(~Has(doc, "$schema"), "missing-schema-binding", Root)
           a3 == ReportIf(Has(doc, "$schema") /\ ~IsText(doc, "$schema", "choirloom:score/scoreir/0.1.0"),
                          "schema-binding-mismatch", Root)
           a4 == ReportIf(Has(doc, "$id"), "schema-binding-mismatch", Root)
           a5 == ReportIf(~Has(doc, "version"), "missing-required-field", Root)
           a6 == ReportIf(Has(doc, "version") /\ ~IsText(doc, "version", "0.1.0"),
                          "unsupported-scoreir-version", Root)
           a7 == ReportIf(~Has(doc, "scoreId"), "missing-required-field", Root)
           a8 == ReportIf(Has(doc, "scoreId") /\ ~ScoreIdOk(doc), "malformed-entity-id", Root)
           a9 == MetadataProblems(doc)
<1>1. a1 = {} <=> DOMAIN doc.fields \subseteq known
  BY ClosedIsEmpty
<1>2. /\ a2 = {} <=> Has(doc, "$schema")
      /\ a3 = {} <=> ~(Has(doc, "$schema") /\ ~IsText(doc, "$schema", "choirloom:score/scoreir/0.1.0"))
      /\ a4 = {} <=> ~Has(doc, "$id")
      /\ a5 = {} <=> Has(doc, "version")
  BY DEF ReportIf
<1>3. /\ a6 = {} <=> ~(Has(doc, "version") /\ ~IsText(doc, "version", "0.1.0"))
      /\ a7 = {} <=> Has(doc, "scoreId")
      /\ a8 = {} <=> ~(Has(doc, "scoreId") /\ ~ScoreIdOk(doc))
  BY DEF ReportIf
<1>4. HeaderProblems(doc) = UNION {a1, a2, a3, a4, a5, a6, a7, a8, a9}
  BY DEF HeaderProblems
<1>5. a9 = {} <=> ("metadata" \in DOMAIN document.fields =>
           LET meta == document.fields["metadata"]
           IN  /\ meta.isObject /\ DOMAIN meta.fields \subseteq {"title"}
               /\ \A f \in DOMAIN meta.fields : Contract!Text(meta.fields[f]))
  BY MetadataProblemsEmpty
<1> HIDE DEF a1, a2, a3, a4, a5, a6, a7, a8, a9
<1>6. HeaderProblems(doc) = {}
        <=> a1 = {} /\ a2 = {} /\ a3 = {} /\ a4 = {} /\ a5 = {} /\ a6 = {} /\ a7 = {} /\ a8 = {} /\ a9 = {}
  BY <1>4
<1>7. /\ IsText(doc, "$schema", "choirloom:score/scoreir/0.1.0")
           <=> Has(doc, "$schema") /\ doc.fields["$schema"] = "choirloom:score/scoreir/0.1.0"
      /\ IsText(doc, "version", "0.1.0") <=> Has(doc, "version") /\ doc.fields["version"] = "0.1.0"
  BY DEF IsText, IsString, NonString
<1>8. ScoreIdOk(doc) <=> Has(doc, "scoreId") /\ doc.fields["scoreId"] \in EntityId
  BY EntityIdAssumption DEF ScoreIdOk, IsString
<1>9. known = Required \cup {"metadata"}
  BY DEF Required
<1>10. "$id" \notin known
  BY CollectionNames
<1> HIDE DEF known
<1>11. Contract!IsHeader
         <=> /\ doc.fields["$schema"] = "choirloom:score/scoreir/0.1.0"
             /\ doc.fields["version"] = "0.1.0"
             /\ doc.fields["scoreId"] \in EntityId
             /\ a9 = {}
  BY <1>5 DEF Contract!IsHeader
<1>12. QED
  BY <1>1, <1>2, <1>3, <1>6, <1>7, <1>8, <1>9, <1>10, <1>11 DEF HeaderIsRight, Has

LEMMA KindNames ==
  /\ Contract!Kinds = {Collections[k] : k \in 1..6}
  /\ \A k, n \in 1..6 : Collections[k] = Collections[n] => k = n
<1>1. \A x : x \in Contract!Kinds <=> \E k \in 1..6 : x = Collections[k]
  BY CollectionNames DEF Contract!Kinds
<1>2. QED
  BY <1>1, CollectionNames

LEMMA ProblemsEmpty ==
  Problems(document) = {}
    <=> /\ HeaderProblems(document) = {}
        /\ \A k \in 1..6 : IdProblems(document, Collections[k]) = {}
        /\ AllDistinct
        /\ \A k \in 1..6 : EntityProblems(AllIdentities(document), document, Collections[k]) = {}
<1> DEFINE P(k) == IdProblems(document, Collections[k])
           Q(k) == EntityProblems(AllIdentities(document), document, Collections[k])
           Ps == UNION {P(k) : k \in 1..6}
           Qs == UNION {Q(k) : k \in 1..6}
           D  == DuplicateProblems(AllIdentities(document))
<1>1. Problems(document) = ((HeaderProblems(document) \cup Ps) \cup D) \cup Qs
  <2>1. 1..Len(Collections) = 1..6
    BY CollectionNames
  <2>2. QED
    BY <2>1, Zenon DEF Problems, ProblemsUpTo, IdentityProblems, CollectProblems
<1>2. D = {} <=> AllDistinct
  BY DEF AllDistinct
<1> HIDE DEF P, Q, D
<1>3. (Ps = {} <=> \A k \in 1..6 : P(k) = {}) /\ (Qs = {} <=> \A k \in 1..6 : Q(k) = {})
  OBVIOUS
<1> HIDE DEF Ps, Qs
<1>4. Problems(document) = {} <=> HeaderProblems(document) = {} /\ Ps = {} /\ D = {} /\ Qs = {}
  BY <1>1
<1>5. QED
  BY <1>2, <1>3, <1>4 DEF P, Q

LEMMA IdentifiedMeaning ==
  ASSUME IsDocument(document)
  PROVE  AllIdentified
           <=> /\ \A kind \in Contract!Kinds : kind \in DOMAIN document.fields
               /\ Contract!Identified
               /\ \A kind \in Contract!Kinds : \A i \in DOMAIN Contract!Entities(kind) :
                    Contract!Id(kind, i) \in EntityId
<1>1. ASSUME NEW k \in 1..6
      PROVE  /\ IsCollection(document, Collections[k])
             /\ \A i \in DOMAIN Items(document, Collections[k]) :
                  Identified(Items(document, Collections[k])[i])
             <=> /\ Collections[k] \in DOMAIN document.fields
                 /\ document.fields[Collections[k]].isArray
                 /\ \A i \in DOMAIN Contract!Entities(Collections[k]) :
                      /\ Contract!Entities(Collections[k])[i].isObject
                      /\ "id" \in DOMAIN Contract!Entities(Collections[k])[i].fields
                      /\ Contract!Id(Collections[k], i) \in EntityId
  BY EntityIdAssumption
     DEF IsCollection, Has, Items, Identified, IsString, Contract!Entities, Contract!Id
<1>2. QED
  BY <1>1, KindNames DEF AllIdentified, Contract!Identified

LEMMA DistinctMeaning ==
  ASSUME IsDocument(document), AllIdentified, ScoreIdOk(document)
  PROVE  AllDistinct <=> Contract!IdentitiesAreDistinct
<1> DEFINE ids == AllIdentities(document)
           id(k, i) == Items(document, Collections[k])[i].fields["id"]
           I(k) == DOMAIN Items(document, Collections[k])
           score == Entry(0, 0, document.fields["scoreId"])
<1>1. AllDistinct <=> \A a, b \in ids : a.id = b.id => a = b
  BY DEF AllDistinct, DuplicateProblems, ReportIf
<1>2. ScoreIdentity(document) = {score}
  BY DEF ScoreIdentity
<1>3. \A e : e \in ids <=> e = score \/ \E k \in 1..6 : \E i \in I(k) : e = Entry(k, i, id(k, i))
  BY <1>2, RegisteredEntries
<1>4. \A k \in 1..6 : Items(document, Collections[k]) = Contract!Entities(Collections[k])
  BY DEF AllIdentified, Items, Contract!Entities
<1>5. Contract!IdentitiesAreDistinct
        <=> /\ \A k \in 1..6 : \A i \in I(k) : id(k, i) # document.fields["scoreId"]
            /\ \A k, n \in 1..6 : \A i \in I(k), j \in I(n) : id(k, i) = id(n, j) => k = n /\ i = j
  <2> DEFINE Own(k) == \E i \in I(k) : id(k, i) = document.fields["scoreId"]
             Once(k, n) == \A i \in I(k), j \in I(n) : id(k, i) = id(n, j) => k = n /\ i = j
  <2>1. ASSUME NEW k \in 1..6
        PROVE  Contract!Owns(Collections[k], document.fields["scoreId"]) <=> Own(k)
    BY OwnsHere
  <2>2. ASSUME NEW k \in 1..6, NEW n \in 1..6
        PROVE  (\A i \in DOMAIN Contract!Entities(Collections[k]),
                  j \in DOMAIN Contract!Entities(Collections[n]) :
                  Contract!Id(Collections[k], i) = Contract!Id(Collections[n], j)
                    => Collections[k] = Collections[n] /\ i = j)
               <=> Once(k, n)
    BY <1>4, KindNames DEF Contract!Id
  <2> HIDE DEF Own, Once
  <2>3. Contract!IdentitiesAreDistinct
          <=> /\ \A k \in 1..6 : ~Own(k)
              /\ \A k, n \in 1..6 : Once(k, n)
    <3>1. (\A kind \in Contract!Kinds : ~Contract!Owns(kind, document.fields["scoreId"]))
            <=> \A k \in 1..6 : ~Own(k)
      BY <2>1, KindNames
    <3>2. (\A k1, k2 \in Contract!Kinds :
             \A i \in DOMAIN Contract!Entities(k1), j \in DOMAIN Contract!Entities(k2) :
               Contract!Id(k1, i) = Contract!Id(k2, j) => k1 = k2 /\ i = j)
            <=> \A k, n \in 1..6 : Once(k, n)
      BY <2>2, KindNames
    <3>3. QED
      BY <3>1, <3>2 DEF Contract!IdentitiesAreDistinct
  <2>4. QED
    BY <2>3 DEF Own, Once
<1> HIDE DEF ids, id, I, score
<1>6. /\ \A k, i, x : Entry(k, i, x).k = k /\ Entry(k, i, x).i = i /\ Entry(k, i, x).id = x
      /\ score.id = document.fields["scoreId"] /\ score.k = 0
  BY DEF Entry, score
<1>7. ASSUME AllDistinct PROVE Contract!IdentitiesAreDistinct
  <2>1. ASSUME NEW k \in 1..6, NEW i \in I(k) PROVE id(k, i) # document.fields["scoreId"]
    BY <1>1, <1>3, <1>6, <1>7
  <2>2. ASSUME NEW k \in 1..6, NEW n \in 1..6, NEW i \in I(k), NEW j \in I(n), id(k, i) = id(n, j)
        PROVE  k = n /\ i = j
    <3>1. Entry(k, i, id(k, i)) \in ids /\ Entry(n, j, id(n, j)) \in ids
      BY <1>3
    <3>2. Entry(k, i, id(k, i)) = Entry(n, j, id(n, j))
      BY <1>1, <1>6, <1>7, <2>2, <3>1
    <3>3. QED
      BY <1>6, <3>2
  <2>3. QED
    BY <1>5, <2>1, <2>2
<1>8. ASSUME Contract!IdentitiesAreDistinct PROVE AllDistinct
  <2> SUFFICES ASSUME NEW a \in ids, NEW b \in ids, a.id = b.id PROVE a = b
    BY <1>1
  <2>1. CASE a = score \/ b = score
    BY <1>3, <1>5, <1>6, <1>8, <2>1
  <2>2. CASE a # score /\ b # score
    <3>1. PICK k \in 1..6 : \E i \in I(k) : a = Entry(k, i, id(k, i))
      BY <1>3, <2>2
    <3>2. PICK i \in I(k) : a = Entry(k, i, id(k, i))
      BY <3>1
    <3>3. PICK n \in 1..6 : \E j \in I(n) : b = Entry(n, j, id(n, j))
      BY <1>3, <2>2
    <3>4. PICK j \in I(n) : b = Entry(n, j, id(n, j))
      BY <3>3
    <3>5. id(k, i) = id(n, j)
      BY <1>6, <3>2, <3>4
    <3>6. k = n /\ i = j
      BY <1>5, <1>8, <3>5
    <3>7. QED
      BY <3>2, <3>4, <3>6
  <2>3. QED
    BY <2>1, <2>2
<1>9. QED
  BY <1>7, <1>8

LEMMA EntitiesAgree ==
  ASSUME IsDocument(document), AllIdentified, AllDistinct, NEW k \in 1..6
  PROVE  EntityProblems(AllIdentities(document), document, Collections[k]) = {}
           <=> \A i \in DOMAIN Contract!Entities(Collections[k]) :
                 Contract!IsEntity(Collections[k], Contract!Entities(Collections[k])[i])
<1> DEFINE items == Items(document, Collections[k])
           P(i) == process_entity(AllIdentities(document), items[i], Collections[k],
                                  At(Collections[k], i, ""))
<1>1. items = Contract!Entities(Collections[k])
  BY DEF AllIdentified, Items, Contract!Entities
<1>2. \A i \in DOMAIN items : Identified(items[i]) /\ items[i].isObject
  BY DEF AllIdentified, Identified
<1>3. \A i \in DOMAIN items : IsItem(items[i])
  BY DEF AllIdentified, IsDocument, Items, IsCollection, Has
<1>4. EntityProblems(AllIdentities(document), document, Collections[k])
        = UNION {IF items[i].isObject THEN P(i) ELSE {} : i \in DOMAIN items}
  BY DEF EntityProblems
<1>5. ASSUME NEW i \in DOMAIN items
      PROVE  P(i) = {} <=> Contract!IsEntity(Collections[k], items[i])
  <2> DEFINE item == items[i]
             at == At(Collections[k], i, "")
  <2>1. Identified(item) /\ IsItem(item)
    BY <1>2, <1>3
  <2> HIDE DEF item, at, items
  <2>2. /\ process_entity(AllIdentities(document), item, "parts", at) = {} <=> Contract!IsEntity("parts", item)
        /\ process_entity(AllIdentities(document), item, "staves", at) = {} <=> Contract!IsEntity("staves", item)
        /\ process_entity(AllIdentities(document), item, "voices", at) = {} <=> Contract!IsEntity("voices", item)
    BY <2>1, PartsAgree, StavesAgree, VoicesAgree
  <2>3. /\ process_entity(AllIdentities(document), item, "performerRoles", at) = {}
             <=> Contract!IsEntity("performerRoles", item)
        /\ process_entity(AllIdentities(document), item, "measures", at) = {} <=> Contract!IsEntity("measures", item)
        /\ process_entity(AllIdentities(document), item, "events", at) = {} <=> Contract!IsEntity("events", item)
    BY <2>1, RolesAgree, MeasuresAgree, EventsAgree
  <2>4. k = 1 \/ k = 2 \/ k = 3 \/ k = 4 \/ k = 5 \/ k = 6
    OBVIOUS
  <2>5. process_entity(AllIdentities(document), item, Collections[k], at) = {}
          <=> Contract!IsEntity(Collections[k], item)
    BY <2>2, <2>3, <2>4, CollectionNames
  <2>6. QED
    BY <2>5 DEF item, at
<1> HIDE DEF P
<1>6. EntityProblems(AllIdentities(document), document, Collections[k]) = {}
        <=> \A i \in DOMAIN items : P(i) = {}
  BY <1>2, <1>4
<1>7. QED
  BY <1>1, <1>5, <1>6

\* The rules of the two passes and the contract agree on every document.
LEMMA RulesAgree ==
  ASSUME IsDocument(document), document.isObject
  PROVE  Problems(document) = {} <=> Contract!WellFormed
<1>1. Contract!WellFormed
        <=> /\ HeaderIsRight
            /\ \A kind \in Contract!Kinds : kind \in DOMAIN document.fields
            /\ Contract!Identified
            /\ Contract!IdentitiesAreDistinct
            /\ \A kind \in Contract!Kinds : \A i \in DOMAIN Contract!Entities(kind) :
                 Contract!IsEntity(kind, Contract!Entities(kind)[i])
  BY KindNames DEF Contract!WellFormed, HeaderIsRight, Required
<1>2. (\A k \in 1..6 : IdProblems(document, Collections[k]) = {}) <=> AllIdentified
  BY IdProblemsEmpty DEF AllIdentified
<1>3. ASSUME Contract!WellFormed, NEW kind \in Contract!Kinds, NEW i \in DOMAIN Contract!Entities(kind)
      PROVE  Contract!Id(kind, i) \in EntityId
  <2> DEFINE item == Contract!Entities(kind)[i]
  <2>1. Contract!IsEntity(kind, item) /\ item.isObject /\ "id" \in DOMAIN item.fields
    BY <1>1, <1>3 DEF Contract!Identified
  <2> HIDE DEF item
  <2>2. item.fields["id"] \in EntityId
    <3>1. kind # "events" => Contract!Shape(kind)["id"] = "id" /\ WholeShape(item, Contract!Shape(kind))
      BY <2>1 DEF Contract!IsEntity, Contract!Shape, Contract!Kinds, WholeShape
    <3>2. kind = "events" => \E shape, optional : shape["id"] = "id" /\ EventShaped(item, shape, optional)
      BY <2>1, IsEventMeaning, EventShapes DEF Contract!IsEntity
    <3>3. Contract!Holds("id", item.fields["id"])
      BY <2>1, <3>1, <3>2, ShapedWhole, EventShapedMeaning
    <3>4. QED
      BY <3>3, HoldsTable
  <2>3. QED
    BY <2>2 DEF Contract!Id, item
<1>4. Contract!WellFormed => AllIdentified
  BY <1>1, <1>3, IdentifiedMeaning
<1>5. HeaderIsRight => ScoreIdOk(document)
  BY EntityIdAssumption DEF HeaderIsRight, Contract!IsHeader, ScoreIdOk, IsString, Has
<1>6. ASSUME AllIdentified, HeaderIsRight
      PROVE  Problems(document) = {} <=> Contract!WellFormed
  <2>1. AllDistinct <=> Contract!IdentitiesAreDistinct
    BY <1>5, <1>6, DistinctMeaning
  <2>2. Contract!Identified /\ \A kind \in Contract!Kinds : kind \in DOMAIN document.fields
    BY <1>6, IdentifiedMeaning
  <2>3. AllDistinct =>
          ((\A k \in 1..6 : EntityProblems(AllIdentities(document), document, Collections[k]) = {})
             <=> \A kind \in Contract!Kinds : \A i \in DOMAIN Contract!Entities(kind) :
                   Contract!IsEntity(kind, Contract!Entities(kind)[i]))
    BY <1>6, EntitiesAgree, KindNames
  <2>4. QED
    BY <1>1, <1>2, <1>6, <2>1, <2>2, <2>3, ProblemsEmpty, HeaderProblemsEmpty
<1>7. QED
  BY <1>1, <1>2, <1>4, <1>6, ProblemsEmpty, HeaderProblemsEmpty

-----------------------------------------------------------------------------
(***************************************************************************)
(* What the answer means.                                                  *)
(***************************************************************************)
LEMMA AcceptedMeaning ==
  ASSUME PassInv
  PROVE  /\ IsDocument(document)
         /\ Accepted => /\ document.isObject /\ Problems(document) = {}
                        /\ Contract!WellFormed
                        /\ result[1].canonical = Canonical(document)
         /\ pc = "done" /\ Contract!WellFormed => Accepted
<1>1. IsDocument(document)
  BY DocumentsAssumption DEF PassInv
<1>2. Accepted => document.isObject /\ Problems(document) = {} /\ result[1].canonical = Canonical(document)
  BY DEF PassInv, PassInvariant
<1>3. Contract!WellFormed => document.isObject
  BY DEF Contract!WellFormed
<1>4. pc = "done" /\ Contract!WellFormed => diags = {}
  BY <1>1, <1>3, RulesAgree DEF PassInv, PassInvariant
<1>5. QED
  BY <1>1, <1>2, <1>4, RulesAgree DEF PassInv, PassInvariant

\* What an accepted document satisfies, by the rules that found nothing.
Clean ==
  /\ IsDocument(document) /\ document.isObject /\ ScoreIdOk(document)
  /\ HeaderIsRight /\ AllIdentified /\ AllDistinct
  /\ \A k \in 1..6 : \A i \in DOMAIN Items(document, Collections[k]) :
       LET item == Items(document, Collections[k])[i]
       IN  /\ Identified(item) /\ IsItem(item)
           /\ process_entity(AllIdentities(document), item, Collections[k], At(Collections[k], i, "")) = {}

LEMMA NoProblemsIsClean ==
  ASSUME IsDocument(document), document.isObject, Problems(document) = {}
  PROVE  Clean
<1>1. HeaderIsRight
  BY ProblemsEmpty, HeaderProblemsEmpty
<1>2. ScoreIdOk(document)
  BY <1>1, EntityIdAssumption DEF HeaderIsRight, Contract!IsHeader, ScoreIdOk, IsString, Has
<1>3. AllIdentified /\ AllDistinct
  BY ProblemsEmpty, IdProblemsEmpty DEF AllIdentified
<1>4. ASSUME NEW k \in 1..6, NEW i \in DOMAIN Items(document, Collections[k])
      PROVE  LET item == Items(document, Collections[k])[i]
             IN  /\ Identified(item) /\ IsItem(item)
                 /\ process_entity(AllIdentities(document), item, Collections[k],
                                   At(Collections[k], i, "")) = {}
  <2> DEFINE items == Items(document, Collections[k])
             P(j) == process_entity(AllIdentities(document), items[j], Collections[k],
                                    At(Collections[k], j, ""))
  <2>1. \A j \in DOMAIN items : Identified(items[j]) /\ items[j].isObject
    BY <1>3 DEF AllIdentified, Identified
  <2>2. IsItem(items[i])
    BY <1>3 DEF AllIdentified, IsDocument, Items, IsCollection, Has
  <2>3. UNION {IF items[j].isObject THEN P(j) ELSE {} : j \in DOMAIN items} = {}
    BY ProblemsEmpty DEF EntityProblems
  <2> HIDE DEF P
  <2>4. P(i) = {}
    BY <2>1, <2>3
  <2>5. QED
    BY <2>1, <2>2, <2>4 DEF P
<1>5. QED
  BY <1>1, <1>2, <1>3, <1>4 DEF Clean

\* The references of an entity, one kind at a time.
LEMMA TargetKinds ==
  ASSUME NEW f \in {"partRef", "staffRef", "measureRef", "voiceRef"}
  PROVE  \E n \in 1..6 : Targets[f] = Collections[n]
<1>1. /\ Targets["partRef"] = Collections[1] /\ Targets["staffRef"] = Collections[2]
      /\ Targets["measureRef"] = Collections[5] /\ Targets["voiceRef"] = Collections[3]
  BY CollectionNames DEF Targets
<1>2. 1 \in 1..6 /\ 2 \in 1..6 /\ 5 \in 1..6 /\ 3 \in 1..6
  OBVIOUS
<1>3. QED
  BY <1>1, <1>2

LEMMA CleanEvent ==
  ASSUME AllIdentified, AllDistinct, NEW item, Identified(item), IsItem(item), NEW at,
         process_entity(AllIdentities(document), item, "events", at) = {}
  PROVE  /\ IsString(item, "kind") /\ item.fields["kind"] \in {"note", "rest"} \cup Opaque
         /\ SaysOfKind(item, item.fields["kind"])
<1>1. EventProblems(AllIdentities(document), item, at) = {}
  BY ProcessEmpty DEF TypedProblems
<1>2. ~SaysOfKind(item, "")
  <2>1. EventFields("") = {"id", "kind", "measureRef", "offset"} /\ "" \notin Opaque
    BY DEF EventFields, Opaque
  <2>2. QED
    BY <2>1 DEF SaysOfKind, VoicedWell, Has
<1>3. QED
  BY <1>1, <1>2, EventProblemsEmpty

LEMMA CleanReferences ==
  ASSUME AllIdentified, AllDistinct, NEW k \in 1..6, NEW item, Identified(item), IsItem(item), NEW at,
         process_entity(AllIdentities(document), item, Collections[k], at) = {},
         NEW f \in {"partRef", "staffRef", "measureRef", "voiceRef"}, f \in DOMAIN item.fields
  PROVE  item.fields[f] = "" \/ Contract!Owns(Targets[f], item.fields[f])
<1> DEFINE ids == AllIdentities(document)
<1>1. /\ Targets["partRef"] = "parts" /\ Targets["staffRef"] = "staves"
      /\ Targets["measureRef"] = "measures" /\ Targets["voiceRef"] = "voices"
  BY DEF Targets
<1>2. DOMAIN item.fields \subseteq Allowed(Collections[k])
  BY ProcessEmpty
<1>3. 1 \in 1..6 /\ 2 \in 1..6
  OBVIOUS
<1>4. CASE k = 1 \/ k = 4 \/ k = 5
  BY <1>2, <1>4, CollectionNames DEF Allowed
<1>5. CASE k = 2
  <2>1. f = "partRef"
    BY <1>2, <1>5, CollectionNames DEF Allowed
  <2>2. TypedProblems(ids, item, "staves", at) = {}
    BY <1>5, CollectionNames, ProcessEmpty
  <2>3. NeededReference(ids, item, "partRef", Collections[1], at) = {}
    BY <2>2, CollectionNames DEF TypedProblems
  <2>4. item.fields["partRef"] = "" \/ Contract!Owns(Collections[1], item.fields["partRef"])
    BY <1>3, <2>3, NeededReferenceEmpty, Zenon
  <2>5. QED
    BY <1>1, <2>1, <2>4, CollectionNames
<1>6. CASE k = 3
  <2>1. f = "staffRef"
    BY <1>2, <1>6, CollectionNames DEF Allowed
  <2>2. TypedProblems(ids, item, "voices", at) = {}
    BY <1>6, CollectionNames, ProcessEmpty
  <2>3. NeededReference(ids, item, "staffRef", Collections[2], at) = {}
    BY <2>2, CollectionNames DEF TypedProblems
  <2>4. item.fields["staffRef"] = "" \/ Contract!Owns(Collections[2], item.fields["staffRef"])
    BY <1>3, <2>3, NeededReferenceEmpty, Zenon
  <2>5. QED
    BY <1>1, <2>1, <2>4, CollectionNames
<1>7. CASE k = 6
  <2> DEFINE kind == item.fields["kind"]
  <2>1. kind \in {"note", "rest"} \cup Opaque /\ SaysOfKind(item, kind)
    BY <1>7, CollectionNames, CleanEvent
  <2> HIDE DEF kind
  <2>2. f = "measureRef" \/ f = "voiceRef"
    BY <1>2, <1>7, CollectionNames DEF Allowed
  <2>3. kind \in Opaque => "voiceRef" \notin EventFields(kind)
    BY DEF EventFields, Opaque
  <2>4. f = "voiceRef" => VoicedWell(item)
    BY <2>1, <2>3 DEF SaysOfKind
  <2>5. QED
    BY <1>1, <2>1, <2>2, <2>4 DEF SaysOfKind, LocatedWell, VoicedWell
<1>8. k = 1 \/ k = 2 \/ k = 3 \/ k = 4 \/ k = 5 \/ k = 6
  OBVIOUS
<1>9. QED
  BY <1>4, <1>5, <1>6, <1>7, <1>8

LEMMA CleanRoles ==
  ASSUME AllIdentified, AllDistinct, NEW k \in 1..6, NEW item, Identified(item), IsItem(item), NEW at,
         process_entity(AllIdentities(document), item, Collections[k], at) = {},
         "roleRefs" \in DOMAIN item.fields
  PROVE  item.fields["roleRefs"].isArray /\ AllRoles(item.fields["roleRefs"].items)
<1> DEFINE kind == item.fields["kind"]
<1>1. DOMAIN item.fields \subseteq Allowed(Collections[k])
  BY ProcessEmpty
<1>2. k = 6
  <2>1. k = 1 \/ k = 2 \/ k = 3 \/ k = 4 \/ k = 5 \/ k = 6
    OBVIOUS
  <2>2. QED
    BY <1>1, <2>1, CollectionNames DEF Allowed
<1>3. kind \in {"note", "rest"} \cup Opaque /\ SaysOfKind(item, kind)
  BY <1>2, CollectionNames, CleanEvent
<1> HIDE DEF kind
<1>4. kind \in Opaque => "roleRefs" \notin EventFields(kind)
  BY DEF EventFields, Opaque
<1>5. Contract!Holds("roles", item.fields["roleRefs"]) \/ Contract!Holds("aSet", item.fields["roleRefs"])
  BY <1>3, <1>4 DEF SaysOfKind, Has
<1>6. QED
  BY <1>5, RolesMeaning

\* The owners of an identity in a clean document.
IsOwner(x, id) ==
  \E k \in 1..6 : \E i \in DOMAIN Items(document, Collections[k]) :
    /\ x = <<Collections[k], i>>
    /\ Items(document, Collections[k])[i].fields["id"] = id

LEMMA OwnersMeaning ==
  ASSUME AllIdentified, NEW id \in EntityId, NEW x
  PROVE  x \in Owners(document, id) <=> IsOwner(x, id)
<1>1. \A k \in 1..6 : \A i \in DOMAIN Items(document, Collections[k]) :
        IsText(Items(document, Collections[k])[i], "id", id)
          <=> Items(document, Collections[k])[i].fields["id"] = id
  BY DEF AllIdentified, Identified, IsText
<1>2. x \in Owners(document, id)
        <=> \E k \in 1..6 : \E i \in DOMAIN Items(document, Collections[k]) :
              /\ x = <<Collections[k], i>>
              /\ IsText(Items(document, Collections[k])[i], "id", id)
  <2> DEFINE I(k) == {j \in DOMAIN Items(document, Collections[k]) :
                         IsText(Items(document, Collections[k])[j], "id", id)}
             O(k) == {<<Collections[k], i>> : i \in I(k)}
  <2>1. Owners(document, id) = UNION {O(k) : k \in 1..6}
    BY DEF Owners
  <2>2. ASSUME NEW k \in 1..6
        PROVE  x \in O(k) <=> \E i \in DOMAIN Items(document, Collections[k]) :
                                /\ x = <<Collections[k], i>>
                                /\ IsText(Items(document, Collections[k])[i], "id", id)
    <3>1. x \in O(k) <=> \E i \in I(k) : x = <<Collections[k], i>>
      OBVIOUS
    <3>2. \A i : i \in I(k) <=> /\ i \in DOMAIN Items(document, Collections[k])
                               /\ IsText(Items(document, Collections[k])[i], "id", id)
      OBVIOUS
    <3> HIDE DEF O, I
    <3>3. QED
      BY <3>1, <3>2
  <2> HIDE DEF O
  <2>3. x \in Owners(document, id) <=> \E k \in 1..6 : x \in O(k)
    BY <2>1
  <2>4. QED
    BY <2>2, <2>3
<1>3. QED
  BY <1>1, <1>2 DEF IsOwner

LEMMA ScoreOwnsAlone ==
  ASSUME Clean
  PROVE  Owners(document, document.fields["scoreId"]) = {}
<1>1. document.fields["scoreId"] \in EntityId
  BY DEF Clean, ScoreIdOk
<1>2. Contract!IdentitiesAreDistinct
  BY DistinctMeaning DEF Clean
<1>3. \A k \in 1..6 : ~Contract!Owns(Collections[k], document.fields["scoreId"])
  BY <1>2, KindNames DEF Contract!IdentitiesAreDistinct
<1>4. \A x : x \notin Owners(document, document.fields["scoreId"])
  BY <1>1, <1>3, OwnersMeaning, OwnsHere DEF Clean, IsOwner
<1>5. QED
  BY <1>4

LEMMA OwnedOnce ==
  ASSUME Clean, NEW k \in 1..6, NEW text, Contract!Owns(Collections[k], text)
  PROVE  /\ text \in EntityId
         /\ \E i \in DOMAIN Items(document, Collections[k]) :
              Owners(document, text) = {<<Collections[k], i>>}
<1>1. PICK i \in DOMAIN Items(document, Collections[k]) :
             Items(document, Collections[k])[i].fields["id"] = text
  BY OwnsHere DEF Clean
<1>2. text \in EntityId
  BY <1>1 DEF Clean, AllIdentified, Identified
<1>3. \A a, b \in AllIdentities(document) : a.id = b.id => a = b
  BY DEF Clean, AllDistinct, DuplicateProblems, ReportIf
<1>4. ASSUME NEW n \in 1..6, NEW j \in DOMAIN Items(document, Collections[n]),
             Items(document, Collections[n])[j].fields["id"] = text
      PROVE  n = k /\ j = i
  <2>1. Entry(n, j, text) \in AllIdentities(document) /\ Entry(k, i, text) \in AllIdentities(document)
    BY <1>1, <1>4, RegisteredEntries DEF Clean
  <2>2. Entry(n, j, text) = Entry(k, i, text)
    BY <1>3, <2>1 DEF Entry
  <2>3. QED
    BY <2>2 DEF Entry
<1>5. ASSUME NEW x PROVE IsOwner(x, text) <=> x = <<Collections[k], i>>
  BY <1>1, <1>4 DEF IsOwner
<1>6. ASSUME NEW x PROVE x \in Owners(document, text) <=> x = <<Collections[k], i>>
  BY <1>2, <1>5, OwnersMeaning DEF Clean
<1>7. Owners(document, text) = {<<Collections[k], i>>}
  BY <1>6
<1>8. QED
  BY <1>2, <1>7

LEMMA RolesAreFourth == 4 \in 1..6
  OBVIOUS

LEMMA CleanReferencesResolve ==
  ASSUME Clean, NEW k \in 1..6, NEW i \in DOMAIN Items(document, Collections[k]),
         NEW ref \in References(Items(document, Collections[k])[i]), ref.to # ""
  PROVE  Resolves(document, ref)
<1> DEFINE item == Items(document, Collections[k])[i]
           at == At(Collections[k], i, "")
<1>1. /\ Identified(item) /\ IsItem(item) /\ AllIdentified /\ AllDistinct
      /\ process_entity(AllIdentities(document), item, Collections[k], at) = {}
  BY DEF Clean
<1>2. ref \in References(item)
  OBVIOUS
<1> HIDE DEF item, at
<1>3. DOMAIN Targets = {"partRef", "staffRef", "measureRef", "voiceRef"}
  BY DEF Targets
<1>4. \/ \E f \in DOMAIN Targets \cap DOMAIN item.fields : ref = Reference(f, item.fields[f], Targets[f])
      \/ /\ "roleRefs" \in DOMAIN item.fields /\ item.fields["roleRefs"].isArray
         /\ \E r \in DOMAIN item.fields["roleRefs"].items :
              ref = Reference("roleRefs", item.fields["roleRefs"].items[r], "performerRoles")
  BY <1>2 DEF References, Has
<1>5. CASE \E f \in DOMAIN Targets \cap DOMAIN item.fields : ref = Reference(f, item.fields[f], Targets[f])
  <2>1. PICK f \in DOMAIN Targets \cap DOMAIN item.fields : ref = Reference(f, item.fields[f], Targets[f])
    BY <1>5
  <2>2. ref.to = item.fields[f] /\ ref.kind = Targets[f]
    BY <2>1 DEF Reference
  <2>3. Contract!Owns(ref.kind, ref.to)
    BY <1>1, <1>3, <2>1, <2>2, CleanReferences
  <2>4. \E n \in 1..6 : Targets[f] = Collections[n]
    BY <1>3, <2>1, TargetKinds
  <2>5. QED
    <3>1. PICK n \in 1..6 : Targets[f] = Collections[n]
      BY <2>4
    <3>2. /\ ref.to \in EntityId
          /\ \E j \in DOMAIN Items(document, Collections[n]) :
               Owners(document, ref.to) = {<<Collections[n], j>>}
      BY <2>2, <2>3, <3>1, OwnedOnce
    <3>3. ref.kind = Collections[n]
      BY <2>2, <3>1, Zenon
    <3>4. QED
      BY <3>2, <3>3, Zenon DEF Resolves
<1>6. CASE /\ "roleRefs" \in DOMAIN item.fields
           /\ \E r \in DOMAIN item.fields["roleRefs"].items :
                ref = Reference("roleRefs", item.fields["roleRefs"].items[r], "performerRoles")
  <2>1. PICK r \in DOMAIN item.fields["roleRefs"].items :
               ref = Reference("roleRefs", item.fields["roleRefs"].items[r], "performerRoles")
    BY <1>6
  <2>2. ref.to = item.fields["roleRefs"].items[r] /\ ref.kind = Collections[4]
    BY <2>1, CollectionNames DEF Reference
  <2>3. AllRoles(item.fields["roleRefs"].items)
    BY <1>1, <1>6, CleanRoles
  <2>4. Contract!Owns(Collections[4], ref.to)
    BY <2>1, <2>2, <2>3, CollectionNames DEF AllRoles
  <2>5. QED
    <3>1. /\ ref.to \in EntityId
          /\ \E j \in DOMAIN Items(document, Collections[4]) :
               Owners(document, ref.to) = {<<Collections[4], j>>}
      BY <2>4, RolesAreFourth, OwnedOnce, Zenon
    <3>2. QED
      BY <2>2, <3>1, Zenon DEF Resolves
<1>7. QED
  BY <1>4, <1>5, <1>6

LEMMA AcceptedReferences ==
  ASSUME PassInv
  PROVE  AcceptedReferencesResolve
<1> SUFFICES ASSUME Accepted
             PROVE  /\ Owners(document, document.fields["scoreId"]) = {}
                    /\ \A k \in 1..6 : \A i \in DOMAIN Items(document, Collections[k]) :
                         \A ref \in References(Items(document, Collections[k])[i]) :
                           ref.to # "" => Resolves(document, ref)
  BY DEF AcceptedReferencesResolve
<1>1. Clean
  BY AcceptedMeaning, NoProblemsIsClean
<1>2. QED
  BY <1>1, ScoreOwnsAlone, CleanReferencesResolve

\* The fields of an accepted event, by its kind.
LEMMA VariantFields ==
  ASSUME NEW e, Identified(e), IsString(e, "kind"),
         e.fields["kind"] \in {"note", "rest"} \cup Opaque, SaysOfKind(e, e.fields["kind"])
  PROVE  LET kind == e.fields["kind"]
         IN  /\ e.fields["offset"] \in {"zero", "positive"}
             /\ \/ /\ kind \in Opaque
                   /\ DOMAIN e.fields = {"id", "kind", "measureRef", "offset", "raw"}
                \/ /\ kind \in {"note", "rest"}
                   /\ e.fields["duration"] = "positive"
                   /\ {"voiceRef", "pitch", "roleRefs"} \cap DOMAIN e.fields
                        \in IF kind = "note" THEN {{"voiceRef", "pitch", "roleRefs"}}
                            ELSE {{"voiceRef"}, {"voiceRef", "roleRefs"}}
                   /\ kind = "note" =>
                        LET refs == e.fields["roleRefs"].items
                        IN  /\ refs # <<>>
                            /\ \A r, s \in DOMAIN refs : r # s => refs[r] # refs[s]
<1> DEFINE kind == e.fields["kind"]
           D == DOMAIN e.fields
<1>1. D \subseteq EventFields(kind) /\ LocatedWell(e)
  BY DEF SaysOfKind
<1>2. {"id", "kind", "measureRef", "offset"} \subseteq D /\ e.fields["offset"] \in {"zero", "positive"}
  BY <1>1 DEF LocatedWell, IsString, Has, Identified
<1>3. CASE kind \in Opaque
  <2>1. "raw" \in D
    BY <1>3 DEF SaysOfKind, IsString, Has
  <2>2. EventFields(kind) = {"id", "kind", "measureRef", "offset", "raw"}
    BY <1>3 DEF EventFields, Opaque
  <2>3. D = {"id", "kind", "measureRef", "offset", "raw"}
    BY <1>1, <1>2, <2>1, <2>2
  <2>4. QED
    BY <1>2, <1>3, <2>3
<1>4. CASE kind = "note"
  <2>1. "note" \notin Opaque
    BY DEF Opaque
  <2>2. VoicedWell(e) /\ "pitch" \in D /\ "roleRefs" \in D /\ Contract!Holds("aSet", e.fields["roleRefs"])
    BY <1>4, <2>1 DEF SaysOfKind, Has
  <2>3. e.fields["duration"] = "positive" /\ "voiceRef" \in D
    BY <2>2 DEF VoicedWell, IsString, Has
  <2>4. {"voiceRef", "pitch", "roleRefs"} \cap D = {"voiceRef", "pitch", "roleRefs"}
    BY <2>2, <2>3
  <2>5. /\ e.fields["roleRefs"].items # <<>>
        /\ \A r, s \in DOMAIN e.fields["roleRefs"].items :
             r # s => e.fields["roleRefs"].items[r] # e.fields["roleRefs"].items[s]
    BY <2>2, RolesMeaning
  <2> HIDE DEF D
  <2>6. QED
    BY <1>2, <1>4, <2>3, <2>4, <2>5 DEF D
<1>5. CASE kind = "rest"
  <2>1. "rest" \notin Opaque /\ "pitch" \notin EventFields("rest")
    BY DEF EventFields, Opaque
  <2>2. VoicedWell(e) /\ "pitch" \notin D
    BY <1>1, <1>5, <2>1 DEF SaysOfKind
  <2>3. e.fields["duration"] = "positive" /\ "voiceRef" \in D
    BY <2>2 DEF VoicedWell, IsString, Has
  <2>4. {"voiceRef", "pitch", "roleRefs"} \cap D \in {{"voiceRef"}, {"voiceRef", "roleRefs"}}
    <3>1. CASE "roleRefs" \in D
      <4>1. {"voiceRef", "pitch", "roleRefs"} \cap D = {"voiceRef", "roleRefs"}
        BY <2>2, <2>3, <3>1
      <4>2. QED
        BY <4>1
    <3>2. CASE "roleRefs" \notin D
      <4>1. {"voiceRef", "pitch", "roleRefs"} \cap D = {"voiceRef"}
        BY <2>2, <2>3, <3>2
      <4>2. QED
        BY <4>1
    <3>3. QED
      BY <3>1, <3>2
  <2>5. QED
    BY <1>2, <1>5, <2>3, <2>4
<1>6. QED
  BY <1>3, <1>4, <1>5

LEMMA AcceptedEvents ==
  ASSUME PassInv
  PROVE  AcceptedEventsAreVariants
<1> SUFFICES ASSUME Accepted, NEW i \in DOMAIN Items(document, "events")
             PROVE  LET e == Items(document, "events")[i]
                    IN  /\ IsString(e, "kind") /\ Identified(e)
                        /\ e.fields["kind"] \in {"note", "rest"} \cup Opaque
                        /\ SaysOfKind(e, e.fields["kind"])
  BY VariantFields DEF AcceptedEventsAreVariants
<1> DEFINE e == Items(document, Collections[6])[i]
<1>1. Clean
  BY AcceptedMeaning, NoProblemsIsClean
<1>2. 6 \in 1..6 /\ i \in DOMAIN Items(document, Collections[6])
  BY CollectionNames
<1>3. /\ Identified(e) /\ IsItem(e) /\ AllIdentified /\ AllDistinct
      /\ process_entity(AllIdentities(document), e, Collections[6], At(Collections[6], i, "")) = {}
  BY <1>1, <1>2 DEF Clean
<1> HIDE DEF e
<1>4. process_entity(AllIdentities(document), e, "events", At(Collections[6], i, "")) = {}
  BY <1>3, CollectionNames
<1>5. IsString(e, "kind") /\ e.fields["kind"] \in {"note", "rest"} \cup Opaque /\ SaysOfKind(e, e.fields["kind"])
  BY <1>3, <1>4, CleanEvent
<1>6. QED
  BY <1>3, <1>5, CollectionNames DEF e

-----------------------------------------------------------------------------
(***************************************************************************)
(* Every dangling reference is reported.                                   *)
(***************************************************************************)
LEMMA FirstPosition ==
  ASSUME NEW M \in SUBSET Nat, M # {}
  PROVE  \E i \in M : \A j \in M : i <= j
<1>1. PICK i \in M : \A j \in M : ~(<<j, i>> \in OpToRel(<, Nat))
  BY WFMin, NatLessThanWellFounded, Zenon
<1>2. ASSUME NEW j \in M PROVE i <= j
  <2>1. ~(j < i)
    BY <1>1 DEF OpToRel
  <2>2. QED
    BY <2>1
<1>3. QED
  BY <1>2

\* An identity of a kind belongs to an item of that kind.
LEMMA RegisteredByItem ==
  ASSUME NEW e \in AllIdentities(document), NEW k \in 1..6, TypeOf(e) = Collections[k]
  PROVE  \E j \in DOMAIN Items(document, Collections[k]) :
           IsText(Items(document, Collections[k])[j], "id", e.id)
<1>1. \/ e \in ScoreIdentity(document)
      \/ \E n \in 1..6 : e \in Identities(document, n)
  BY CollectionNames DEF AllIdentities, IdentitiesUpTo
<1>2. e \notin ScoreIdentity(document)
  BY CollectionNames DEF ScoreIdentity, Entry, TypeOf
<1>3. PICK n \in 1..6 : e \in Identities(document, n)
  BY <1>1, <1>2
<1>4. PICK j \in DOMAIN Items(document, Collections[n]) :
         /\ Identified(Items(document, Collections[n])[j])
         /\ e = Entry(n, j, Items(document, Collections[n])[j].fields["id"])
  BY <1>3 DEF Identities
<1>5. e.k = n /\ e.id = Items(document, Collections[n])[j].fields["id"]
  BY <1>4 DEF Entry
<1>6. Collections[n] = Collections[k]
  BY <1>5 DEF TypeOf
<1>7. IsText(Items(document, Collections[n])[j], "id", e.id)
  BY <1>4, <1>5 DEF Identified, IsText
<1>8. QED
  BY <1>6, <1>7

LEMMA PlacesAreNumbers ==
  ASSUME NEW e \in AllIdentities(document)
  PROVE  e.k \in Nat
  BY CollectionNames DEF AllIdentities, IdentitiesUpTo, ScoreIdentity, Identities, Entry

\* A reference that no item of its kind answers to is not clean, whatever else
\* is registered.
LEMMA DanglingIsReported ==
  ASSUME NEW k \in 1..6, NEW text, NEW at,
         ~\E j \in DOMAIN Items(document, Collections[k]) :
            IsText(Items(document, Collections[k])[j], "id", text)
  PROVE  \E d \in ReferenceProblems(AllIdentities(document), text, Collections[k], at) : d.at = at
<1> DEFINE ids == AllIdentities(document)
           matches == {entry \in ids : entry.id = text}
           Least(e) == \A other \in matches : e.k <= other.k
           first   == CHOOSE entry \in matches : \A other \in matches : entry.k <= other.k
<1>1. \A code : Diag(code, at) \in {Diag(code, at)} /\ Diag(code, at).at = at
  BY DEF Diag
<1>2. CASE text \notin EntityId
  BY <1>1, <1>2 DEF ReferenceProblems
<1>3. CASE text \in EntityId /\ matches = {}
  BY <1>1, <1>3 DEF ReferenceProblems
<1>4. CASE text \in EntityId /\ matches # {}
  <2>1. \E e \in matches : Least(e)
    <3> DEFINE M == {e.k : e \in matches}
    <3>1. M \in SUBSET Nat /\ M # {}
      BY <1>4, PlacesAreNumbers
    <3>2. PICK n \in M : \A m \in M : n <= m
      BY <3>1, FirstPosition
    <3>3. QED
      BY <3>2
  <2>2. first \in matches
    BY <2>1
  <2>3. first \in ids /\ first.id = text
    BY <2>2
  <2> HIDE DEF first
  <2>4. TypeOf(first) # Collections[k]
    BY <2>3, RegisteredByItem
  <2>5. ReferenceProblems(ids, text, Collections[k], at)
          = ReportIf(TypeOf(first) # Collections[k], "mistyped-reference", at)
    BY <1>4 DEF ReferenceProblems, first
  <2>6. QED
    BY <1>1, <2>4, <2>5 DEF ReportIf
<1>5. QED
  BY <1>2, <1>3, <1>4

LEMMA AtField ==
  ASSUME NEW coll, NEW i, NEW f
  PROVE  [At(coll, i, "") EXCEPT !.field = f] = At(coll, i, f)
<1> DEFINE a == At(coll, i, "")
           h == [coll |-> coll, i |-> i, field |-> f]
           D == {"coll", "i", "field"}
<1>1. DOMAIN a = D /\ a["coll"] = coll /\ a["i"] = i
  BY DEF At
<1>2. [a EXCEPT !.field = f] = [x \in DOMAIN a |-> IF x = "field" THEN f ELSE a[x]]
  BY DEF At
<1>3. h = [x \in D |-> h[x]]
  OBVIOUS
<1>4. h["coll"] = coll /\ h["i"] = i /\ h["field"] = f
  OBVIOUS
<1> HIDE DEF h, a
<1>5. \A x \in D : (IF x = "field" THEN f ELSE a[x]) = h[x]
  BY <1>1, <1>4
<1>6. [x \in D |-> IF x = "field" THEN f ELSE a[x]] = [x \in D |-> h[x]]
  BY <1>5
<1>7. QED
  BY <1>1, <1>2, <1>3, <1>6, Zenon DEF a, h, At

\* Where the rules put a reference: each rule for an entity reports what the
\* rule for one of its references reports.
LEMMA NeededReferenceReports ==
  ASSUME NEW ids, NEW item, NEW f, NEW k \in 1..6, NEW i, NEW coll,
         IsString(item, f), item.fields[f] # ""
  PROVE  ReferenceProblems(ids, item.fields[f], Collections[k], At(coll, i, f))
           \subseteq NeededReference(ids, item, f, Collections[k], At(coll, i, ""))
<1>1. need_string(item, f) = item.fields[f]
  BY DEF need_string
<1>2. QED
  BY <1>1, AtField DEF NeededReference

\* The rule a reference comes under, by the kind of the entity that makes it.
ReferenceReported(item, coll, i, f, to, kind) ==
  ReferenceProblems(AllIdentities(document), to, kind, At(coll, i, f))
    \subseteq TypedProblems(AllIdentities(document), item, coll, At(coll, i, ""))

LEMMA StaffOrVoiceReports ==
  ASSUME NEW item, NEW i
  PROVE  /\ IsString(item, "partRef") /\ item.fields["partRef"] # ""
              => ReferenceReported(item, "staves", i, "partRef", item.fields["partRef"], "parts")
         /\ IsString(item, "staffRef") /\ item.fields["staffRef"] # ""
              => ReferenceReported(item, "voices", i, "staffRef", item.fields["staffRef"], "staves")
<1>1. 1 \in 1..6 /\ 2 \in 1..6
  OBVIOUS
<1>2. IsString(item, "partRef") /\ item.fields["partRef"] # ""
        => ReferenceReported(item, "staves", i, "partRef", item.fields["partRef"], Collections[1])
  BY <1>1, NeededReferenceReports, CollectionNames DEF ReferenceReported, TypedProblems
<1>3. IsString(item, "staffRef") /\ item.fields["staffRef"] # ""
        => ReferenceReported(item, "voices", i, "staffRef", item.fields["staffRef"], Collections[2])
  BY <1>1, NeededReferenceReports, CollectionNames DEF ReferenceReported, TypedProblems
<1>4. QED
  BY <1>2, <1>3, CollectionNames

LEMMA EventParts ==
  ASSUME NEW ids, NEW item, NEW at
  PROVE  /\ NeededReference(ids, item, "measureRef", "measures", at) \subseteq EventProblems(ids, item, at)
         /\ IsText(item, "kind", "note") =>
              /\ IsString(item, "voiceRef") =>
                   ReferenceProblems(ids, item.fields["voiceRef"], "voices", [at EXCEPT !.field = "voiceRef"])
                     \subseteq EventProblems(ids, item, at)
              /\ NoteProblems(ids, item, at) \subseteq EventProblems(ids, item, at)
<1> DEFINE kind == need_string(item, "kind")
           a1 == Needed(item, "kind", at)
           a2 == Closed(item, EventFields(kind), at)
           a3 == ReportIf(kind \notin {"", "note", "rest"} \cup Opaque, "unknown-event-kind",
                          [at EXCEPT !.field = "kind"])
           a4 == NeededReference(ids, item, "measureRef", "measures", at)
           a5 == TimeProblems(item, "offset", {"negative"}, "negative-offset", at)
           W  == IF IsString(item, "voiceRef")
                 THEN ReferenceProblems(ids, item.fields["voiceRef"], "voices",
                                        [at EXCEPT !.field = "voiceRef"]) ELSE {}
           v1 == TimeProblems(item, "duration", NonPositive, "non-positive-duration", at)
           v2 == Needed(item, "voiceRef", at)
           R  == Needed(item, "raw", [at EXCEPT !.field = "raw"])
           N  == NoteProblems(ids, item, at)
           S  == RestProblems(ids, item, at)
           a6 == IF kind \in Opaque THEN R ELSE UNION {v1, v2, W}
           a7 == IF kind = "note" THEN N ELSE {}
           a8 == IF kind = "rest" THEN S ELSE {}
<1>1. EventProblems(ids, item, at) = UNION {a1, a2, a3, a4, a5, a6, a7, a8}
  BY DEF EventProblems
<1>2. IsText(item, "kind", "note") => kind = "note"
  BY DEF IsText, need_string
<1>3. "note" \notin Opaque
  BY DEF Opaque
<1> HIDE DEF kind, a1, a2, a3, a4, a5, v1, v2, R, N, S
<1>4. IsString(item, "voiceRef")
        => W = ReferenceProblems(ids, item.fields["voiceRef"], "voices", [at EXCEPT !.field = "voiceRef"])
  OBVIOUS
<1> HIDE DEF W
<1>5. kind = "note" => W \subseteq a6 /\ N \subseteq a7
  BY <1>3
<1> HIDE DEF a6, a7, a8
<1>6. a4 \subseteq EventProblems(ids, item, at) /\ a6 \subseteq EventProblems(ids, item, at)
        /\ a7 \subseteq EventProblems(ids, item, at)
  BY <1>1
<1>7. a4 = NeededReference(ids, item, "measureRef", "measures", at) /\ N = NoteProblems(ids, item, at)
  BY DEF a4, N
<1>8. QED
  BY <1>2, <1>4, <1>5, <1>6, <1>7

LEMMA RolePart ==
  ASSUME NEW ids, NEW item, NEW at, Has(item, "roleRefs"), item.fields["roleRefs"].isArray,
         NEW r \in DOMAIN item.fields["roleRefs"].items, item.fields["roleRefs"].items[r] # NonString
  PROVE  ReferenceProblems(ids, item.fields["roleRefs"].items[r], "performerRoles",
                           [at EXCEPT !.field = "roleRefs"])
           \subseteq NoteProblems(ids, item, at)
<1> DEFINE refs == item.fields["roleRefs"].items
           pitch == item.fields["pitch"]
           isArray == Has(item, "roleRefs") /\ item.fields["roleRefs"].isArray
           here == [at EXCEPT !.field = "roleRefs"]
           a1 == IF Has(item, "pitch") /\ pitch.isObject
                 THEN PitchProblems(pitch, [at EXCEPT !.field = "pitch"])
                 ELSE {Diag("missing-required-field", at)}
           a2 == ReportIf(~isArray, "missing-required-field", at)
           a3 == ReportIf(isArray /\ refs = <<>>, "empty-role-refs", here)
           L  == RoleRefProblems(ids, refs, here)
           a4 == IF isArray THEN L ELSE {}
           a5 == ReportIf(isArray /\ \E q, s \in DOMAIN refs :
                                       q < s /\ refs[q] = refs[s] /\ refs[q] # NonString,
                          "duplicate-role-ref", here)
           P(q) == IF refs[q] = NonString THEN {Diag("mistyped-reference", here)}
                   ELSE ReferenceProblems(ids, refs[q], "performerRoles", here)
<1>1. NoteProblems(ids, item, at) = UNION {a1, a2, a3, a4, a5}
  BY DEF NoteProblems
<1>2. L = UNION {P(q) : q \in DOMAIN refs}
  BY DEF RoleRefProblems
<1>3. P(r) = ReferenceProblems(ids, refs[r], "performerRoles", here)
  OBVIOUS
<1>4. isArray
  OBVIOUS
<1> HIDE DEF a1, a2, a3, a5, L, P, isArray
<1>5. P(r) \subseteq L
  BY <1>2
<1>6. a4 = L
  BY <1>4
<1> HIDE DEF a4
<1>7. a4 \subseteq NoteProblems(ids, item, at)
  BY <1>1
<1>8. QED
  BY <1>3, <1>5, <1>6, <1>7

\* An entity with an identity that makes a dangling reference.
LEMMA EntityReports ==
  ASSUME NEW coll, NEW i, NEW f, NEW k \in 1..6, NEW text,
         i \in DOMAIN Items(document, coll), Identified(Items(document, coll)[i]),
         ReferenceReported(Items(document, coll)[i], coll, i, f, text, Collections[k]),
         ~\E j \in DOMAIN Items(document, Collections[k]) :
            IsText(Items(document, Collections[k])[j], "id", text)
  PROVE  \E d \in EntityProblems(AllIdentities(document), document, coll) : d.at = At(coll, i, f)
<1> DEFINE items == Items(document, coll)
           item == items[i]
           T == TypedProblems(AllIdentities(document), item, coll, At(coll, i, ""))
           P(j) == process_entity(AllIdentities(document), items[j], coll, At(coll, j, ""))
<1>1. PICK d \in ReferenceProblems(AllIdentities(document), text, Collections[k], At(coll, i, f)) :
             d.at = At(coll, i, f)
  BY DanglingIsReported
<1>2. d \in T
  BY <1>1 DEF ReferenceReported
<1>3. P(i) = UNION {Closed(item, Allowed(coll), At(coll, i, "")), Needed(item, "id", At(coll, i, "")), T}
  BY DEF process_entity
<1> HIDE DEF T
<1>4. d \in P(i)
  BY <1>2, <1>3
<1>5. EntityProblems(AllIdentities(document), document, coll)
        = UNION {IF items[j].isObject THEN P(j) ELSE {} : j \in DOMAIN items}
  BY DEF EntityProblems
<1>6. items[i].isObject
  BY DEF Identified
<1> HIDE DEF P
<1>7. d \in EntityProblems(AllIdentities(document), document, coll)
  BY <1>4, <1>5, <1>6
<1>8. QED
  BY <1>1, <1>7

LEMMA PlacesOfKinds ==
  /\ 1 \in 1..6 /\ Collections[1] = "parts" /\ 2 \in 1..6 /\ Collections[2] = "staves"
  /\ 3 \in 1..6 /\ Collections[3] = "voices" /\ 4 \in 1..6 /\ Collections[4] = "performerRoles"
  /\ 5 \in 1..6 /\ Collections[5] = "measures"
  BY CollectionNames

\* The rule each of the references in question comes under.
LEMMA ReferringIsReported ==
  ASSUME NEW k \in 1..6, NEW item, NEW i,
         NEW ref \in References(item), ref.field \in Referring(Collections[k], item),
         ref.to # "", ref.to # NonString
  PROVE  \E n \in 1..6 : /\ ref.kind = Collections[n]
                         /\ ReferenceReported(item, Collections[k], i, ref.field, ref.to, Collections[n])
<1> DEFINE ids == AllIdentities(document)
           coll == Collections[k]
           at == At(coll, i, "")
<1>1. DOMAIN Targets = {"partRef", "staffRef", "measureRef", "voiceRef"}
  BY DEF Targets
<1>2. /\ Targets["partRef"] = "parts" /\ Targets["staffRef"] = "staves"
      /\ Targets["measureRef"] = "measures" /\ Targets["voiceRef"] = "voices"
  BY DEF Targets
<1>3. /\ ref.field \in {"partRef", "staffRef", "measureRef", "voiceRef"}
           => /\ Has(item, ref.field) /\ ref.to = item.fields[ref.field]
              /\ ref.kind = Targets[ref.field]
      /\ ref.field = "roleRefs"
           => /\ Has(item, "roleRefs") /\ item.fields["roleRefs"].isArray
              /\ \E r \in DOMAIN item.fields["roleRefs"].items :
                   ref.to = item.fields["roleRefs"].items[r] /\ ref.kind = "performerRoles"
  <2>1. \/ \E f \in DOMAIN Targets \cap DOMAIN item.fields : ref = Reference(f, item.fields[f], Targets[f])
        \/ /\ Has(item, "roleRefs") /\ item.fields["roleRefs"].isArray
           /\ \E r \in DOMAIN item.fields["roleRefs"].items :
                ref = Reference("roleRefs", item.fields["roleRefs"].items[r], "performerRoles")
    BY DEF References, Has
  <2>2. CASE \E f \in DOMAIN Targets \cap DOMAIN item.fields : ref = Reference(f, item.fields[f], Targets[f])
    <3>1. PICK f \in DOMAIN Targets \cap DOMAIN item.fields : ref = Reference(f, item.fields[f], Targets[f])
      BY <2>2
    <3>2. ref.field = f /\ ref.to = item.fields[f] /\ ref.kind = Targets[f]
      BY <3>1 DEF Reference
    <3>3. ref.field # "roleRefs" /\ Has(item, ref.field)
      BY <1>1, <3>1, <3>2 DEF Has
    <3>4. QED
      BY <3>2, <3>3
  <2>3. CASE /\ Has(item, "roleRefs") /\ item.fields["roleRefs"].isArray
             /\ \E r \in DOMAIN item.fields["roleRefs"].items :
                  ref = Reference("roleRefs", item.fields["roleRefs"].items[r], "performerRoles")
    <3>1. PICK r \in DOMAIN item.fields["roleRefs"].items :
                 ref = Reference("roleRefs", item.fields["roleRefs"].items[r], "performerRoles")
      BY <2>3
    <3>2. /\ ref.field = "roleRefs" /\ ref.kind = "performerRoles"
          /\ ref.to = item.fields["roleRefs"].items[r]
      BY <3>1 DEF Reference
    <3>3. QED
      BY <2>3, <3>2
  <2>4. QED
    BY <2>1, <2>2, <2>3
<1>4. \/ coll = "staves" /\ ref.field = "partRef"
      \/ coll = "voices" /\ ref.field = "staffRef"
      \/ coll = "events" /\ ref.field = "measureRef"
      \/ coll = "events" /\ IsText(item, "kind", "note") /\ ref.field \in {"voiceRef", "roleRefs"}
  BY DEF Referring
<1> HIDE DEF coll
<1>5. CASE coll = "staves" /\ ref.field = "partRef"
  <2>1. IsString(item, "partRef") /\ item.fields["partRef"] # "" /\ ref.kind = "parts"
    BY <1>2, <1>3, <1>5 DEF IsString
  <2>2. ReferenceReported(item, coll, i, ref.field, ref.to, "parts")
    BY <1>3, <1>5, <2>1, StaffOrVoiceReports
  <2>3. QED
    BY <2>1, <2>2, PlacesOfKinds DEF coll
<1>6. CASE coll = "voices" /\ ref.field = "staffRef"
  <2>1. IsString(item, "staffRef") /\ item.fields["staffRef"] # "" /\ ref.kind = "staves"
    BY <1>2, <1>3, <1>6 DEF IsString
  <2>2. ReferenceReported(item, coll, i, ref.field, ref.to, "staves")
    BY <1>3, <1>6, <2>1, StaffOrVoiceReports
  <2>3. QED
    BY <2>1, <2>2, PlacesOfKinds DEF coll
<1>7. coll = "events" => TypedProblems(ids, item, coll, at) = EventProblems(ids, item, at)
  BY DEF TypedProblems
<1>8. CASE coll = "events" /\ ref.field = "measureRef"
  <2>1. IsString(item, "measureRef") /\ item.fields["measureRef"] # "" /\ ref.kind = "measures"
    BY <1>2, <1>3, <1>8 DEF IsString
  <2>2. ReferenceProblems(ids, item.fields["measureRef"], "measures", At(coll, i, "measureRef"))
          \subseteq NeededReference(ids, item, "measureRef", "measures", at)
    BY <2>1, NeededReferenceReports, PlacesOfKinds
  <2>3. NeededReference(ids, item, "measureRef", "measures", at) \subseteq EventProblems(ids, item, at)
    BY EventParts
  <2>4. ReferenceReported(item, coll, i, ref.field, ref.to, "measures")
    BY <1>3, <1>7, <1>8, <2>2, <2>3 DEF ReferenceReported
  <2>5. QED
    BY <2>1, <2>4, PlacesOfKinds DEF coll
<1>9. CASE coll = "events" /\ IsText(item, "kind", "note") /\ ref.field = "voiceRef"
  <2>1. IsString(item, "voiceRef") /\ ref.kind = "voices"
    BY <1>2, <1>3, <1>9 DEF IsString
  <2>2. ReferenceProblems(ids, item.fields["voiceRef"], "voices", [at EXCEPT !.field = "voiceRef"])
          \subseteq EventProblems(ids, item, at)
    BY <1>9, <2>1, EventParts
  <2>3. ReferenceReported(item, coll, i, ref.field, ref.to, "voices")
    <3>1. [at EXCEPT !.field = "voiceRef"] = At(coll, i, "voiceRef")
      BY AtField
    <3>2. ReferenceProblems(ids, ref.to, "voices", At(coll, i, "voiceRef")) \subseteq EventProblems(ids, item, at)
      BY <1>3, <1>9, <2>2, <3>1
    <3>3. QED
      BY <1>7, <1>9, <3>2 DEF ReferenceReported
  <2>4. QED
    BY <2>1, <2>3, PlacesOfKinds DEF coll
<1>10. CASE coll = "events" /\ IsText(item, "kind", "note") /\ ref.field = "roleRefs"
  <2>1. PICK r \in DOMAIN item.fields["roleRefs"].items :
               ref.to = item.fields["roleRefs"].items[r] /\ ref.kind = "performerRoles"
    BY <1>3, <1>10
  <2>2. ReferenceProblems(ids, ref.to, "performerRoles", [at EXCEPT !.field = "roleRefs"])
          \subseteq NoteProblems(ids, item, at)
    BY <1>3, <1>10, <2>1, RolePart
  <2>3. NoteProblems(ids, item, at) \subseteq EventProblems(ids, item, at)
    BY <1>10, EventParts
  <2>4. ReferenceReported(item, coll, i, ref.field, ref.to, "performerRoles")
    BY <1>7, <1>10, <2>2, <2>3, AtField DEF ReferenceReported
  <2>5. QED
    BY <2>1, <2>4, PlacesOfKinds DEF coll
<1>11. QED
  BY <1>4, <1>5, <1>6, <1>8, <1>9, <1>10

LEMMA NoItems == \A i : i \notin DOMAIN <<>>
  OBVIOUS

LEMMA DanglingReferences ==
  ASSUME PassInv
  PROVE  EveryDanglingReferenceIsReported
<1> SUFFICES ASSUME pc = "done", NEW k \in 1..6, NEW i \in DOMAIN Items(document, Collections[k]),
                    Identified(Items(document, Collections[k])[i]),
                    NEW ref \in References(Items(document, Collections[k])[i]),
                    ref.field \in Referring(Collections[k], Items(document, Collections[k])[i]),
                    ref.to \notin {"", NonString},
                    ~\E j \in DOMAIN Items(document, ref.kind) :
                        IsText(Items(document, ref.kind)[j], "id", ref.to)
             PROVE  \E d \in diags : d.at = At(Collections[k], i, ref.field)
  BY DEF EveryDanglingReferenceIsReported
<1> DEFINE item == Items(document, Collections[k])[i]
<1>1. IsDocument(document)
  BY AcceptedMeaning
<1>2. document.isObject
  <2>1. ~document.isObject => Items(document, Collections[k]) = <<>>
    BY <1>1 DEF IsDocument, Items, IsCollection, Has
  <2>2. QED
    BY <2>1, NoItems, Zenon
<1>3. diags = Problems(document)
  BY <1>2 DEF PassInv, PassInvariant
<1>4. PICK n \in 1..6 :
         /\ ref.kind = Collections[n]
         /\ ReferenceReported(item, Collections[k], i, ref.field, ref.to, Collections[n])
  BY ReferringIsReported
<1>5. \E d \in EntityProblems(AllIdentities(document), document, Collections[k]) :
         d.at = At(Collections[k], i, ref.field)
  BY <1>4, EntityReports
<1>6. EntityProblems(AllIdentities(document), document, Collections[k]) \subseteq Problems(document)
  <2>1. k \in 1..Len(Collections)
    BY CollectionNames
  <2>2. QED
    BY <2>1 DEF Problems, ProblemsUpTo
<1>7. QED
  BY <1>3, <1>5, <1>6

-----------------------------------------------------------------------------
(***************************************************************************)
(* The canonical document.                                                 *)
(***************************************************************************)
LEMMA SameFields ==
  ASSUME NEW node, IsNode(node), NEW F, F = node.fields
  PROVE  [node EXCEPT !.fields = F] = node
<1>1. DOMAIN node = {"isObject", "fields"} /\ node = [x \in {"isObject", "fields"} |-> node[x]]
  BY DEF IsNode
<1>2. [node EXCEPT !.fields = F] = [x \in DOMAIN node |-> IF x = "fields" THEN F ELSE node[x]]
  BY <1>1
<1>3. QED
  BY <1>1, <1>2

LEMMA SameItems ==
  ASSUME NEW array, IsArray(array), NEW F, F = array.items
  PROVE  [array EXCEPT !.items = F] = array
<1>1. DOMAIN array = {"isArray", "items"} /\ array = [x \in {"isArray", "items"} |-> array[x]]
  BY DEF IsArray
<1>2. [array EXCEPT !.items = F] = [x \in DOMAIN array |-> IF x = "items" THEN F ELSE array[x]]
  BY <1>1
<1>3. QED
  BY <1>1, <1>2

LEMMA OnlyAllOfIt ==
  ASSUME NEW node, IsNode(node), NEW keys, DOMAIN node.fields \subseteq keys
  PROVE  Only(keys, node) = node
<1> DEFINE F == [f \in DOMAIN node.fields \cap keys |-> node.fields[f]]
<1>1. DOMAIN node.fields \cap keys = DOMAIN node.fields
  OBVIOUS
<1>2. F = node.fields
  BY <1>1 DEF IsNode
<1>3. Only(keys, node) = [node EXCEPT !.fields = F]
  BY DEF Only
<1> HIDE DEF F
<1>4. QED
  BY <1>2, <1>3, SameFields

\* Every field of a clean document is copied as it is.
LEMMA CanonicalIsDocument ==
  ASSUME Clean
  PROVE  Canonical(document) = document
<1> DEFINE events == document.fields["events"]
           copies == [i \in DOMAIN events.items |-> CopiedEvent(events.items[i])]
           copy(f) ==
             CASE f = "metadata" -> Only({"title"}, document.fields[f])
               [] f = "events"   -> [document.fields[f] EXCEPT !.items =
                                       [i \in DOMAIN @ |-> CopiedEvent(@[i])]]
               [] OTHER          -> document.fields[f]
           F == [f \in DOMAIN document.fields |-> copy(f)]
<1>1. IsDocument(document) /\ IsNode(document)
  BY DEF Clean, IsDocument
<1>2. "metadata" \in DOMAIN document.fields => copy("metadata") = document.fields["metadata"]
  <2>1. SUFFICES ASSUME "metadata" \in DOMAIN document.fields
                 PROVE  Only({"title"}, document.fields["metadata"]) = document.fields["metadata"]
    OBVIOUS
  <2>2. IsNode(document.fields["metadata"]) /\ DOMAIN document.fields["metadata"].fields \subseteq {"title"}
    BY <1>1, <2>1 DEF IsDocument, Clean, HeaderIsRight, Contract!IsHeader
  <2>3. QED
    BY <2>2, OnlyAllOfIt
<1>3. copy("events") = document.fields["events"]
  <2>1. 6 \in 1..6 /\ Collections[6] = "events"
    BY CollectionNames
  <2>2. IsArray(events) /\ Items(document, Collections[6]) = events.items
    <3>1. IsCollection(document, Collections[6]) /\ "events" \in DOMAIN document.fields
      BY <2>1 DEF Clean, AllIdentified, IsCollection, Has
    <3>2. QED
      BY <1>1, <2>1, <3>1 DEF IsDocument, Items
  <2>3. ASSUME NEW i \in DOMAIN events.items PROVE CopiedEvent(events.items[i]) = events.items[i]
    <3> DEFINE item == events.items[i]
               at == At(Collections[6], i, "")
    <3>1. Items(document, Collections[6])[i] = item /\ i \in DOMAIN Items(document, Collections[6])
      BY <2>2
    <3>2. /\ Identified(item) /\ IsItem(item)
          /\ process_entity(AllIdentities(document), item, Collections[6], at) = {}
      BY <2>1, <3>1 DEF Clean
    <3> HIDE DEF item, at
    <3>3. DOMAIN item.fields \subseteq Allowed("events")
      BY <2>1, <3>2, ProcessEmpty
    <3>4. IsNode(item)
      BY <3>2 DEF IsItem
    <3>5. QED
      BY <3>3, <3>4, OnlyAllOfIt DEF CopiedEvent, Allowed, item
  <2>4. copies = events.items
    <3>1. events.items = [i \in DOMAIN events.items |-> events.items[i]]
      BY <2>2 DEF IsArray
    <3> HIDE DEF events
    <3>2. QED
      BY <2>3, <3>1
  <2>5. copy("events") = [events EXCEPT !.items = copies]
    OBVIOUS
  <2> HIDE DEF copies, events, copy
  <2>6. QED
    BY <2>2, <2>4, <2>5, SameItems DEF events
<1>4. \A f : f # "metadata" /\ f # "events" => copy(f) = document.fields[f]
  OBVIOUS
<1>5. Canonical(document) = [document EXCEPT !.fields = F]
  BY DEF Canonical
<1> HIDE DEF copy
<1>6. F = document.fields
  <2>1. document.fields = [f \in DOMAIN document.fields |-> document.fields[f]]
    BY <1>1 DEF IsNode
  <2>2. \A f \in DOMAIN document.fields : copy(f) = document.fields[f]
    BY <1>2, <1>3, <1>4
  <2>3. [f \in DOMAIN document.fields |-> copy(f)] = [f \in DOMAIN document.fields |-> document.fields[f]]
    BY <2>2
  <2>4. QED
    BY <2>1, <2>3
<1> HIDE DEF F
<1>7. QED
  BY <1>1, <1>5, <1>6, SameFields

LEMMA AcceptedCanonical ==
  ASSUME PassInv
  PROVE  CanonicalFormIsLossless
  BY AcceptedMeaning, NoProblemsIsClean, CanonicalIsDocument DEF CanonicalFormIsLossless

-----------------------------------------------------------------------------
(***************************************************************************)
(* The theorems.                                                           *)
(***************************************************************************)
\* The two passes report exactly what the rules say of the parts they have been
\* over (PassInvariant): no fault hides another, and none is invented.
THEOREM PassesHold == Spec => []PassInv
<1>1. Init => PassInv
  BY InitPasses
<1>2. PassInv /\ [Next]_vars => PassInv'
  BY StepPasses
<1>3. QED
  BY <1>1, <1>2, PTL DEF Spec

\* validate_document: what it accepts has one owner for every reference, and
\* events of the documented variants.
THEOREM ValidatorInvariantHolds == Spec => []ValidatorInvariant
<1>1. PassInv => ValidatorInvariant
  BY AcceptedReferences, AcceptedEvents DEF ValidatorInvariant, PassInv
<1>2. QED
  BY <1>1, PassesHold, PTL

\* check_ref: a reference that nothing answers to is reported at its place.
THEOREM EveryDanglingReferenceIsReportedHolds == Spec => []EveryDanglingReferenceIsReported
<1>1. PassInv => EveryDanglingReferenceIsReported
  BY DanglingReferences
<1>2. QED
  BY <1>1, PassesHold, PTL

\* The canonical document: the field-by-field copy of an accepted score is the
\* score.
THEOREM CanonicalFormIsLosslessHolds == Spec => []CanonicalFormIsLossless
<1>1. PassInv => CanonicalFormIsLossless
  BY AcceptedCanonical
<1>2. QED
  BY <1>1, PassesHold, PTL

\* from_json: every step is one of ScoreContract or none, so an answer is that of
\* the contract. That it comes at all is fairness, which TLC checks.
THEOREM ImplementsContractSafely == Spec => Contract!Safety
<1>1. Init => Contract!Init
  BY DEF Init, Start, Contract!Init, Answered
<1>2. PassInv /\ [Next]_vars => [Contract!Next]_<<document, Answered>>
  <2> SUFFICES ASSUME PassInv, [Next]_vars
               PROVE  [Contract!Next]_<<document, Answered>>
    OBVIOUS
  <2>1. document' = document
    BY DEF Next, vars, RefuseRoot, ReadHeader, CollectIds, FindDuplicates, CheckEntities, BuildDocument
  <2>2. CASE RefuseRoot
    <3>1. Answered = "pending" /\ Answered' = "refused"
      BY <2>2 DEF RefuseRoot, Answered, Accepted, PassInv, PassInvariant
    <3>2. ~Contract!WellFormed
      BY <2>2 DEF RefuseRoot, Contract!WellFormed
    <3>3. QED
      BY <2>1, <3>1, <3>2 DEF Contract!Next, Contract!Decide
  <2>3. CASE BuildDocument
    <3>1. IsDocument(document) /\ document.isObject /\ diags = Problems(document)
      BY <2>3, AcceptedMeaning DEF BuildDocument, PassInv, PassInvariant
    <3>2. diags = {} <=> Contract!WellFormed
      BY <3>1, RulesAgree
    <3>3. Answered = "pending" /\ pc' = "done" /\ (Accepted' <=> diags = {})
      BY <2>3 DEF BuildDocument, Answered, Accepted
    <3>4. Answered' = IF Contract!WellFormed THEN "accepted" ELSE "refused"
      BY <3>2, <3>3 DEF Answered
    <3>5. QED
      BY <2>1, <3>3, <3>4 DEF Contract!Next, Contract!Decide
  <2>4. CASE ReadHeader \/ CollectIds \/ FindDuplicates \/ CheckEntities
    <3>1. pc # "done" /\ pc' # "done"
      BY <2>4 DEF ReadHeader, CollectIds, FindDuplicates, CheckEntities, NextCollection
    <3>2. QED
      BY <2>1, <3>1 DEF Answered
  <2>5. CASE UNCHANGED vars
    BY <2>5 DEF vars, Answered, Accepted
  <2>6. QED
    BY <2>2, <2>3, <2>4, <2>5 DEF Next
<1>3. QED
  BY <1>1, <1>2, PassesHold, PTL DEF Spec, Contract!Safety
=============================================================================
