-------------------------- MODULE ScoreIRValidator ---------------------------
(***************************************************************************)
(* ScoreIRDocument::validate_document: header, a first pass over the six   *)
(* collections for the identities, the duplicates, a second pass for the   *)
(* entities, and the document if nothing was reported on the way.          *)
(***************************************************************************)
EXTENDS ScoreIR

CONSTANT Documents    \* the documents put to the validator

ASSUME DocumentsAssumption == \A doc \in Documents : IsDocument(doc)

VARIABLES
  document,     \* root
  pc,           \* "header", "collect", "duplicates", "entities", "build" or "done"
  c,            \* index of the collection that is next in the running pass
  all_ids,      \* all_ids: its entries
  diags,        \* diags, as a set: [code, at]
  result        \* the document returned: <<>> or <<[canonical, counts, pickups]>>

vars == <<document, pc, c, all_ids, diags, result>>

Start ==
  /\ pc = "header" /\ c = 1
  /\ all_ids = {}
  /\ diags = {}
  /\ result = <<>>

Init == document \in Documents /\ Start

\* A text that is no JSON object is refused at once.
RefuseRoot ==
  /\ pc = "header" /\ ~document.isObject
  /\ diags' = {Diag("malformed-scoreir-json", Root)}
  /\ pc' = "done"
  /\ UNCHANGED <<document, c, all_ids, result>>

ReadHeader ==
  /\ pc = "header" /\ document.isObject
  /\ diags' = diags \cup HeaderProblems(document)
  /\ all_ids' = ScoreIdentity(document)
  /\ pc' = "collect"
  /\ UNCHANGED <<document, c, result>>

\* Mutant of NextCollection: the loop runs once too often.
NextCollection_OffByOne(then) ==
  IF c <= Len(Collections) THEN c' = c + 1 /\ pc' = pc
  ELSE c' = 1 /\ pc' = then

NextCollection(then) ==
  IF c < Len(Collections) THEN c' = c + 1 /\ pc' = pc
  ELSE c' = 1 /\ pc' = then

CollectIds ==
  /\ pc = "collect"
  /\ diags' = diags \cup IdProblems(document, Collections[c])
  /\ all_ids' = all_ids \cup Identities(document, c)
  /\ NextCollection("duplicates")
  /\ UNCHANGED <<document, result>>

FindDuplicates ==
  /\ pc = "duplicates"
  /\ diags' = diags \cup DuplicateProblems(all_ids)
  /\ pc' = "entities"
  /\ UNCHANGED <<document, c, all_ids, result>>

\* Mutant of CheckEntities: a pass over what has been found faulty is spared.
CheckEntities_OnlyIfClean ==
  /\ pc = "entities"
  /\ diags' = diags \cup (IF diags = {} THEN EntityProblems(all_ids, document, Collections[c]) ELSE {})
  /\ NextCollection("build")
  /\ UNCHANGED <<document, all_ids, result>>

CheckEntities ==
  /\ pc = "entities"
  /\ diags' = diags \cup EntityProblems(all_ids, document, Collections[c])
  /\ NextCollection("build")
  /\ UNCHANGED <<document, all_ids, result>>

BuildDocument ==
  /\ pc = "build"
  /\ result' = IF diags = {}
               THEN <<[canonical |-> Canonical(document), counts |-> Counts(document),
                       pickups |-> Pickups(document)]>>
               ELSE <<>>
  /\ pc' = "done"
  /\ UNCHANGED <<document, c, all_ids, diags>>

Next ==
  \/ RefuseRoot \/ ReadHeader
  \/ CollectIds \/ FindDuplicates
  \/ CheckEntities
  \/ BuildDocument

\* The validator is a function that is not interrupted: it goes on to its end.
Spec == Init /\ [][Next]_vars /\ WF_vars(Next)

-----------------------------------------------------------------------------
Accepted == result # <<>>

Answered ==
  IF pc # "done" THEN "pending" ELSE IF Accepted THEN "accepted" ELSE "refused"

\* Both passes leave all_ids and c within the collections they walk; PassInvariant
\* says what diags is.
TypeOK ==
  /\ pc \in {"header", "collect", "duplicates", "entities", "build", "done"}
  /\ c \in DOMAIN Collections
  /\ all_ids \subseteq [k : 0..6, i : Nat, id : EntityId]

\* What the rules say of the whole document, and what of it the passes have said
\* so far: whatever another part reports, each part is checked, and with the
\* identities of all the collections.
IdentitiesUpTo(doc, n) == ScoreIdentity(doc) \cup UNION {Identities(doc, k) : k \in 1..n}
AllIdentities(doc)     == IdentitiesUpTo(doc, Len(Collections))

CollectProblems(doc, n) ==
  HeaderProblems(doc) \cup UNION {IdProblems(doc, Collections[k]) : k \in 1..n}
IdentityProblems(doc) ==
  CollectProblems(doc, Len(Collections)) \cup DuplicateProblems(AllIdentities(doc))
ProblemsUpTo(doc, n) ==
  IdentityProblems(doc)
    \cup UNION {EntityProblems(AllIdentities(doc), doc, Collections[k]) : k \in 1..n}
Problems(doc) == ProblemsUpTo(doc, Len(Collections))

PassInvariant ==
  /\ pc \notin {"header", "done"} => document.isObject
  /\ pc \notin {"collect", "entities"} => c = 1
  /\ pc = "header" => all_ids = {} /\ diags = {}
  /\ pc = "collect" => /\ all_ids = IdentitiesUpTo(document, c - 1)
                       /\ diags = CollectProblems(document, c - 1)
  /\ pc \in {"duplicates", "entities", "build"} => all_ids = AllIdentities(document)
  /\ pc = "duplicates" => diags = CollectProblems(document, Len(Collections))
  /\ pc = "entities" => diags = ProblemsUpTo(document, c - 1)
  /\ pc = "build" => diags = Problems(document)
  /\ pc = "done" => \/ document.isObject /\ diags = Problems(document)
                    \/ ~document.isObject /\ diags # {}
  /\ pc = "done" /\ diags = {} => Accepted
  /\ Accepted => pc = "done" /\ diags = {} /\ result[1].canonical = Canonical(document)

\* The entities of a document with a given identity, as <<collection, index>>.
Owners(doc, id) ==
  UNION {{<<Collections[k], i>> : i \in {j \in DOMAIN Items(doc, Collections[k]) :
            IsText(Items(doc, Collections[k])[j], "id", id)}} : k \in 1..6}

\* The references an item makes: [field, to, kind].
Reference(f, to, kind) == [field |-> f, to |-> to, kind |-> kind]
Targets ==
  [partRef |-> "parts", staffRef |-> "staves", measureRef |-> "measures", voiceRef |-> "voices"]

References(item) ==
  {Reference(f, item.fields[f], Targets[f]) : f \in DOMAIN Targets \cap DOMAIN item.fields}
    \cup IF ~Has(item, "roleRefs") \/ ~item.fields["roleRefs"].isArray THEN {}
         ELSE LET refs == item.fields["roleRefs"].items
              IN  {Reference("roleRefs", refs[r], "performerRoles") : r \in DOMAIN refs}

Resolves(doc, ref) ==
  /\ ref.to \in EntityId
  /\ \E i \in DOMAIN Items(doc, ref.kind) : Owners(doc, ref.to) = {<<ref.kind, i>>}

\* In an accepted score every reference that is not the empty text leads to
\* exactly one entity, and to one of its kind; the score itself shares its
\* identity with no entity and is no target (docs/scoreir-schema-notes.md, 2).
AcceptedReferencesResolve ==
  Accepted =>
    /\ Owners(document, document.fields["scoreId"]) = {}
    /\ \A k \in 1..6 : \A i \in DOMAIN Items(document, Collections[k]) :
         \A ref \in References(Items(document, Collections[k])[i]) :
           ref.to # "" => Resolves(document, ref)

\* One run reports every reference that leads nowhere, at its own place and
\* whatever else is wrong with the document, as long as the entity that makes
\* it has an identity and its kind may make it.
Referring(coll, item) ==
  CASE coll = "staves" -> {"partRef"}
    [] coll = "voices" -> {"staffRef"}
    [] coll = "events" -> {"measureRef"}
                            \cup (IF IsText(item, "kind", "note")
                                  THEN {"voiceRef", "roleRefs"} ELSE {})
    [] OTHER           -> {}

EveryDanglingReferenceIsReported ==
  pc = "done" =>
    \A k \in 1..6 : \A i \in DOMAIN Items(document, Collections[k]) :
      LET coll == Collections[k]
          item == Items(document, coll)[i]
      IN  Identified(item) =>
            \A ref \in References(item) :
              /\ ref.field \in Referring(coll, item)
              /\ ref.to \notin {"", NonString}
              /\ ~\E j \in DOMAIN Items(document, ref.kind) :
                    IsText(Items(document, ref.kind)[j], "id", ref.to)
              => \E d \in diags : d.at = At(coll, i, ref.field)

\* An accepted event is one of the documented variants and carries exactly its
\* fields: a sounding event has a positive duration and a voice, an opaque one
\* nothing that was not in the source; the roles of a note are distinct.
AcceptedEventsAreVariants ==
  Accepted =>
    \A i \in DOMAIN Items(document, "events") :
      LET e == Items(document, "events")[i]
          kind == e.fields["kind"]
      IN  /\ e.fields["offset"] \in {"zero", "positive"}
          /\ \/ /\ kind \in Opaque
                /\ DOMAIN e.fields = {"id", "kind", "measureRef", "offset", "raw"}
             \/ /\ kind \in {"note", "rest"}
                /\ e.fields["duration"] = "positive"
                /\ {"voiceRef", "pitch", "roleRefs"} \cap DOMAIN e.fields
                     \in IF kind = "note" THEN {{"voiceRef", "pitch", "roleRefs"}}
                         ELSE {{"voiceRef"}, {"voiceRef", "roleRefs"}}
                /\ kind = "note" =>
                     LET refs == e.fields["roleRefs"].items
                     IN  /\ refs # <<>>
                         /\ \A r, s \in DOMAIN refs : r # s => refs[r] # refs[s]

\* What is accepted is sound: the parts of the invariant of the two passes that
\* say what no later reader of a score checks again (validate_document).
ValidatorInvariant ==
  TypeOK /\ PassInvariant /\ AcceptedReferencesResolve /\ AcceptedEventsAreVariants

\* Serialization keeps everything: the canonical document says what the input
\* says, raw source data included, although it is regenerated field by field.
CanonicalFormIsLossless ==
  Accepted => result[1].canonical = document

\* The two passes accept exactly the documents ScoreContract describes, whatever
\* the order of their checks, and answer for every document.
Contract == INSTANCE ScoreContract WITH answer <- Answered, Tolerated <- {""}

ImplementsContract == Contract!Spec

\* The documented rules without exception: "dangling and mistyped references" are
\* rejected (section 4), and the type of a part is "choral" (section 2). Not so:
\* the checks of validate_document pass over a text that is empty.
EveryTextIsChecked ==
  Accepted =>
    /\ \A k \in 1..6 : \A i \in DOMAIN Items(document, Collections[k]) :
         \A ref \in References(Items(document, Collections[k])[i]) : Resolves(document, ref)
    /\ \A i \in DOMAIN Items(document, "parts") :
         IsText(Items(document, "parts")[i], "type", "choral")
=============================================================================
