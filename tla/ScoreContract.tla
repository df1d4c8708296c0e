---------------------------- MODULE ScoreContract ----------------------------
(***************************************************************************)
(* What a score document has to be, said once and without an order of      *)
(* checks: the shapes of schemas/score/scoreir.schema.json and the rules   *)
(* on identities, references and times that the schema leaves to the core. *)
(* A document is put to the validator and answered exactly by that.        *)
(*                                                                         *)
(* Tolerated is the one latitude: the texts that core/score/scoreir.cpp    *)
(* takes, without looking them up, for the type of a part and for a partRef,*)
(* staffRef or measureRef. The schema tolerates none.                      *)
(***************************************************************************)
EXTENDS Naturals, Sequences

CONSTANTS EntityId, Tolerated

VARIABLES
  document,     \* the document put to the validator
  answer        \* "pending", "accepted" or "refused"

NotAText == "<not a string>"
Text(v) == v # NotAText

Kinds == {"parts", "staves", "voices", "performerRoles", "measures", "events"}
Entities(kind) == document.fields[kind].items

\* The identities of the entities of a kind, by their place in it.
Id(kind, i) == Entities(kind)[i].fields["id"]
Owns(kind, text) == \E i \in DOMAIN Entities(kind) : Id(kind, i) = text

\* A node has a shape, a function from field names to what they hold, except
\* that it may lack the optional fields.
Shaped(node, shape, optional, Holds(_, _)) ==
  /\ node.isObject
  /\ DOMAIN shape \ optional \subseteq DOMAIN node.fields
  /\ DOMAIN node.fields \subseteq DOMAIN shape
  /\ \A f \in DOMAIN node.fields : Holds(shape[f], node.fields[f])

Spelling == [letter |-> "valid", accidental |-> "valid", octave |-> "valid"]
Pitch    == [written |-> "spelling", sounding |-> "spelling", displayAccidental |-> "text"]

HoldsInSpelling(what, v) == v = what
HoldsInPitch(what, v) ==
  IF what = "text" THEN Text(v) ELSE Shaped(v, Spelling, {}, HoldsInSpelling)

RoleList(list) ==
  /\ list.isArray
  /\ \A r \in DOMAIN list.items :
       Text(list.items[r]) /\ Owns("performerRoles", list.items[r])

\* What may stand where a shape says `what`; the name of a kind is a reference.
Holds(what, v) ==
  CASE what = "id"       -> v \in EntityId
    [] what = "text"     -> Text(v)
    [] what = "choral"   -> Text(v) /\ v \in {"choral"} \cup Tolerated
    [] what = "natural"  -> Text(v) /\ v # "malformed"
    [] what = "boolean"  -> v \in {"true", "false"}
    [] what = "offset"   -> v \in {"zero", "positive"}
    [] what = "duration" -> v = "positive"
    [] what = "pitch"    -> Shaped(v, Pitch, {}, HoldsInPitch)
    [] what = "roles"    -> RoleList(v)
    [] what = "aSet"     -> /\ RoleList(v) /\ v.items # <<>>
                            /\ \A r, s \in DOMAIN v.items : v.items[r] = v.items[s] => r = s
    [] what = "voices"   -> Text(v) /\ Owns("voices", v)
    [] OTHER             -> Text(v) /\ (v \in Tolerated \/ Owns(what, v))

Located == [id |-> "id", kind |-> "text", measureRef |-> "measures", offset |-> "offset"]
Extended(shape, more) ==
  [f \in DOMAIN shape \cup DOMAIN more |-> IF f \in DOMAIN more THEN more[f] ELSE shape[f]]

EventShape(kind) ==
  CASE kind = "note" -> Extended(Located, [duration |-> "duration", pitch |-> "pitch",
                                           roleRefs |-> "aSet", voiceRef |-> "voices"])
    [] kind = "rest" -> Extended(Located, [duration |-> "duration", roleRefs |-> "roles",
                                           voiceRef |-> "voices"])
    [] OTHER         -> Extended(Located, [raw |-> "text"])

IsEvent(node) ==
  /\ node.isObject /\ "kind" \in DOMAIN node.fields
  /\ LET kind == node.fields["kind"]
     IN  /\ kind \in {"note", "rest", "opaqueNotation", "unsupportedRelation", "UnknownSymbol"}
         /\ Shaped(node, EventShape(kind), IF kind = "rest" THEN {"roleRefs"} ELSE {}, Holds)

Shape(kind) ==
  CASE kind = "parts"  -> [id |-> "id", type |-> "choral", name |-> "text"]
    [] kind = "staves" -> [id |-> "id", partRef |-> "parts", label |-> "text"]
    [] kind = "voices" -> [id |-> "id", staffRef |-> "staves", label |-> "text"]
    [] kind = "performerRoles" -> [id |-> "id", label |-> "text"]
    [] kind = "measures" -> [id |-> "id", index |-> "natural", number |-> "text",
                             pickup |-> "boolean", actualDuration |-> "duration"]

IsEntity(kind, node) ==
  IF kind = "events" THEN IsEvent(node) ELSE Shaped(node, Shape(kind), {}, Holds)

\* The score and its entities have one identity each, and no two the same one.
IdentitiesAreDistinct ==
  /\ \A kind \in Kinds : ~Owns(kind, document.fields["scoreId"])
  /\ \A k1, k2 \in Kinds : \A i \in DOMAIN Entities(k1), j \in DOMAIN Entities(k2) :
       Id(k1, i) = Id(k2, j) => k1 = k2 /\ i = j

IsHeader ==
  LET meta == document.fields["metadata"]
  IN  /\ document.fields["$schema"] = "choirloom:score/scoreir/0.1.0"
      /\ document.fields["version"] = "0.1.0"
      /\ document.fields["scoreId"] \in EntityId
      /\ "metadata" \in DOMAIN document.fields =>
           /\ meta.isObject /\ DOMAIN meta.fields \subseteq {"title"}
           /\ \A f \in DOMAIN meta.fields : Text(meta.fields[f])

Identified ==
  \A kind \in Kinds :
    /\ document.fields[kind].isArray
    /\ \A i \in DOMAIN Entities(kind) :
         /\ Entities(kind)[i].isObject
         /\ "id" \in DOMAIN Entities(kind)[i].fields

WellFormed ==
  LET required == {"$schema", "version", "scoreId"} \cup Kinds
  IN  /\ document.isObject
      /\ required \subseteq DOMAIN document.fields
      /\ DOMAIN document.fields \subseteq required \cup {"metadata"}
      /\ IsHeader
      /\ Identified
      /\ IdentitiesAreDistinct
      /\ \A kind \in Kinds : \A i \in DOMAIN Entities(kind) : IsEntity(kind, Entities(kind)[i])

-----------------------------------------------------------------------------
Init == answer = "pending"

Decide ==
  /\ answer = "pending"
  /\ answer' = IF WellFormed THEN "accepted" ELSE "refused"
  /\ UNCHANGED document

Next == Decide

Safety == Init /\ [][Next]_<<document, answer>>

\* Every document is answered.
Spec == Safety /\ WF_<<document, answer>>(Next)
=============================================================================
