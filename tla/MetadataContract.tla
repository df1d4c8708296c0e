-------------------------- MODULE MetadataContract ---------------------------
(***************************************************************************)
(* What opening and saving the metadata of a revision comes to, stated on  *)
(* the members of a document as a set: neither their order nor the moment  *)
(* at which a fault is noticed has a part in it.                           *)
(***************************************************************************)
EXTENDS RevisionOrder

VARIABLES document, answer

Pending     == [answer |-> "pending"]
Refused     == [answer |-> "refused"]
Accepted(m) == [answer |-> "accepted", value |-> m]

\* The texts a document gives for a key.
Texts(doc, key) == {doc.members[k].text : k \in {k \in DOMAIN doc.members : doc.members[k].key = key}}

\* Nothing but strings, known keys, none of them twice, and nothing else.
WellFormed(doc) ==
  /\ doc.closed /\ ~doc.tail
  /\ \A k, l \in DOMAIN doc.members :
       /\ doc.members[k].string
       /\ doc.members[k].key \in {"revisionId", "parentRevisionId", "origin", "summary"}
       /\ doc.members[k].key = doc.members[l].key => k = l

Blank(summary) == \A k \in DOMAIN summary : summary[k] \in {9, 10, 13, 32}

Parents(doc) == IF Texts(doc, "parentRevisionId") = {} THEN {<<>>}
                ELSE {<<p>> : p \in Texts(doc, "parentRevisionId") \ {<<>>}}

\* The revisions that a document describes: none, or one.
Meanings(doc) ==
  {m \in {[revision |-> id, parent |-> p, origin |-> o[1], summary |-> s] :
            id \in Texts(doc, "revisionId") \ {<<>>}, p \in Parents(doc),
            o \in Texts(doc, "origin") \ {<<>>}, s \in Texts(doc, "summary")} :
     WellFormed(doc) /\ m.parent # <<m.revision>> /\ ~Blank(m.summary)}

-----------------------------------------------------------------------------
Init == answer = Pending

Open ==
  /\ answer = Pending
  /\ \/ \E m \in Meanings(document) : answer' = Accepted(m)
     \/ Meanings(document) = {} /\ answer' = Refused
  /\ UNCHANGED document

\* A revision that has been opened may be saved, as any document that means it.
Save ==
  /\ answer.answer = "accepted"
  /\ Meanings(document') = {answer.value}
  /\ UNCHANGED answer

Safety == Init /\ [][Open \/ Save]_<<document, answer>>

Spec == Safety /\ WF_<<document, answer>>(Open)
=============================================================================
