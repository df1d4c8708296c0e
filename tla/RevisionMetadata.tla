-------------------------- MODULE RevisionMetadata ---------------------------
(***************************************************************************)
(* ProjectRevisionMetadata::from_json and to_json of                       *)
(* core/score/entity_revision.cpp: the fields of one object are scanned one *)
(* by one, then the object is completed, then the values are built and     *)
(* checked; what was built is written out and may be read again.           *)
(*                                                                         *)
(* A document is the list of the members of the object, each with its key, *)
(* whether its value is a string, and the text of that string. The text of *)
(* an identity stands for its bytes, <<>> for every text that              *)
(* RevisionId::from_string refuses (see Identity); the text of an origin   *)
(* for its rank in the enumeration, <<>> for any other text.               *)
(***************************************************************************)
EXTENDS RevisionOrder

CONSTANT Documents

Fields    == {"revisionId", "parentRevisionId", "origin", "summary"}
Whitespace == {9, 10, 13, 32}

\* The texts that a value of a key may stand for.
TextOf(key) ==
  CASE key \in {"revisionId", "parentRevisionId"} -> {<<>>} \cup Id
    [] key = "origin" -> {<<>>} \cup {<<o>> : o \in Origin}
    [] OTHER -> Seq(Nat)

IsDocument(doc) ==
  /\ Len(doc.members) \in Nat /\ DOMAIN doc.members = 1..Len(doc.members)
  /\ \A k \in DOMAIN doc.members : doc.members[k].text \in TextOf(doc.members[k].key)

ASSUME DocumentsAssumption == \A doc \in Documents : IsDocument(doc)

VARIABLES
  document,    \* members, closed: the last one is followed by '}', tail: and that by more
  i,           \* the member that is next
  fields,      \* the texts of the fields seen so far, each <<>> or <<text>>
  pc,          \* "scan", "build", "refused" or "accepted"
  metadata,    \* <<>>, or <<the value built>>
  saved        \* <<>>, or <<the value that was written>>

vars == <<document, i, fields, pc, metadata, saved>>

NoFields == [f \in Fields |-> <<>>]

Init ==
  /\ document \in Documents
  /\ i = 1
  /\ fields = NoFields
  /\ pc = "scan"
  /\ metadata = <<>> /\ saved = <<>>

Current == document.members[i]

\* Mutant of IsNew: a field that comes again replaces the one before.
IsNew_Overwrite(member) == TRUE

IsNew(member) == fields[member.key] = <<>>

Taken(member) == member.key \in Fields /\ member.string /\ IsNew(member)

ScanMember ==
  /\ pc = "scan" /\ i <= Len(document.members)
  /\ Taken(Current)
  /\ fields' = [fields EXCEPT ![Current.key] = <<Current.text>>]
  /\ i' = i + 1
  /\ UNCHANGED <<document, pc, metadata, saved>>

Required == {"revisionId", "origin", "summary"}

\* An object without members is refused: the scanner looks for a name first.
Completed ==
  /\ document.members # <<>> /\ document.closed
  /\ \A f \in Required : fields[f] # <<>>
  /\ ~document.tail

Complete ==
  /\ pc = "scan" /\ i > Len(document.members)
  /\ Completed
  /\ pc' = "build"
  /\ UNCHANGED <<document, i, fields, metadata, saved>>

\* ProjectRevisionMetadata::from_values. The summary is kept as it is: only
\* the test looks behind the white space.
ValidValues(m) ==
  /\ m.origin \in Origin
  /\ m.parent # <<m.revision>>
  /\ \E k \in DOMAIN m.summary : m.summary[k] \notin Whitespace

Built ==
  [revision |-> fields["revisionId"][1], parent |-> fields["parentRevisionId"],
   origin |-> fields["origin"][1][1], summary |-> fields["summary"][1]]

\* Mutant of Buildable: the text of the parent is taken unparsed.
Buildable_AnyParent ==
  /\ fields["revisionId"] # <<<<>>>> /\ fields["origin"] # <<<<>>>>
  /\ ValidValues(Built)

\* RevisionId::from_string, revision_origin_from_string, from_values.
Buildable ==
  /\ fields["revisionId"] # <<<<>>>> /\ fields["parentRevisionId"] # <<<<>>>>
  /\ fields["origin"] # <<<<>>>>
  /\ ValidValues(Built)

Build ==
  /\ pc = "build" /\ Buildable
  /\ metadata' = <<Built>>
  /\ pc' = "accepted"
  /\ UNCHANGED <<document, i, fields, saved>>

\* std::invalid_argument
Refuse ==
  /\ \/ pc = "scan" /\ i <= Len(document.members) /\ ~Taken(Current)
     \/ pc = "scan" /\ i > Len(document.members) /\ ~Completed
     \/ pc = "build" /\ ~Buildable
  /\ pc' = "refused"
  /\ UNCHANGED <<document, i, fields, metadata, saved>>

String(key, text) == [key |-> key, string |-> TRUE, text |-> text]

\* Mutant of to_json: a present parent is left out.
to_json_NoParent(m) ==
  [members |-> << String("revisionId", m.revision),
                  String("origin", <<m.origin>>),
                  String("summary", m.summary) >>,
   closed |-> TRUE, tail |-> FALSE]

\* Mutant of to_json: the revision is written as its own parent.
to_json_WrongParent(m) ==
  [members |-> << String("revisionId", m.revision) >>
               \o (IF m.parent = <<>> THEN <<>>
                   ELSE << String("parentRevisionId", m.revision) >>)
               \o << String("origin", <<m.origin>>),
                     String("summary", m.summary) >>,
   closed |-> TRUE, tail |-> FALSE]

to_json(m) ==
  [members |-> << String("revisionId", m.revision) >>
               \o (IF m.parent = <<>> THEN <<>>
                   ELSE << String("parentRevisionId", m.parent[1]) >>)
               \o << String("origin", <<m.origin>>),
                     String("summary", m.summary) >>,
   closed |-> TRUE, tail |-> FALSE]

\* The value is written, and the document that came out is opened.
Reopen ==
  /\ pc = "accepted" /\ saved = <<>>
  /\ saved' = metadata
  /\ document' = to_json(metadata[1])
  /\ i' = 1 /\ fields' = NoFields /\ pc' = "scan" /\ metadata' = <<>>

Next == ScanMember \/ Complete \/ Build \/ Refuse \/ Reopen

Spec == Init /\ [][Next]_vars /\ WF_vars(Next)

-----------------------------------------------------------------------------
TypeOK ==
  /\ IsDocument(document)
  /\ i \in 1..(Len(document.members) + 1)
  /\ fields \in [Fields -> Seq(Seq(Nat))]
  /\ pc \in {"scan", "build", "refused", "accepted"}
  /\ metadata \in Seq(Metadata(Seq(Nat)))
  /\ saved \in Seq(Metadata(Seq(Nat))) /\ Len(saved) <= 1

\* What the fields hold is what the members before this one say, and none of
\* these is unknown, no string, or there twice.
FieldsAreScanned ==
  \A k \in 1..(i - 1) :
    LET member == document.members[k]
    IN  /\ member.string /\ member.key \in Fields
        /\ fields[member.key] = <<member.text>>
        /\ \A l \in 1..(i - 1) : document.members[l].key = member.key => k = l

FieldsHaveMembers ==
  \A f \in Fields : fields[f] # <<>> => \E k \in 1..(i - 1) : document.members[k].key = f

\* The whole object has been scanned when its values are built, and a value
\* that has been built is what the fields say.
ObjectIsComplete ==
  /\ pc \in {"build", "accepted"} => i > Len(document.members) /\ Completed
  /\ metadata = IF pc = "accepted" THEN <<Built>> ELSE <<>>
  /\ pc = "accepted" => Buildable

\* What was saved is a valid revision, and the document is what was written.
SavedIsWritten ==
  saved # <<>> => ValidValues(saved[1]) /\ document = to_json(saved[1])

\* A revision survives being saved and opened: it is never refused, and every
\* field of it is what it was, its parent and the white space around its
\* summary included (to_json followed by from_json).
ReopenedIsUnchanged ==
  saved # <<>> => pc # "refused" /\ (pc = "accepted" => metadata = saved)

\* The members scanned and the values built belong together in every state of
\* both readings.
ScannerInvariant ==
  /\ TypeOK
  /\ FieldsAreScanned /\ FieldsHaveMembers
  /\ ObjectIsComplete
  /\ SavedIsWritten
  /\ ReopenedIsUnchanged

-----------------------------------------------------------------------------
Answered ==
  IF pc = "refused" THEN [answer |-> "refused"]
  ELSE IF metadata # <<>> THEN [answer |-> "accepted", value |-> metadata[1]]
  ELSE IF saved # <<>> THEN [answer |-> "accepted", value |-> saved[1]]
  ELSE [answer |-> "pending"]

Contract == INSTANCE MetadataContract WITH answer <- Answered

\* Field by field, in whatever order the fields come, the scanner implements
\* the contract: each document has at most one meaning, a document that has one
\* is accepted with it and every other one is refused, and the document that a
\* revision is saved as means that revision (from_json, from_values, to_json).
ImplementsContract == Contract!Spec

\* Every document that can be opened is eventually opened a second time.
EventuallySettled == <>(pc = IF saved = <<>> THEN "refused" ELSE "accepted")
=============================================================================
