----------------------------- MODULE MCRevisions -----------------------------
(***************************************************************************)
(* Revisions: their metadata read, written and read again; the order they  *)
(* are put in; and the identities that name them. A behaviour is about one *)
(* of the three, the other two stay beside it: the empty document, no      *)
(* revision, one identity.                                                 *)
(***************************************************************************)
EXTENDS RevisionHistory, RevisionMetadata, Identity

CONSTANT MaxMembers     \* bound on the number of members

\* Every list of up to MaxMembers members over a few texts for each key.
MCTexts(key) ==
  CASE key \in {"revisionId", "parentRevisionId"} -> {<<>>, <<0, 1>>, <<1, 0>>}
    [] key = "origin"  -> {<<>>, <<Recognition>>}
    [] key = "summary" -> {<<>>, <<32>>, <<32, 97>>}
    [] OTHER           -> {<<97>>}

Members ==
  UNION {{[key |-> key, string |-> TRUE, text |-> t] : t \in MCTexts(key)} :
           key \in {"revisionId", "parentRevisionId", "origin", "summary", "author"}}
  \cup {[key |-> "summary", string |-> FALSE, text |-> <<97>>]}

\* An unclosed object and a tail are tried on documents with few members.
AllDocuments ==
  {[members |-> ms, closed |-> TRUE, tail |-> FALSE] :
     ms \in UNION {[1..n -> Members] : n \in 0..MaxMembers}}
  \cup
  {[members |-> << [key |-> "revisionId", string |-> TRUE, text |-> <<0, 1>>],
                   [key |-> "origin", string |-> TRUE, text |-> <<ManualEdit>>],
                   [key |-> "summary", string |-> TRUE, text |-> <<97>>] >>,
    closed |-> c, tail |-> t] : c, t \in BOOLEAN}

\* Revisions that differ in either byte of their identity, with and without
\* parents, and with summaries of which one is the beginning of another.
MCRevisions ==
  { m \in [revision : {<<0, 1>>, <<1, 0>>}, parent : {<<>>, << <<0, 0>> >>, << <<0, 1>> >>},
           origin : {ManualEdit, Migration}, summary : {<<97>>, <<97, 32>>, <<98>>}] :
    m.parent # <<m.revision>> }

\* The limits of hexadecimal digits, the two digits that are checked, the
\* hyphen, a letter of the wrong case and one that is no digit; and the limits
\* of the bytes that are checked.
MCCharacters == {0, 4, 7, 12, Hyphen, Upper, Other}
MCByteValues == {0, 63, 64, 80, 127, 128, 191, 192}

VARIABLE subject        \* what the behaviour is about

InitAll ==
  /\ subject \in {"metadata", "order", "identity"}
  /\ HistoryInit /\ Init /\ IdentityInit
  /\ subject # "metadata" => document.members = <<>>
  /\ subject # "identity" => \A k \in DOMAIN bytes : bytes[k] = 0

\* The empty document is refused whatever the behaviour is about, and first.
NextAll ==
  /\ UNCHANGED subject
  /\ \/ Next /\ UNCHANGED <<arrived, identity>>
     \/ subject = "order" /\ pc = "refused" /\ HistoryNext /\ UNCHANGED <<vars, identity>>
     \/ subject = "identity" /\ pc = "refused" /\ IdentityNext /\ UNCHANGED <<vars, arrived>>

\* Reading and writing run on; no other revision has to come.
SpecAll ==
  /\ InitAll
  /\ [][NextAll]_<<subject, vars, arrived, identity>>
  /\ WF_vars(Next /\ UNCHANGED <<subject, arrived, identity>>)
=============================================================================
