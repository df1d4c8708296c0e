--------------------------- MODULE RevisionHistory ---------------------------
(***************************************************************************)
(* The revisions of a project, as they come: what compare_project_revisions *)
(* is asked to put in order. Nothing limits which ones come, how often, or *)
(* how they relate.                                                        *)
(***************************************************************************)
EXTENDS RevisionOrder

CONSTANTS Revisions, MaxRevisions

ASSUME RevisionsAssumption == Revisions \subseteq Metadata(Seq(Nat))

VARIABLE arrived    \* the revisions in the order they came

HistoryInit == arrived = <<>>

Arrive(r) == Len(arrived) < MaxRevisions /\ arrived' = Append(arrived, r)

HistoryNext == \E r \in Revisions : Arrive(r)

HistorySpec == HistoryInit /\ [][HistoryNext]_arrived

-----------------------------------------------------------------------------
Arrived == {arrived[k] : k \in DOMAIN arrived}

\* compare_project_revisions orders the revisions of a project totally, and it
\* is consistent with equality: revisions that compare as equal are the same in
\* every field, so that a sort of them does not depend on the order they came
\* in (core/score/entity_revision.h, compare_project_revisions).
ComparisonIsATotalOrder ==
  Antisymmetric(Arrived) /\ EqualIsIdentical(Arrived) /\ Transitive(Arrived)
=============================================================================
