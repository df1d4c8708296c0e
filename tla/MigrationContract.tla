-------------------------- MODULE MigrationContract --------------------------
(***************************************************************************)
(* What plan_migration promises its caller, without saying how: one        *)
(* question about one immutable catalog, answered once, by a chain of      *)
(* declared migration edges or by the diagnostics that explain why there   *)
(* is none.                                                                *)
(***************************************************************************)
EXTENDS MigrationProblem

VARIABLES
  catalog, source, target,   \* the question
  plan                       \* the answer

question == <<catalog, source, target>>

Init ==
  /\ catalog \in Catalog
  /\ source \in DocumentId
  /\ target \in DocumentId
  /\ plan = Pending

Answering ==
  /\ ~plan.answered
  /\ plan'.answered
  /\ Promise(catalog, source, target, plan')
  /\ UNCHANGED question

Next == Answering

Spec == Init /\ [][Next]_<<question, plan>>
=============================================================================
