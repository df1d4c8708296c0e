------------------------- MODULE MCMigrationPlanner --------------------------
(***************************************************************************)
(* Questions about every catalog over a few registered versions of one     *)
(* format family: every set of rules, each declared readable, migration or *)
(* both (which validation must catch), built as the builder builds them.   *)
(***************************************************************************)
EXTENDS MigrationPlanner

MCSchemaId == {"score"}
MCVersions == {<<0, n, 0>> : n \in 1..4}
MCIdTextLess(a, b) == FALSE

\* The text order reverses the numeric order, as for 0.10.0 and 0.9.0.
MCDocTextLess(d, e) == VersionLess(e.ver, d.ver)

DocOf(n) == [id |-> "score", ver |-> <<0, n, 0>>]
EntryOf(n) ==
  [id |-> "score", ver |-> <<0, n, 0>>, doc |-> DocOf(n),
   path |-> [rooted |-> FALSE, backslash |-> FALSE, segs |-> << <<"a", "b", "c", "d">>[n] >>]]

Registering(n) == [k \in 1..n |-> EntryOf(k)]

Directions == {e \in DocumentId \X DocumentId : e[1] # e[2]}
RuleOf(e, kind) == [from |-> e[1], to |-> e[2], kind |-> kind]
AllRules == {RuleOf(e, k) : e \in Directions, k \in Kinds}

RulesInOrder ==
  [i \in 1..Cardinality(AllRules) |->
     CHOOSE r \in AllRules : Cardinality({q \in AllRules : RuleLess(q, r)}) = i - 1]

\* The catalog build() returns: the entries are given in order, and the rules
\* are distinct, so the sort has one outcome.
CatalogOf(n, rs, order) ==
  [entries |-> Registering(n),
   rules   |-> SelectSeq(order, LAMBDA r : r \in rs)]

\* Every direction between the first three versions undeclared, readable, a
\* migration, or (wrongly) both; the third version registered or not.
CatalogsOfBothKinds ==
  LET order == RulesInOrder
      among == {r \in AllRules : r.from # DocOf(4) /\ r.to # DocOf(4)}
  IN  {CatalogOf(n, rs, order) : n \in {2, 3}, rs \in SUBSET among}

\* Every directed graph of migrations between four registered versions.
CatalogsOfMigrations ==
  LET order == RulesInOrder
  IN  {CatalogOf(4, rs, order) :
         rs \in SUBSET {RuleOf(e, "migration") : e \in Directions}}

MCCatalogs == CatalogsOfBothKinds \cup CatalogsOfMigrations
=============================================================================
