-------------------------- MODULE MigrationProblem ---------------------------
(***************************************************************************)
(* The vocabulary of migration planning, shared by the contract and the    *)
(* planner: plans, declared edges, reachability, and what an answer must   *)
(* satisfy. Reachability is stated without any search, by closed sets.     *)
(***************************************************************************)
EXTENDS SchemaCatalog

\* MigrationPlan: the ordered steps and the codes of its diagnostics.
Pending == [answered |-> FALSE, steps |-> <<>>, codes |-> {}]
Planned(steps)  == [answered |-> TRUE, steps |-> steps, codes |-> {}]
Refused(codes)  == [answered |-> TRUE, steps |-> <<>>, codes |-> codes]

\* A migration-kind rule of the catalog leads from d to e.
Declared(c, d, e) ==
  \E i \in DOMAIN c.rules : c.rules[i] = [from |-> d, to |-> e, kind |-> "migration"]

\* The set of documents S cannot be left along declared migrations.
ClosedUnderMigration(c, S) ==
  \A d \in S, e \in DocumentId : Declared(c, d, e) => e \in S

\* t lies in every closed set around s: some chain of migrations, of whatever
\* length, leads from s to t.
Reachable(c, s, t) ==
  \A S \in SUBSET DocumentId : s \in S /\ ClosedUnderMigration(c, S) => t \in S

IsMigrationChain(c, s, t, steps) ==
  /\ steps # <<>>
  /\ steps[1].from = s
  /\ steps[Len(steps)].to = t
  /\ \A k \in 1..Len(steps) : Declared(c, steps[k].from, steps[k].to)
  /\ \A k \in 1..Len(steps) - 1 : steps[k].to = steps[k + 1].from

\* No document is migrated to twice, and none back to the source.
VisitsOnce(s, steps) ==
  \A j, k \in 1..Len(steps) :
    steps[k].to # s /\ (j # k => steps[j].to # steps[k].to)

Registers(c, d) == LookupSchema(c.entries, d.id, d.ver).found

Promise(c, s, t, p) ==
  /\ p.steps # <<>> => IsMigrationChain(c, s, t, p.steps) /\ VisitsOnce(s, p.steps)
  /\ p.steps # <<>> => p.codes = {}
  /\ p.steps = <<>> /\ p.codes = {} => s = t
  /\ "missing-migration-edge" \in p.codes => ~Reachable(c, s, t)
  /\ p.codes = {} =>
       Valid(c) /\ (s # t => Registers(c, s) /\ Registers(c, t))
=============================================================================
