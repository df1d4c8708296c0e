-------------------------- MODULE MigrationPlanner ---------------------------
(***************************************************************************)
(* plan_migration of core/score/schema_foundation.cpp: the gates, then a   *)
(* recursive depth-first search over the migration rules in their sorted   *)
(* order. The recursion is explicit: frames is the C++ call stack of the   *)
(* lambda dfs, one record per activation with the position its loop over   *)
(* the edges has reached (0 before the node has been entered).             *)
(*                                                                         *)
(* The code first copies the migration rules into a vector of edges; here  *)
(* the loop walks the rules themselves and passes over the readable ones.  *)
(***************************************************************************)
EXTENDS MigrationProblem

CONSTANT Catalogs            \* the catalogs a question may be about

ASSUME CatalogsAssumption == Catalogs \subseteq Catalog

VARIABLES
  catalog, source, target,   \* the arguments
  plan,                      \* the MigrationPlan returned
  pc,                        \* "gates", "search" or "done"
  frames,                    \* activations of dfs, innermost last
  visited,                   \* visited
  path_nodes,                \* path_nodes
  found                      \* found

question == <<catalog, source, target>>
locals   == <<frames, visited, path_nodes, found>>
vars     == <<question, plan, pc, locals>>

Frame == [node : DocumentId, next : Nat]
Enter(d) == [node |-> d, next |-> 0]

Top  == frames[Len(frames)]
Under == SubSeq(frames, 1, Len(frames) - 1)

\* Mutant of Edge: the edges are walked from the last to the first.
Edge_Reversed(i) == catalog.rules[Len(catalog.rules) + 1 - i]

Edge(i) == catalog.rules[i]

\* The innermost activation, and the stack, with its loop at position n.
At(n) == [node |-> Top.node, next |-> n]
Resumed(n) == [frames EXCEPT ![Len(frames)] = At(n)]

\* Mutants of Followable: readable rules are followed as well, or the visited
\* test is lost.
Followable_AnyKind(i) == Edge(i).from = Top.node /\ Edge(i).to \notin visited

Followable_Revisit(i) == Edge(i).kind = "migration" /\ Edge(i).from = Top.node

\* e.from == node and e.to not in visited, for a migration rule.
Followable(i) ==
  /\ Edge(i).kind = "migration"
  /\ Edge(i).from = Top.node
  /\ Edge(i).to \notin visited

Init ==
  /\ catalog \in Catalogs
  /\ source \in DocumentId
  /\ target \in DocumentId
  /\ plan = Pending
  /\ pc = "gates"
  /\ frames = <<>>
  /\ visited = {}
  /\ path_nodes = <<>>
  /\ found = FALSE

-----------------------------------------------------------------------------
(***************************************************************************)
(* The gates: structural validation, the trivial question, the lookups.    *)
(***************************************************************************)
Return(p) ==
  /\ plan' = p
  /\ pc' = "done"
  /\ UNCHANGED <<question, locals>>

RefuseInvalidCatalog ==
  /\ pc = "gates"
  /\ ~Valid(catalog)
  /\ Return(Refused(Codes(ValidateCatalog(catalog))))

\* Mutant of NothingToMigrate: only the schema ids are compared.
NothingToMigrate_SameFamily ==
  /\ pc = "gates"
  /\ Valid(catalog)
  /\ source.id = target.id
  /\ Return(Planned(<<>>))

NothingToMigrate ==
  /\ pc = "gates"
  /\ Valid(catalog)
  /\ source = target
  /\ Return(Planned(<<>>))

LookupCode(d) == LookupSchema(catalog.entries, d.id, d.ver).code
Unregistered == {LookupCode(source), LookupCode(target)} \ {"none"}

RefuseUnregistered ==
  /\ pc = "gates"
  /\ Valid(catalog)
  /\ source # target
  /\ Unregistered # {}
  /\ Return(Refused(Unregistered))

\* dfs(source)
BeginSearch ==
  /\ pc = "gates"
  /\ Valid(catalog)
  /\ source # target
  /\ Unregistered = {}
  /\ pc' = "search"
  /\ frames' = <<Enter(source)>>
  /\ UNCHANGED <<question, plan, visited, path_nodes, found>>

-----------------------------------------------------------------------------
(***************************************************************************)
(* The search. A call is entered only while nothing is found, so the first *)
(* test of dfs, if (found) return, never succeeds and has no action.       *)
(***************************************************************************)
Searching == pc = "search" /\ frames # <<>>

ReachTarget ==
  /\ Searching /\ ~found
  /\ Top.next = 0
  /\ Top.node = target
  /\ found' = TRUE
  /\ frames' = Under
  /\ UNCHANGED <<question, plan, pc, visited, path_nodes>>

\* Mutants of Visit: the node is never marked, or the loop starts at the
\* second edge.
Visit_Unmarked ==
  /\ Searching /\ ~found
  /\ Top.next = 0
  /\ Top.node # target
  /\ frames' = Resumed(1)
  /\ UNCHANGED <<question, plan, pc, visited, path_nodes, found>>

Visit_SkipsFirstEdge ==
  /\ Searching /\ ~found
  /\ Top.next = 0
  /\ Top.node # target
  /\ visited' = visited \cup {Top.node}
  /\ frames' = Resumed(2)
  /\ UNCHANGED <<question, plan, pc, path_nodes, found>>

Visit ==
  /\ Searching /\ ~found
  /\ Top.next = 0
  /\ Top.node # target
  /\ visited' = visited \cup {Top.node}
  /\ frames' = Resumed(1)
  /\ UNCHANGED <<question, plan, pc, path_nodes, found>>

\* Mutant of SkipEdge: the loop does not advance.
SkipEdge_NoAdvance ==
  /\ Searching /\ ~found
  /\ Top.next \in DOMAIN catalog.rules
  /\ ~Followable(Top.next)
  /\ UNCHANGED vars

SkipEdge ==
  /\ Searching /\ ~found
  /\ Top.next \in DOMAIN catalog.rules
  /\ ~Followable(Top.next)
  /\ frames' = Resumed(Top.next + 1)
  /\ UNCHANGED <<question, plan, pc, visited, path_nodes, found>>

\* path_nodes.push_back(e.to); dfs(e.to)
Descend ==
  /\ Searching /\ ~found
  /\ Top.next \in DOMAIN catalog.rules
  /\ Followable(Top.next)
  /\ path_nodes' = Append(path_nodes, Edge(Top.next).to)
  /\ frames' = Append(Resumed(Top.next + 1), Enter(Edge(Top.next).to))
  /\ UNCHANGED <<question, plan, pc, visited, found>>

\* Mutant of Backtrack: path_nodes is not popped.
Backtrack_KeepPath ==
  /\ Searching /\ ~found
  /\ Top.next = Len(catalog.rules) + 1
  /\ frames' = Under
  /\ UNCHANGED <<question, plan, pc, visited, path_nodes, found>>

\* The loop is exhausted: return to the caller, which pops path_nodes. The
\* outermost activation has no caller inside dfs and path_nodes is empty.
Backtrack ==
  /\ Searching /\ ~found
  /\ Top.next = Len(catalog.rules) + 1
  /\ frames' = Under
  /\ path_nodes' = IF path_nodes = <<>> THEN path_nodes
                   ELSE SubSeq(path_nodes, 1, Len(path_nodes) - 1)
  /\ UNCHANGED <<question, plan, pc, visited, found>>

\* After a call that found the target every activation returns at once.
Unwind ==
  /\ Searching /\ found
  /\ frames' = Under
  /\ UNCHANGED <<question, plan, pc, visited, path_nodes, found>>

\* Mutants of Steps: cur is not advanced, or not initialized with the source.
Steps_CurNotAdvanced == [k \in 1..Len(path_nodes) |-> [from |-> source, to |-> path_nodes[k]]]

Steps_CurUnset ==
  [k \in 1..Len(path_nodes) |->
     [from |-> IF k = 1 THEN [id |-> "", ver |-> <<0, 0, 0>>] ELSE path_nodes[k - 1],
      to |-> path_nodes[k]]]

\* The steps, with cur running one node behind path_nodes.
Steps ==
  [k \in 1..Len(path_nodes) |->
     [from |-> IF k = 1 THEN source ELSE path_nodes[k - 1], to |-> path_nodes[k]]]

AnswerFound ==
  /\ pc = "search" /\ frames = <<>> /\ found
  /\ Return(Planned(Steps))

AnswerMissing ==
  /\ pc = "search" /\ frames = <<>> /\ ~found
  /\ Return(Refused({"missing-migration-edge"}))

Next ==
  \/ RefuseInvalidCatalog \/ NothingToMigrate \/ RefuseUnregistered \/ BeginSearch
  \/ ReachTarget \/ Visit \/ SkipEdge \/ Descend \/ Backtrack \/ Unwind
  \/ AnswerFound \/ AnswerMissing

\* The function runs on its caller's thread and never waits.
Spec == Init /\ [][Next]_vars /\ WF_vars(Next)

-----------------------------------------------------------------------------
TypeOK ==
  /\ catalog \in Catalog
  /\ source \in DocumentId /\ target \in DocumentId
  /\ plan.answered \in BOOLEAN
  /\ plan.steps \in Seq([from : DocumentId, to : DocumentId])
  /\ pc \in {"gates", "search", "done"}
  /\ frames \in Seq(Frame)
  /\ visited \subseteq DocumentId
  /\ path_nodes \in Seq(DocumentId)
  /\ found \in BOOLEAN

(***************************************************************************)
(* The invariant of the search, in parts.                                  *)
(***************************************************************************)
\* The loop of dfs runs only behind the gates, on fresh locals.
LocalsFresh ==
  pc = "gates" => frames = <<>> /\ visited = {} /\ path_nodes = <<>> /\ ~found

GatesPassed ==
  pc = "search" =>
    /\ Valid(catalog) /\ source # target
    /\ Registers(catalog, source) /\ Registers(catalog, target)

\* path_nodes is the stack of nodes without the source, while nothing is found.
PathFollowsStack ==
  pc = "search" /\ ~found =>
    IF frames = <<>> THEN path_nodes = <<>> /\ source \in visited
    ELSE /\ Len(path_nodes) = Len(frames) - 1
         /\ frames[1].node = source
         /\ \A k \in 1..Len(path_nodes) : path_nodes[k] = frames[k + 1].node

\* Only the innermost activation can be about to enter its node; the nodes of
\* all others are visited, its own is not.
MarkedOnEntry ==
  pc = "search" /\ ~found =>
    /\ target \notin visited
    /\ \A k \in 1..Len(frames) :
         /\ frames[k].next = 0 => k = Len(frames) /\ frames[k].node \notin visited
         /\ frames[k].next # 0 => frames[k].node \in visited

PathIsDeclared ==
  \A k \in 1..Len(path_nodes) :
    Declared(catalog, IF k = 1 THEN source ELSE path_nodes[k - 1], path_nodes[k])

PathVisitsOnce ==
  \A j, k \in 1..Len(path_nodes) :
    path_nodes[k] # source /\ (j # k => path_nodes[j] # path_nodes[k])

PathReachesTarget ==
  found => path_nodes # <<>> /\ path_nodes[Len(path_nodes)] = target

\* Edges an activation has passed lead to visited nodes, or to the node the
\* innermost activation is about to enter.
PassedEdgesVisited ==
  pc = "search" /\ ~found =>
    \A k \in 1..Len(frames), i \in DOMAIN catalog.rules :
      /\ i < frames[k].next
      /\ Edge(i).kind = "migration"
      /\ Edge(i).from = frames[k].node
      => Edge(i).to \in visited \cup {Top.node}

\* A visited node whose activation has returned leads only to visited nodes.
ReturnedNodesClosed ==
  pc = "search" /\ ~found =>
    \A d \in visited :
      \/ \E k \in 1..Len(frames) : frames[k].node = d
      \/ \A i \in DOMAIN catalog.rules :
           Edge(i).kind = "migration" /\ Edge(i).from = d => Edge(i).to \in visited

AnswerOnlyWhenDone ==
  IF pc = "done" THEN plan.answered ELSE plan = Pending

SearchInvariant ==
  /\ LocalsFresh
  /\ GatesPassed
  /\ PathFollowsStack
  /\ MarkedOnEntry
  /\ PathIsDeclared
  /\ PathVisitsOnce
  /\ PathReachesTarget
  /\ PassedEdgesVisited
  /\ ReturnedNodesClosed
  /\ AnswerOnlyWhenDone

\* What the caller gets is what the contract promises: a chain of declared
\* migration edges from source to target that visits no document twice, or
\* diagnostics, and missing-migration-edge only when no chain exists at all.
AnswerKeepsPromise ==
  plan.answered => Promise(catalog, source, target, plan)

\* The search is complete: when it gives up, the documents it visited cannot be
\* left along declared migrations, so pruning by visited lost no path.
GivesUpOnlyWhenClosed ==
  pc = "search" /\ frames = <<>> /\ ~found =>
    ClosedUnderMigration(catalog, visited) /\ target \notin visited

\* "returns the first path found" in "deterministic (sorted) order": of all the
\* simple chains that exist, the plan is the one that is first when chains are
\* compared step by step in the order of the rules.
SimpleChains(c, s, t) ==
  LET walk(nodes) == [k \in DOMAIN nodes |->
                        [from |-> IF k = 1 THEN s ELSE nodes[k - 1], to |-> nodes[k]]]
  IN  {steps \in {walk(nodes) : nodes \in
                    UNION {[1..n -> DocumentId] : n \in 1..Cardinality(DocumentId) - 1}} :
         IsMigrationChain(c, s, t, steps) /\ VisitsOnce(s, steps)}

RulePosition(c, step) ==
  CHOOSE i \in DOMAIN c.rules :
    c.rules[i] = [from |-> step.from, to |-> step.to, kind |-> "migration"]

ChainBefore(c, p, q) ==
  \E k \in DOMAIN p \cap DOMAIN q :
    /\ \A j \in 1..k - 1 : p[j] = q[j]
    /\ RulePosition(c, p[k]) < RulePosition(c, q[k])

PlanIsFirstInRuleOrder ==
  plan.steps # <<>> =>
    \A q \in SimpleChains(catalog, source, target) :
      q # plan.steps => ChainBefore(catalog, plan.steps, q)

(***************************************************************************)
(* Why the first path found is the first in that order: what the search    *)
(* has left behind is dead, it leads nowhere but into itself and back onto *)
(* the stack, where a chain that visits nothing twice cannot return.       *)
(***************************************************************************)
StackNodes(n) == {frames[k].node : k \in 1..n}

ClosedBesideStack(S, n) ==
  \A d \in S, e \in DocumentId : Declared(catalog, d, e) => e \in S \cup StackNodes(n)

DeadEnd(d, n) == \E S \in SUBSET visited : d \in S /\ ClosedBesideStack(S, n)

\* An activation that is waiting for a call has just passed the edge it took.
TakenEdges ==
  pc = "search" /\ ~found =>
    \A k \in 1..Len(frames) - 1 :
      /\ frames[k].next - 1 \in DOMAIN catalog.rules
      /\ Edge(frames[k].next - 1) =
           [from |-> frames[k].node, to |-> frames[k + 1].node, kind |-> "migration"]

\* Every earlier edge of an activation leads back to its stack or to a dead end.
PassedEdgesDead ==
  pc = "search" /\ ~found =>
    \A k \in 1..Len(frames), i \in DOMAIN catalog.rules :
      /\ i < frames[k].next
      /\ k # Len(frames) => i # frames[k].next - 1
      /\ Edge(i).kind = "migration"
      /\ Edge(i).from = frames[k].node
      => Edge(i).to \in StackNodes(k) \/ DeadEnd(Edge(i).to, k)

ReturnedNodesDead ==
  pc = "search" /\ ~found =>
    \A d \in visited \ StackNodes(Len(frames)) : DeadEnd(d, Len(frames))

FoundPathIsFirst ==
  found =>
    \A q \in SimpleChains(catalog, source, target) :
      q # Steps => ChainBefore(catalog, Steps, q)

OrderInvariant ==
  /\ TakenEdges
  /\ PassedEdgesDead
  /\ ReturnedNodesDead
  /\ FoundPathIsFirst

\* The inductive invariant of the search (plan_migration, dfs). It bounds the
\* recursion as well: the nodes on the stack are all different.
IInv == TypeOK /\ SearchInvariant /\ OrderInvariant

\* A pair that schema_compatibility answers with requires-migration has a plan.
RequiresMigrationIsPlannable ==
  /\ plan.answered
  /\ source.id = target.id
  /\ SchemaCompatibility(catalog, source.id, source.ver, target.ver).value
       = "requires-migration"
  => plan.steps # <<>>

\* Every question is answered, on every rule graph, cyclic ones included.
EveryQuestionIsAnswered == <>plan.answered

\* The planner implements the contract.
Contract == INSTANCE MigrationContract

ImplementsContract == Contract!Spec
=============================================================================
