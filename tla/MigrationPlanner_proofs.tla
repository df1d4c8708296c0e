----------------------- MODULE MigrationPlanner_proofs -----------------------
(***************************************************************************)
(* Proofs about plan_migration for every set of catalogs, of documents and *)
(* of rules: its types, the invariant of its search, and that it           *)
(* implements MigrationContract.                                           *)
(***************************************************************************)
EXTENDS MigrationPlanner, SequenceTheorems, WellFoundedInduction, TLAPS

\* A non-empty sequence has a last element.
LEMMA NonEmptySeq ==
  ASSUME NEW S, NEW s \in Seq(S), s # <<>>
  PROVE  /\ Len(s) \in Nat /\ Len(s) >= 1
         /\ Len(s) \in 1..Len(s)
         /\ DOMAIN s = 1..Len(s)
         /\ \A k \in 1..Len(s) : s[k] \in S
  <1>1. Len(s) \in Nat /\ DOMAIN s = 1..Len(s)
    BY LenProperties
  <1>2. Len(s) # 0
    BY EmptySeq
  <1>3. \A k \in 1..Len(s) : s[k] \in S
    BY ElementOfSeq
  <1>4. QED
    BY <1>1, <1>2, <1>3

\* What is left of a stack after its last element is removed.
LEMMA PopProperties ==
  ASSUME NEW S, NEW s \in Seq(S), s # <<>>
  PROVE  /\ SubSeq(s, 1, Len(s) - 1) \in Seq(S)
         /\ Len(SubSeq(s, 1, Len(s) - 1)) = Len(s) - 1
         /\ \A k \in 1..Len(s) - 1 : SubSeq(s, 1, Len(s) - 1)[k] = s[k]
  <1>1. Len(s) \in Nat /\ Len(s) >= 1 /\ \A k \in 1..Len(s) : s[k] \in S
    BY NonEmptySeq
  <1> DEFINE n == Len(s) - 1
  <1>2. n \in Int /\ n >= 0 /\ n < Len(s)
    BY <1>1
  <1>3. \A k \in 1..n : s[k] \in S
    BY <1>1, <1>2
  <1> HIDE DEF n
  <1>4. /\ SubSeq(s, 1, n) \in Seq(S)
        /\ Len(SubSeq(s, 1, n)) = IF 1 <= n THEN n - 1 + 1 ELSE 0
        /\ \A k \in 1..n - 1 + 1 : SubSeq(s, 1, n)[k] = s[1 + k - 1]
    BY <1>2, <1>3, SubSeqProperties
  <1>5. Len(SubSeq(s, 1, n)) = n
    BY <1>2, <1>4
  <1>6. ASSUME NEW k \in 1..n PROVE SubSeq(s, 1, n)[k] = s[k]
    <2>1. n - 1 + 1 = n /\ 1 + k - 1 = k
      BY <1>2
    <2>2. QED
      BY <1>4, <2>1
  <1>7. QED
    BY <1>4, <1>5, <1>6 DEF n

\* Moving the loop of the innermost activation.
LEMMA ResumedProperties ==
  ASSUME frames \in Seq(Frame), frames # <<>>, NEW n \in Nat
  PROVE  /\ Top \in Frame
         /\ Resumed(n) \in Seq(Frame)
         /\ Resumed(n) # <<>>
         /\ Len(Resumed(n)) = Len(frames)
         /\ \A k \in 1..Len(frames) :
              Resumed(n)[k] = IF k = Len(frames) THEN At(n) ELSE frames[k]
  <1>1. /\ Len(frames) \in 1..Len(frames) /\ DOMAIN frames = 1..Len(frames)
        /\ Top \in Frame /\ Len(frames) \in Nat /\ Len(frames) >= 1
    BY NonEmptySeq DEF Top
  <1>2. At(n) \in Frame
    BY <1>1 DEF At, Frame
  <1>3. /\ Resumed(n) \in Seq(Frame)
        /\ Len(Resumed(n)) = Len(frames)
        /\ \A k \in 1..Len(frames) :
              Resumed(n)[k] = IF k = Len(frames) THEN At(n) ELSE frames[k]
    BY <1>1, <1>2, ExceptSeq DEF Resumed
  <1>4. Resumed(n) # <<>>
    BY <1>1, <1>3, EmptySeq
  <1>5. QED
    BY <1>1, <1>3, <1>4

\* The loop position of an activation and what the rule there looks like.
LEMMA RuleTypes ==
  ASSUME catalog \in Catalog, NEW i \in DOMAIN catalog.rules
  PROVE  /\ i \in Nat
         /\ Edge(i) \in Rule
         /\ Edge(i).from \in DocumentId /\ Edge(i).to \in DocumentId
  <1>1. catalog.rules \in Seq(Rule)
    BY DEF Catalog
  <1>2. i \in 1..Len(catalog.rules) /\ Len(catalog.rules) \in Nat
    BY <1>1, LenProperties
  <1>3. Edge(i) \in Rule
    BY <1>1, <1>2, ElementOfSeq DEF Edge
  <1>4. QED
    BY <1>2, <1>3 DEF Rule

-----------------------------------------------------------------------------
\* Edges of the catalog and the stack stay well-typed through every step, and
\* the plan is pending or one of the planner's answers (plan_migration).
THEOREM TypeCorrect == Spec => []TypeOK
<1>1. Init => TypeOK
  <2> SUFFICES ASSUME Init PROVE TypeOK
    OBVIOUS
  <2>1. catalog \in Catalog
    BY CatalogsAssumption DEF Init
  <2>2. \A S : <<>> \in Seq(S)
    BY EmptySeq
  <2>3. QED
    BY <2>1, <2>2 DEF Init, TypeOK, Pending
<1>2. TypeOK /\ [Next]_vars => TypeOK'
  <2> SUFFICES ASSUME TypeOK, [Next]_vars PROVE TypeOK'
    OBVIOUS
  <2> USE DEF TypeOK
  <2>1. CASE RefuseInvalidCatalog
    BY <2>1 DEF RefuseInvalidCatalog, Return, Refused, question, locals
  <2>2. CASE NothingToMigrate
    BY <2>2 DEF NothingToMigrate, Return, Planned, question, locals
  <2>3. CASE RefuseUnregistered
    BY <2>3 DEF RefuseUnregistered, Return, Refused, question, locals
  <2>4. CASE BeginSearch
    <3>1. Enter(source) \in Frame
      BY DEF Enter, Frame
    <3>2. <<Enter(source)>> \in Seq(Frame)
      BY <3>1
    <3>3. QED
      BY <2>4, <3>2 DEF BeginSearch, question
  <2>5. CASE ReachTarget
    <3>1. Under \in Seq(Frame)
      BY <2>5, PopProperties DEF ReachTarget, Searching, Under
    <3>2. QED
      BY <2>5, <3>1 DEF ReachTarget, Searching, question
  <2>6. CASE Visit
    <3>1. Top \in Frame /\ Resumed(1) \in Seq(Frame)
      BY <2>6, ResumedProperties, 1 \in Nat DEF Visit, Searching
    <3>2. QED
      BY <2>6, <3>1 DEF Visit, Frame, question
  <2>7. CASE SkipEdge
    <3>1. Top.next + 1 \in Nat
      BY <2>7, RuleTypes DEF SkipEdge
    <3>2. Resumed(Top.next + 1) \in Seq(Frame)
      BY <2>7, <3>1, ResumedProperties DEF SkipEdge, Searching
    <3>3. QED
      BY <2>7, <3>2 DEF SkipEdge, question
  <2>8. CASE Descend
    <3>1. Top.next + 1 \in Nat /\ Edge(Top.next).to \in DocumentId
      BY <2>8, RuleTypes DEF Descend
    <3>2. Resumed(Top.next + 1) \in Seq(Frame)
      BY <2>8, <3>1, ResumedProperties DEF Descend, Searching
    <3>3. Enter(Edge(Top.next).to) \in Frame
      BY <3>1 DEF Enter, Frame
    <3>4. frames' \in Seq(Frame)
      BY <2>8, <3>2, <3>3, AppendProperties DEF Descend
    <3>5. path_nodes' \in Seq(DocumentId)
      BY <2>8, <3>1, AppendProperties DEF Descend
    <3>6. QED
      BY <2>8, <3>4, <3>5 DEF Descend, question
  <2>9. CASE Backtrack
    <3>1. Under \in Seq(Frame)
      BY <2>9, PopProperties DEF Backtrack, Searching, Under
    <3>2. path_nodes' \in Seq(DocumentId)
      BY <2>9, PopProperties DEF Backtrack
    <3>3. QED
      BY <2>9, <3>1, <3>2 DEF Backtrack, question
  <2>10. CASE Unwind
    <3>1. Under \in Seq(Frame)
      BY <2>10, PopProperties DEF Unwind, Searching, Under
    <3>2. QED
      BY <2>10, <3>1 DEF Unwind, question
  <2>11. CASE AnswerFound
    <3>1. Steps \in Seq([from : DocumentId, to : DocumentId])
      <4>1. Len(path_nodes) \in Nat /\ \A k \in 1..Len(path_nodes) : path_nodes[k] \in DocumentId
        BY LenProperties, ElementOfSeq
      <4>2. \A k \in 1..Len(path_nodes) :
              [from |-> IF k = 1 THEN source ELSE path_nodes[k - 1], to |-> path_nodes[k]]
                \in [from : DocumentId, to : DocumentId]
        BY <4>1
      <4>3. QED
        BY <4>1, <4>2, IsASeq DEF Steps
    <3>2. QED
      BY <2>11, <3>1 DEF AnswerFound, Return, Planned, question, locals
  <2>12. CASE AnswerMissing
    BY <2>12 DEF AnswerMissing, Return, Refused, question, locals
  <2>13. CASE UNCHANGED vars
    BY <2>13 DEF vars, question, locals
  <2>14. QED
    BY <2>1, <2>2, <2>3, <2>4, <2>5, <2>6, <2>7, <2>8, <2>9, <2>10, <2>11, <2>12, <2>13
    DEF Next
<1>3. QED
  BY <1>1, <1>2, PTL DEF Spec

-----------------------------------------------------------------------------
(***************************************************************************)
(* The invariant of the search, action by action.                          *)
(***************************************************************************)
\* What every step of the search starts from.
SInv == TypeOK /\ SearchInvariant

\* A registered document has a lookup code of "none".
LEMMA RegisteredWhenNoCode ==
  ASSUME NEW d \in DocumentId, LookupCode(d) = "none"
  PROVE  Registers(catalog, d)
  BY DEF LookupCode, Registers, LookupSchema, Found, NotFound

LEMMA BeginSearchStep ==
  ASSUME SInv, BeginSearch
  PROVE  SearchInvariant'
<1> USE DEF SInv, TypeOK
<1>1. /\ pc = "gates" /\ pc' = "search" /\ frames' = <<Enter(source)>>
      /\ UNCHANGED <<catalog, source, target, plan, visited, path_nodes, found>>
      /\ Valid(catalog) /\ source # target /\ Unregistered = {}
  BY DEF BeginSearch, question
<1>2. /\ frames' # <<>> /\ Len(frames') = 1 /\ frames'[1] = Enter(source)
      /\ visited = {} /\ path_nodes = <<>> /\ ~found /\ Len(path_nodes) = 0
      /\ plan = Pending
  BY <1>1 DEF SearchInvariant, LocalsFresh, AnswerOnlyWhenDone
<1>3. Registers(catalog, source) /\ Registers(catalog, target)
  <2>1. LookupCode(source) = "none" /\ LookupCode(target) = "none"
    BY <1>1 DEF Unregistered
  <2>2. QED
    BY <2>1, RegisteredWhenNoCode
<1>4. PathFollowsStack' /\ MarkedOnEntry'
  BY <1>1, <1>2 DEF PathFollowsStack, MarkedOnEntry, Enter
<1>5. PassedEdgesVisited'
  <2>1. \A i \in DOMAIN catalog.rules : ~(i < 0)
    BY RuleTypes
  <2>2. QED
    BY <1>1, <1>2, <2>1 DEF PassedEdgesVisited, Enter, Edge
<1>6. PathIsDeclared' /\ PathVisitsOnce' /\ PathReachesTarget' /\ ReturnedNodesClosed'
  BY <1>1, <1>2 DEF PathIsDeclared, PathVisitsOnce, PathReachesTarget, ReturnedNodesClosed
<1>7. QED
  BY <1>1, <1>2, <1>3, <1>4, <1>5, <1>6
  DEF SearchInvariant, LocalsFresh, GatesPassed, AnswerOnlyWhenDone

LEMMA ReachTargetStep ==
  ASSUME SInv, ReachTarget
  PROVE  SearchInvariant'
<1> USE DEF SInv, TypeOK
<1>1. /\ pc = "search" /\ pc' = "search" /\ frames # <<>> /\ ~found /\ found'
      /\ Top.node = target /\ Top.next = 0
      /\ UNCHANGED <<catalog, source, target, plan, visited, path_nodes>>
  BY DEF ReachTarget, Searching, question
<1>2. Len(frames) \in Nat /\ Len(frames) >= 1 /\ Len(path_nodes) \in Nat
  BY <1>1, NonEmptySeq, LenProperties
<1>3. PathReachesTarget'
  <2>1. /\ Len(path_nodes) = Len(frames) - 1
        /\ frames[1].node = source
        /\ \A k \in 1..Len(path_nodes) : path_nodes[k] = frames[k + 1].node
    BY <1>1 DEF SearchInvariant, PathFollowsStack
  <2>2. source # target
    BY <1>1 DEF SearchInvariant, GatesPassed
  <2>3. Len(frames) # 1
    BY <1>1, <2>1, <2>2 DEF Top
  <2>4. /\ Len(path_nodes) \in 1..Len(path_nodes)
        /\ Len(path_nodes) + 1 = Len(frames)
    BY <1>2, <2>1, <2>3
  <2>5. path_nodes[Len(path_nodes)] = target
    BY <1>1, <2>1, <2>4 DEF Top
  <2>6. path_nodes # <<>>
    BY <2>4, EmptySeq
  <2>7. QED
    BY <1>1, <2>5, <2>6 DEF PathReachesTarget
<1>4. QED
  BY <1>1, <1>3
  DEF SearchInvariant, LocalsFresh, GatesPassed, PathFollowsStack, MarkedOnEntry, PathIsDeclared,
      PathVisitsOnce, PassedEdgesVisited, ReturnedNodesClosed, AnswerOnlyWhenDone

LEMMA VisitStep ==
  ASSUME SInv, Visit
  PROVE  SearchInvariant'
<1> USE DEF SInv, TypeOK
<1>1. /\ pc = "search" /\ pc' = "search" /\ frames # <<>> /\ ~found /\ ~found'
      /\ Top.node # target /\ Top.next = 0
      /\ visited' = visited \cup {Top.node} /\ frames' = Resumed(1)
      /\ UNCHANGED <<catalog, source, target, plan, path_nodes, found>>
  BY DEF Visit, Searching, question
<1>2. /\ Len(frames) \in Nat /\ Len(frames) >= 1
      /\ frames' # <<>> /\ Len(frames') = Len(frames)
      /\ \A k \in 1..Len(frames) :
           frames'[k] = IF k = Len(frames) THEN At(1) ELSE frames[k]
  BY <1>1, NonEmptySeq, ResumedProperties, 1 \in Nat
<1>3. \A k \in 1..Len(frames) : frames'[k].node = frames[k].node
  BY <1>2 DEF At, Top
<1>4. Top' = At(1) /\ Top'.node = Top.node
  BY <1>2 DEF At, Top
<1>5. PathFollowsStack'
  <2>1. /\ Len(path_nodes) = Len(frames) - 1 /\ Len(path_nodes) \in Nat
        /\ frames[1].node = source
        /\ \A k \in 1..Len(path_nodes) : path_nodes[k] = frames[k + 1].node
    BY <1>1, LenProperties DEF SearchInvariant, PathFollowsStack
  <2>2. \A k \in 1..Len(path_nodes) : k + 1 \in 1..Len(frames)
    BY <1>2, <2>1
  <2>3. frames'[1].node = source
    BY <1>2, <1>3, <2>1
  <2>4. \A k \in 1..Len(path_nodes) : path_nodes[k] = frames'[k + 1].node
    BY <1>3, <2>1, <2>2
  <2>5. QED
    BY <1>1, <1>2, <2>1, <2>3, <2>4 DEF PathFollowsStack
<1>6. MarkedOnEntry'
  BY <1>1, <1>2 DEF SearchInvariant, MarkedOnEntry, At, Top
<1>7. PassedEdgesVisited'
  <2> SUFFICES ASSUME NEW k \in 1..Len(frames), NEW i \in DOMAIN catalog.rules,
                      i < frames'[k].next, Edge(i).kind = "migration",
                      Edge(i).from = frames'[k].node
               PROVE  Edge(i).to \in visited \cup {Top.node}
    BY <1>1, <1>2, <1>4 DEF PassedEdgesVisited, Edge
  <2>1. CASE k = Len(frames)
    <3>1. i >= 1 /\ i \in Nat
      BY LenProperties DEF Catalog
    <3>2. QED
      BY <1>2, <2>1, <3>1 DEF At
  <2>2. CASE k # Len(frames)
    BY <1>1, <1>2, <2>2 DEF SearchInvariant, PassedEdgesVisited
  <2>3. QED
    BY <2>1, <2>2
<1>8. ReturnedNodesClosed'
  <2> SUFFICES ASSUME NEW d \in visited \cup {Top.node}
               PROVE  \/ \E k \in 1..Len(frames) : frames'[k].node = d
                      \/ \A i \in DOMAIN catalog.rules :
                           Edge(i).kind = "migration" /\ Edge(i).from = d
                             => Edge(i).to \in visited'
    BY <1>1, <1>2 DEF ReturnedNodesClosed, Edge
  <2>1. CASE d = Top.node
    BY <1>2, <1>3, <2>1 DEF Top
  <2>2. CASE d \in visited
    BY <1>1, <1>3, <2>2 DEF SearchInvariant, ReturnedNodesClosed
  <2>3. QED
    BY <2>1, <2>2
<1>9. QED
  BY <1>1, <1>5, <1>6, <1>7, <1>8
  DEF SearchInvariant, LocalsFresh, GatesPassed, PathIsDeclared, PathVisitsOnce, PathReachesTarget,
      AnswerOnlyWhenDone, Declared

LEMMA SkipEdgeStep ==
  ASSUME SInv, SkipEdge
  PROVE  SearchInvariant'
<1> USE DEF SInv, TypeOK
<1> DEFINE n == Top.next
<1>1. /\ pc = "search" /\ pc' = "search" /\ frames # <<>> /\ ~found /\ ~found'
      /\ n \in DOMAIN catalog.rules /\ ~Followable(n) /\ frames' = Resumed(n + 1)
      /\ UNCHANGED <<catalog, source, target, plan, visited, path_nodes, found>>
  BY DEF SkipEdge, Searching, question
<1>2. n \in Nat /\ n + 1 \in Nat /\ n # 0
  <2>1. n \in 1..Len(catalog.rules) /\ Len(catalog.rules) \in Nat
    BY <1>1, LenProperties DEF Catalog
  <2>2. QED
    BY <2>1
<1> HIDE DEF n
<1>3. /\ Len(frames) \in Nat /\ Len(frames) >= 1
      /\ frames' # <<>> /\ Len(frames') = Len(frames)
      /\ \A k \in 1..Len(frames) :
           frames'[k] = IF k = Len(frames) THEN At(n + 1) ELSE frames[k]
  BY <1>1, <1>2, NonEmptySeq, ResumedProperties
<1>4. \A k \in 1..Len(frames) : frames'[k].node = frames[k].node
  BY <1>3 DEF At, Top
<1>5. Top' = At(n + 1) /\ Top'.node = Top.node
  BY <1>3 DEF At, Top
<1>6. Top.node \in visited
  BY <1>1, <1>2, <1>3 DEF SearchInvariant, MarkedOnEntry, Top, n
<1>7. PathFollowsStack'
  BY <1>1, <1>3, <1>4 DEF SearchInvariant, PathFollowsStack
<1>8. MarkedOnEntry'
  BY <1>1, <1>2, <1>3, <1>6 DEF SearchInvariant, MarkedOnEntry, At
<1>9. PassedEdgesVisited'
  <2> SUFFICES ASSUME NEW k \in 1..Len(frames), NEW i \in DOMAIN catalog.rules,
                      i < frames'[k].next, Edge(i).kind = "migration",
                      Edge(i).from = frames'[k].node
               PROVE  Edge(i).to \in visited
    BY <1>1, <1>3, <1>5 DEF PassedEdgesVisited, Edge
  <2>1. CASE k = Len(frames) /\ i = n
    BY <1>1, <1>3, <2>1 DEF At, Followable
  <2>2. CASE k = Len(frames) /\ i # n
    <3>1. i \in Nat /\ i < n
      BY <1>2, <1>3, <2>2, RuleTypes DEF At
    <3>2. i < frames[k].next /\ Edge(i).from = frames[k].node
      BY <1>3, <1>4, <2>2, <3>1 DEF n, Top
    <3>3. Edge(i).to \in visited \cup {Top.node}
      BY <1>1, <3>2 DEF SearchInvariant, PassedEdgesVisited
    <3>4. QED
      BY <1>6, <3>3
  <2>3. CASE k # Len(frames)
    <3>1. Edge(i).to \in visited \cup {Top.node}
      BY <1>1, <1>3, <2>3 DEF SearchInvariant, PassedEdgesVisited
    <3>2. QED
      BY <1>6, <3>1
  <2>4. QED
    BY <2>1, <2>2, <2>3
<1>10. ReturnedNodesClosed'
  BY <1>1, <1>3, <1>4 DEF SearchInvariant, ReturnedNodesClosed, Edge
<1>11. QED
  BY <1>1, <1>7, <1>8, <1>9, <1>10
  DEF SearchInvariant, LocalsFresh, GatesPassed, PathIsDeclared, PathVisitsOnce, PathReachesTarget,
      AnswerOnlyWhenDone, Declared

LEMMA DescendStep ==
  ASSUME SInv, Descend
  PROVE  SearchInvariant'
<1> USE DEF SInv, TypeOK
<1> DEFINE n == Top.next
           d == Edge(n).to
           F == Len(frames)
           P == Len(path_nodes)
<1>1. /\ pc = "search" /\ pc' = "search" /\ frames # <<>> /\ ~found /\ ~found'
      /\ n \in DOMAIN catalog.rules /\ Followable(n)
      /\ path_nodes' = Append(path_nodes, d)
      /\ frames' = Append(Resumed(n + 1), Enter(d))
      /\ UNCHANGED <<catalog, source, target, plan, visited, found>>
  BY DEF Descend, Searching, question
<1>2. n \in Nat /\ n + 1 \in Nat /\ n # 0 /\ d \in DocumentId
  <2>1. n \in 1..Len(catalog.rules) /\ Len(catalog.rules) \in Nat
    BY <1>1, LenProperties DEF Catalog
  <2>2. QED
    BY <1>1, <2>1, RuleTypes
<1>3. /\ Edge(n) = [from |-> Top.node, to |-> d, kind |-> "migration"]
      /\ d \notin visited
  <2>1. Edge(n) \in Rule
    BY <1>1, RuleTypes
  <2>2. QED
    BY <1>1, <2>1 DEF Followable, Rule
<1> HIDE DEF n, d
<1>4. /\ F \in Nat /\ F >= 1 /\ P \in Nat
      /\ Top.node \in DocumentId
      /\ Resumed(n + 1) \in Seq(Frame) /\ Len(Resumed(n + 1)) = F
      /\ \A k \in 1..F : Resumed(n + 1)[k] = IF k = F THEN At(n + 1) ELSE frames[k]
  BY <1>1, <1>2, NonEmptySeq, ResumedProperties, LenProperties DEF Frame
<1>5. Enter(d) \in Frame
  BY <1>2 DEF Enter, Frame
<1>6. /\ Len(frames') = F + 1 /\ frames' # <<>>
      /\ \A k \in 1..F : frames'[k] = IF k = F THEN At(n + 1) ELSE frames[k]
      /\ frames'[F + 1] = Enter(d)
  <2> DEFINE R == Resumed(n + 1)
  <2>1. R \in Seq(Frame) /\ Len(R) = F /\ frames' = Append(R, Enter(d))
    BY <1>1, <1>4
  <2> HIDE DEF R
  <2>2. /\ frames' # <<>> /\ Len(frames') = F + 1
        /\ \A k \in 1..F : frames'[k] = R[k]
        /\ frames'[F + 1] = Enter(d)
    BY <1>5, <2>1, AppendProperties
  <2>3. QED
    BY <1>4, <2>2 DEF R
<1>7. /\ Len(path_nodes') = P + 1 /\ path_nodes' # <<>>
      /\ \A k \in 1..P : path_nodes'[k] = path_nodes[k]
      /\ path_nodes'[P + 1] = d
  BY <1>1, <1>2, <1>4, AppendProperties
<1>8. Top' = Enter(d)
  BY <1>6, <1>4 DEF Top
<1>9. /\ P = F - 1 /\ frames[1].node = source
      /\ \A k \in 1..P : path_nodes[k] = frames[k + 1].node
  BY <1>1 DEF SearchInvariant, PathFollowsStack
<1>10. \A k \in 1..F : frames[k].node \in visited
  BY <1>1, <1>2, <1>4 DEF SearchInvariant, MarkedOnEntry, Top, n
<1>11. \A k \in 1..F : frames'[k].node = frames[k].node
  BY <1>6 DEF At, Top
<1> HIDE DEF F, P
<1>12. 1 \in 1..F /\ F \in 1..F /\ P + 1 = F /\ \A k \in 1..P : k + 1 \in 1..F
  BY <1>4, <1>9
<1>13. PathFollowsStack'
  <2>1. \A k \in 1..P + 1 : path_nodes'[k] = frames'[k + 1].node
    <3> SUFFICES ASSUME NEW k \in 1..P + 1 PROVE path_nodes'[k] = frames'[k + 1].node
      OBVIOUS
    <3>1. CASE k = P + 1
      BY <1>6, <1>7, <1>12, <3>1 DEF Enter
    <3>2. CASE k \in 1..P
      BY <1>7, <1>9, <1>11, <1>12, <3>2
    <3>3. QED
      BY <1>4, <3>1, <3>2
  <2>2. frames'[1].node = source
    BY <1>9, <1>11, <1>12
  <2>3. Len(path_nodes') = Len(frames') - 1
    BY <1>4, <1>6, <1>7, <1>12
  <2>4. QED
    BY <1>1, <1>6, <1>7, <2>1, <2>2, <2>3 DEF PathFollowsStack
<1>14. MarkedOnEntry'
  <2> SUFFICES ASSUME NEW k \in 1..F + 1
               PROVE  /\ frames'[k].next = 0 => k = F + 1 /\ frames'[k].node \notin visited
                      /\ frames'[k].next # 0 => frames'[k].node \in visited
    BY <1>1, <1>6 DEF SearchInvariant, MarkedOnEntry
  <2>1. CASE k = F + 1
    BY <1>3, <1>6, <2>1 DEF Enter
  <2>2. CASE k \in 1..F
    <3>1. frames'[k].next # 0
      BY <1>1, <1>2, <1>4, <1>6, <2>2 DEF SearchInvariant, MarkedOnEntry, At, F
    <3>2. QED
      BY <1>10, <1>11, <2>2, <3>1
  <2>3. QED
    BY <1>4, <2>1, <2>2
<1>15. Declared(catalog, Top.node, d)
  BY <1>1, <1>3 DEF Declared, Edge
<1>16. Top.node = IF P = 0 THEN source ELSE path_nodes[P]
  <2>1. CASE P = 0
    BY <1>9, <1>12, <2>1 DEF Top, F
  <2>2. CASE P # 0
    <3>1. P \in 1..P
      BY <1>4, <2>2
    <3>2. QED
      BY <1>9, <1>12, <2>2, <3>1 DEF Top, F
  <2>3. QED
    BY <2>1, <2>2
<1>17. PathIsDeclared'
  <2> SUFFICES ASSUME NEW k \in 1..P + 1
               PROVE  Declared(catalog, IF k = 1 THEN source ELSE path_nodes'[k - 1], path_nodes'[k])
    BY <1>1, <1>7 DEF PathIsDeclared, Declared
  <2>1. CASE k = P + 1
    <3>1. (IF k = 1 THEN source ELSE path_nodes'[k - 1]) = Top.node
      <4>1. CASE P = 0
        BY <1>16, <2>1, <4>1
      <4>2. CASE P # 0
        <5>1. P \in 1..P /\ k - 1 = P /\ k # 1
          BY <1>4, <2>1, <4>2
        <5>2. QED
          BY <1>7, <1>16, <4>2, <5>1
      <4>3. QED
        BY <4>1, <4>2
    <3>2. QED
      BY <1>7, <1>15, <2>1, <3>1
  <2>2. CASE k \in 1..P
    <3>1. k # 1 => k - 1 \in 1..P
      BY <1>4, <2>2
    <3>2. QED
      BY <1>7, <2>2, <3>1 DEF SearchInvariant, PathIsDeclared, P
  <2>3. QED
    BY <1>4, <2>1, <2>2
<1>18. d # source /\ \A k \in 1..P : path_nodes[k] # d
  BY <1>3, <1>9, <1>10, <1>12
<1>19. PathVisitsOnce'
  <2> SUFFICES ASSUME NEW j \in 1..P + 1, NEW k \in 1..P + 1
               PROVE  path_nodes'[k] # source /\ (j # k => path_nodes'[j] # path_nodes'[k])
    BY <1>1, <1>7 DEF PathVisitsOnce
  <2>1. j \in 1..P \/ j = P + 1
    BY <1>4
  <2>2. k \in 1..P \/ k = P + 1
    BY <1>4
  <2>3. QED
    BY <1>7, <1>18, <2>1, <2>2 DEF SearchInvariant, PathVisitsOnce, P
<1>20. PassedEdgesVisited'
  <2> SUFFICES ASSUME NEW k \in 1..F + 1, NEW i \in DOMAIN catalog.rules,
                      i < frames'[k].next, Edge(i).kind = "migration",
                      Edge(i).from = frames'[k].node
               PROVE  Edge(i).to \in visited \cup {d}
    BY <1>1, <1>6, <1>8 DEF PassedEdgesVisited, Edge, Enter
  <2>1. i \in Nat
    BY RuleTypes
  <2>2. CASE k = F + 1
    BY <1>6, <2>1, <2>2 DEF Enter
  <2>3. CASE k \in 1..F
    <3>1. Top.node \in visited
      BY <1>10, <1>12 DEF Top, F
    <3>2. CASE k = F /\ i = n
      BY <3>2 DEF d
    <3>3. CASE i < frames[k].next
      <4>1. Edge(i).to \in visited \cup {Top.node}
        BY <1>1, <1>11, <2>3, <3>3 DEF SearchInvariant, PassedEdgesVisited, F
      <4>2. QED
        BY <3>1, <4>1
    <3>4. (k = F /\ i = n) \/ i < frames[k].next
      BY <1>2, <1>6, <2>1, <2>3 DEF At, n, Top, F
    <3>5. QED
      BY <3>2, <3>3, <3>4
  <2>4. QED
    BY <1>4, <2>2, <2>3
<1>21. ReturnedNodesClosed'
  <2>1. \A k \in 1..F : k \in 1..Len(frames') /\ frames'[k].node = frames[k].node
    BY <1>4, <1>6, <1>11
  <2> SUFFICES ASSUME NEW v \in visited
               PROVE  \/ \E k \in 1..Len(frames') : frames'[k].node = v
                      \/ \A i \in DOMAIN catalog.rules :
                           Edge(i).kind = "migration" /\ Edge(i).from = v
                             => Edge(i).to \in visited
    BY <1>1 DEF ReturnedNodesClosed, Edge
  <2>2. \/ \E k \in 1..F : frames[k].node = v
        \/ \A i \in DOMAIN catalog.rules :
             Edge(i).kind = "migration" /\ Edge(i).from = v => Edge(i).to \in visited
    BY <1>1 DEF SearchInvariant, ReturnedNodesClosed, F
  <2>3. QED
    BY <2>1, <2>2
<1>22. QED
  BY <1>1, <1>13, <1>14, <1>17, <1>19, <1>20, <1>21
  DEF SearchInvariant, LocalsFresh, GatesPassed, PathReachesTarget, AnswerOnlyWhenDone

LEMMA BacktrackStep ==
  ASSUME SInv, Backtrack
  PROVE  SearchInvariant'
<1> USE DEF SInv, TypeOK
<1> DEFINE F == Len(frames)
           P == Len(path_nodes)
<1>1. /\ pc = "search" /\ pc' = "search" /\ frames # <<>> /\ ~found /\ ~found'
      /\ Top.next = Len(catalog.rules) + 1
      /\ frames' = Under
      /\ path_nodes' = IF path_nodes = <<>> THEN path_nodes
                       ELSE SubSeq(path_nodes, 1, P - 1)
      /\ UNCHANGED <<catalog, source, target, plan, visited, found>>
  BY DEF Backtrack, Searching, question
<1>2. /\ F \in Nat /\ F >= 1 /\ P \in Nat
      /\ Under \in Seq(Frame) /\ Len(Under) = F - 1
      /\ \A k \in 1..F - 1 : Under[k] = frames[k]
  BY <1>1, NonEmptySeq, PopProperties, LenProperties DEF Under
<1>3. /\ P = F - 1 /\ frames[1].node = source
      /\ \A k \in 1..P : path_nodes[k] = frames[k + 1].node
  BY <1>1 DEF SearchInvariant, PathFollowsStack
<1>4. /\ Len(catalog.rules) \in Nat
      /\ \A i \in DOMAIN catalog.rules : i \in Nat /\ i < Top.next
  <2>1. Len(catalog.rules) \in Nat /\ DOMAIN catalog.rules = 1..Len(catalog.rules)
    BY LenProperties DEF Catalog
  <2>2. QED
    BY <1>1, <2>1
<1>5. Top.node \in visited
  BY <1>1, <1>2, <1>4 DEF SearchInvariant, MarkedOnEntry, Top
<1>6. \A i \in DOMAIN catalog.rules :
        Edge(i).kind = "migration" /\ Edge(i).from = Top.node => Edge(i).to \in visited
  <2> SUFFICES ASSUME NEW i \in DOMAIN catalog.rules,
                      Edge(i).kind = "migration", Edge(i).from = Top.node
               PROVE  Edge(i).to \in visited
    OBVIOUS
  <2>1. F \in 1..F /\ i < frames[F].next /\ Edge(i).from = frames[F].node
    BY <1>2, <1>4 DEF Top
  <2>2. Edge(i).to \in visited \cup {Top.node}
    BY <1>1, <2>1 DEF SearchInvariant, PassedEdgesVisited
  <2>3. QED
    BY <1>5, <2>2
<1>7. /\ Len(path_nodes') = IF P = 0 THEN 0 ELSE P - 1
      /\ \A k \in 1..Len(path_nodes') : k \in 1..P /\ path_nodes'[k] = path_nodes[k]
  <2>1. CASE path_nodes = <<>>
    BY <1>1, <2>1, EmptySeq
  <2>2. CASE path_nodes # <<>>
    <3>1. /\ P >= 1 /\ Len(path_nodes') = P - 1
          /\ \A k \in 1..P - 1 : path_nodes'[k] = path_nodes[k]
      BY <1>1, <2>2, PopProperties, NonEmptySeq
    <3>2. QED
      BY <1>2, <3>1
  <2>3. QED
    BY <2>1, <2>2
<1> HIDE DEF F, P
<1>8. PathFollowsStack'
  <2>1. CASE F = 1
    <3>1. frames' = <<>> /\ path_nodes' = <<>>
      <4>1. Len(frames') = 0 /\ frames' \in Seq(Frame)
        BY <1>1, <1>2, <2>1
      <4>2. path_nodes' = <<>>
        BY <1>1, <1>2, <1>3, <2>1, NonEmptySeq DEF P
      <4>3. QED
        BY <4>1, <4>2, EmptySeq
    <3>2. source \in visited
      BY <1>3, <1>5, <2>1 DEF Top, F
    <3>3. QED
      BY <1>1, <3>1, <3>2 DEF PathFollowsStack
  <2>2. CASE F # 1
    <3>1. Len(frames') = F - 1 /\ F - 1 >= 1 /\ frames' # <<>> /\ Len(path_nodes') = F - 2
      BY <1>1, <1>2, <1>3, <1>7, <2>2, EmptySeq
    <3>2. frames'[1].node = source
      BY <1>1, <1>2, <1>3, <3>1
    <3>3. \A k \in 1..Len(path_nodes') : path_nodes'[k] = frames'[k + 1].node
      <4> SUFFICES ASSUME NEW k \in 1..Len(path_nodes')
                   PROVE  path_nodes'[k] = frames'[k + 1].node
        OBVIOUS
      <4>1. k \in 1..P /\ k + 1 \in 1..F - 1
        BY <1>2, <1>3, <1>7, <3>1
      <4>2. QED
        BY <1>1, <1>2, <1>3, <1>7, <4>1
    <3>4. QED
      BY <1>1, <1>2, <3>1, <3>2, <3>3 DEF PathFollowsStack
  <2>3. QED
    BY <2>1, <2>2
<1>9. MarkedOnEntry'
  <2>1. \A k \in 1..F - 1 : /\ k \in 1..F /\ k # F
                            /\ frames'[k] = frames[k]
    BY <1>1, <1>2
  <2>2. QED
    BY <1>1, <1>2, <2>1 DEF SearchInvariant, MarkedOnEntry, F
<1>10. PathIsDeclared'
  <2> SUFFICES ASSUME NEW k \in 1..Len(path_nodes')
               PROVE  Declared(catalog, IF k = 1 THEN source ELSE path_nodes'[k - 1], path_nodes'[k])
    BY <1>1 DEF PathIsDeclared, Declared
  <2>1. k \in 1..P /\ path_nodes'[k] = path_nodes[k]
    BY <1>7
  <2>2. k # 1 => path_nodes'[k - 1] = path_nodes[k - 1]
    <3>1. k # 1 => k - 1 \in 1..Len(path_nodes')
      BY <1>2, <1>7
    <3>2. QED
      BY <1>7, <3>1
  <2>3. QED
    BY <2>1, <2>2 DEF SearchInvariant, PathIsDeclared, P
<1>11. PathVisitsOnce'
  BY <1>1, <1>7 DEF SearchInvariant, PathVisitsOnce, P
<1>12. PassedEdgesVisited'
  <2> SUFFICES ASSUME NEW k \in 1..F - 1, NEW i \in DOMAIN catalog.rules,
                      i < frames'[k].next, Edge(i).kind = "migration",
                      Edge(i).from = frames'[k].node
               PROVE  Edge(i).to \in visited
    BY <1>1, <1>2 DEF PassedEdgesVisited, Edge
  <2>1. k \in 1..F /\ frames'[k] = frames[k]
    BY <1>1, <1>2
  <2>2. Edge(i).to \in visited \cup {Top.node}
    BY <1>1, <2>1 DEF SearchInvariant, PassedEdgesVisited, F
  <2>3. QED
    BY <1>5, <2>2
<1>13. ReturnedNodesClosed'
  <2> SUFFICES ASSUME NEW v \in visited
               PROVE  \/ \E k \in 1..F - 1 : frames'[k].node = v
                      \/ \A i \in DOMAIN catalog.rules :
                           Edge(i).kind = "migration" /\ Edge(i).from = v
                             => Edge(i).to \in visited
    BY <1>1, <1>2 DEF ReturnedNodesClosed, Edge
  <2>1. CASE \E k \in 1..F : frames[k].node = v
    <3>1. PICK k \in 1..F : frames[k].node = v
      BY <2>1
    <3>2. CASE k = F
      BY <1>6, <3>1, <3>2 DEF Top, F
    <3>3. CASE k # F
      <4>1. k \in 1..F - 1
        BY <1>2, <3>3
      <4>2. QED
        BY <1>1, <1>2, <3>1, <4>1
    <3>4. QED
      BY <3>2, <3>3
  <2>2. CASE ~ \E k \in 1..F : frames[k].node = v
    BY <1>1, <2>2 DEF SearchInvariant, ReturnedNodesClosed, F
  <2>3. QED
    BY <2>1, <2>2
<1>14. QED
  BY <1>1, <1>8, <1>9, <1>10, <1>11, <1>12, <1>13
  DEF SearchInvariant, LocalsFresh, GatesPassed, PathReachesTarget, AnswerOnlyWhenDone

LEMMA UnwindStep ==
  ASSUME SInv, Unwind
  PROVE  SearchInvariant'
  BY DEF SInv, TypeOK, Unwind, Searching, question, SearchInvariant, LocalsFresh, GatesPassed,
         PathFollowsStack, MarkedOnEntry, PathIsDeclared, PathVisitsOnce, PathReachesTarget,
         PassedEdgesVisited, ReturnedNodesClosed, AnswerOnlyWhenDone, Declared

\* An answer ends the search and leaves its locals as they are.
LEMMA ReturnStep ==
  ASSUME SInv, NEW p, p.answered, Return(p)
  PROVE  SearchInvariant'
  BY DEF SInv, TypeOK, Return, question, locals, SearchInvariant, LocalsFresh, GatesPassed,
         PathFollowsStack, MarkedOnEntry, PathIsDeclared, PathVisitsOnce, PathReachesTarget,
         PassedEdgesVisited, ReturnedNodesClosed, AnswerOnlyWhenDone, Declared

\* The invariant of the depth-first search in plan_migration: path_nodes is the
\* call stack, a chain of declared migrations that visits nothing twice, and
\* whatever a returned activation could reach in one step has been visited.
THEOREM SearchInvariantHolds == Spec => []SearchInvariant
<1>1. Init => SearchInvariant
  BY EmptySeq
  DEF Init, SearchInvariant, LocalsFresh, GatesPassed, PathFollowsStack, MarkedOnEntry,
      PathIsDeclared, PathVisitsOnce, PathReachesTarget, PassedEdgesVisited,
      ReturnedNodesClosed, AnswerOnlyWhenDone
<1>2. TypeOK /\ SearchInvariant /\ [Next]_vars => SearchInvariant'
  <2> SUFFICES ASSUME SInv, [Next]_vars PROVE SearchInvariant'
    BY DEF SInv
  <2>1. CASE RefuseInvalidCatalog
    BY <2>1, ReturnStep DEF RefuseInvalidCatalog, Refused
  <2>2. CASE NothingToMigrate
    BY <2>2, ReturnStep DEF NothingToMigrate, Planned
  <2>3. CASE RefuseUnregistered
    BY <2>3, ReturnStep DEF RefuseUnregistered, Refused
  <2>4. CASE BeginSearch
    BY <2>4, BeginSearchStep
  <2>5. CASE ReachTarget
    BY <2>5, ReachTargetStep
  <2>6. CASE Visit
    BY <2>6, VisitStep
  <2>7. CASE SkipEdge
    BY <2>7, SkipEdgeStep
  <2>8. CASE Descend
    BY <2>8, DescendStep
  <2>9. CASE Backtrack
    BY <2>9, BacktrackStep
  <2>10. CASE Unwind
    BY <2>10, UnwindStep
  <2>11. CASE AnswerFound
    BY <2>11, ReturnStep DEF AnswerFound, Planned
  <2>12. CASE AnswerMissing
    BY <2>12, ReturnStep DEF AnswerMissing, Refused
  <2>13. CASE UNCHANGED vars
    BY <2>13
    DEF vars, question, locals, SInv, SearchInvariant, LocalsFresh, GatesPassed,
        PathFollowsStack, MarkedOnEntry, PathIsDeclared, PathVisitsOnce, PathReachesTarget,
        PassedEdgesVisited, ReturnedNodesClosed, AnswerOnlyWhenDone, Declared, Top, Edge
  <2>14. QED
    BY <2>1, <2>2, <2>3, <2>4, <2>5, <2>6, <2>7, <2>8, <2>9, <2>10, <2>11, <2>12, <2>13
    DEF Next
<1>3. QED
  BY <1>1, <1>2, TypeCorrect, PTL DEF Spec

-----------------------------------------------------------------------------
(***************************************************************************)
(* Completeness: giving up means that there is nothing to be found.        *)
(***************************************************************************)
\* When the search ends without the target, the visited documents are closed
\* under declared migrations and contain the source but not the target.
LEMMA GaveUpClosed ==
  ASSUME SInv, pc = "search", frames = <<>>, ~found
  PROVE  /\ ClosedUnderMigration(catalog, visited)
         /\ source \in visited /\ target \notin visited
<1>1. source \in visited /\ target \notin visited
  BY DEF SInv, SearchInvariant, PathFollowsStack, MarkedOnEntry
<1>2. Len(frames) = 0
  BY EmptySeq
<1>3. ASSUME NEW d \in visited, NEW e \in DocumentId, Declared(catalog, d, e)
      PROVE  e \in visited
  <2>1. PICK i \in DOMAIN catalog.rules : Edge(i) = [from |-> d, to |-> e, kind |-> "migration"]
    BY <1>3 DEF Declared, Edge
  <2>2. \A k \in 1..Len(frames) : FALSE
    BY <1>2
  <2>3. \A j \in DOMAIN catalog.rules :
          Edge(j).kind = "migration" /\ Edge(j).from = d => Edge(j).to \in visited
    BY <2>2 DEF SInv, SearchInvariant, ReturnedNodesClosed
  <2>4. QED
    BY <2>1, <2>3
<1>4. QED
  BY <1>1, <1>3 DEF ClosedUnderMigration

\* plan_migration gives up only when the visited set is closed: pruning by
\* visited has lost no path, on any rule graph.
THEOREM GivesUpOnlyWhenClosedHolds == Spec => []GivesUpOnlyWhenClosed
<1>1. TypeOK /\ SearchInvariant => GivesUpOnlyWhenClosed
  BY GaveUpClosed DEF SInv, GivesUpOnlyWhenClosed
<1>2. QED
  BY <1>1, TypeCorrect, SearchInvariantHolds, PTL

-----------------------------------------------------------------------------
(***************************************************************************)
(* Every answer keeps the promise.                                         *)
(***************************************************************************)
\* No gate uses the code of a failed search.
LEMMA GateCodes ==
  /\ \A c : "missing-migration-edge" \notin Codes(ValidateCatalog(c))
  /\ \A c : ~Valid(c) => Codes(ValidateCatalog(c)) # {}
  /\ "missing-migration-edge" \notin Unregistered
<1>1. ASSUME NEW c, NEW d \in ValidateCatalog(c)
      PROVE  d.code # "missing-migration-edge"
  <2>1. d \in DuplicateDiagnostics(c.entries) => d.code # "missing-migration-edge"
    BY DEF DuplicateDiagnostics, Diagnostic
  <2>2. d \in EntryDiagnostics(c.entries) => d.code # "missing-migration-edge"
    BY DEF EntryDiagnostics, Diagnostic
  <2>3. d \in RuleDiagnostics(c.entries, c.rules) => d.code # "missing-migration-edge"
    BY DEF RuleDiagnostics, Diagnostic
  <2>4. QED
    BY <2>1, <2>2, <2>3 DEF ValidateCatalog
<1>2. \A c : "missing-migration-edge" \notin Codes(ValidateCatalog(c))
  BY <1>1 DEF Codes
<1>3. \A c : ~Valid(c) => Codes(ValidateCatalog(c)) # {}
  BY DEF Valid, Codes
<1>4. \A d : LookupCode(d) # "missing-migration-edge"
  BY DEF LookupCode, LookupSchema, Found, NotFound
<1>5. QED
  BY <1>2, <1>3, <1>4 DEF Unregistered

\* The steps built from path_nodes are a chain of declared migrations from
\* source to target that visits no document twice.
LEMMA StepsAreChain ==
  ASSUME SInv, found
  PROVE  /\ Steps # <<>>
         /\ IsMigrationChain(catalog, source, target, Steps)
         /\ VisitsOnce(source, Steps)
<1> USE DEF SInv, TypeOK
<1> DEFINE P == Len(path_nodes)
<1>1. path_nodes # <<>> /\ path_nodes[P] = target
  BY DEF SearchInvariant, PathReachesTarget
<1>2. P \in Nat /\ P >= 1
  BY <1>1, NonEmptySeq
<1>3. Steps = [k \in 1..P |-> [from |-> IF k = 1 THEN source ELSE path_nodes[k - 1],
                               to |-> path_nodes[k]]]
  BY DEF Steps
<1>4. PathIsDeclared /\ PathVisitsOnce
  BY DEF SearchInvariant
<1>5. /\ \A k \in 1..P : Declared(catalog, IF k = 1 THEN source ELSE path_nodes[k - 1], path_nodes[k])
      /\ \A j, k \in 1..P : path_nodes[k] # source /\ (j # k => path_nodes[j] # path_nodes[k])
  BY <1>4 DEF PathIsDeclared, PathVisitsOnce
<1> HIDE DEF P
<1>6. /\ \A k \in 1..P : /\ Steps[k].from = IF k = 1 THEN source ELSE path_nodes[k - 1]
                         /\ Steps[k].to = path_nodes[k]
      /\ Len(Steps) = P /\ Steps # <<>>
  <2>1. DOMAIN Steps = 1..P
    BY <1>3
  <2>2. Len(Steps) = P
    BY <1>2, <2>1
  <2>3. Steps # <<>>
    BY <1>2, <2>2, EmptySeq
  <2>4. QED
    BY <1>3, <2>2, <2>3
<1>7. IsMigrationChain(catalog, source, target, Steps)
  <2>1. 1 \in 1..P /\ P \in 1..P
    BY <1>2
  <2>2. Steps[1].from = source /\ Steps[Len(Steps)].to = target
    BY <1>1, <1>6, <2>1 DEF P
  <2>3. \A k \in 1..P : Declared(catalog, Steps[k].from, Steps[k].to)
    BY <1>5, <1>6
  <2>4. ASSUME NEW k \in 1..P - 1 PROVE Steps[k].to = Steps[k + 1].from
    <3>1. k \in 1..P /\ k + 1 \in 1..P /\ k + 1 # 1 /\ k + 1 - 1 = k
      BY <1>2
    <3>2. QED
      BY <1>6, <3>1
  <2>5. QED
    BY <1>6, <2>2, <2>3, <2>4 DEF IsMigrationChain
<1>8. VisitsOnce(source, Steps)
  BY <1>5, <1>6 DEF VisitsOnce
<1>9. QED
  BY <1>6, <1>7, <1>8

\* The answer given in a step keeps the promise about the question.
LEMMA AnswerStep ==
  ASSUME SInv, [Next]_vars, ~plan.answered, plan'.answered
  PROVE  /\ Promise(catalog, source, target, plan')
         /\ UNCHANGED question
<1>1. plan = Pending /\ pc # "done"
  BY DEF SInv, SearchInvariant, AnswerOnlyWhenDone
<1>2. CASE RefuseInvalidCatalog
  BY <1>2, GateCodes DEF RefuseInvalidCatalog, Return, Refused, Promise
<1>3. CASE NothingToMigrate
  BY <1>3 DEF NothingToMigrate, Return, Planned, Promise
<1>4. CASE RefuseUnregistered
  BY <1>4, GateCodes DEF RefuseUnregistered, Return, Refused, Promise
<1>5. CASE AnswerFound
  <2>1. IsMigrationChain(catalog, source, target, Steps) /\ VisitsOnce(source, Steps) /\ Steps # <<>>
    BY <1>5, StepsAreChain DEF AnswerFound
  <2>2. Valid(catalog) /\ Registers(catalog, source) /\ Registers(catalog, target)
    BY <1>5 DEF AnswerFound, SInv, SearchInvariant, GatesPassed
  <2>3. QED
    BY <1>5, <2>1, <2>2 DEF AnswerFound, Return, Planned, Promise
<1>6. CASE AnswerMissing
  <2>1. /\ ClosedUnderMigration(catalog, visited)
        /\ source \in visited /\ target \notin visited
    BY <1>6, GaveUpClosed DEF AnswerMissing
  <2>2. visited \in SUBSET DocumentId
    BY DEF SInv, TypeOK
  <2>3. ~Reachable(catalog, source, target)
    BY <2>1, <2>2 DEF Reachable
  <2>4. plan' = Refused({"missing-migration-edge"}) /\ UNCHANGED question
    BY <1>6 DEF AnswerMissing, Return
  <2>5. QED
    BY <2>3, <2>4 DEF Refused, Promise
<1>7. CASE UNCHANGED plan
  BY <1>7
<1>8. \/ RefuseInvalidCatalog \/ NothingToMigrate \/ RefuseUnregistered
      \/ AnswerFound \/ AnswerMissing \/ UNCHANGED plan
  BY DEF Next, vars, BeginSearch, ReachTarget, Visit, SkipEdge, Descend, Backtrack, Unwind
<1>9. QED
  BY <1>2, <1>3, <1>4, <1>5, <1>6, <1>7, <1>8

\* Once given, an answer and its question do not change.
LEMMA AnsweredStable ==
  ASSUME SInv, [Next]_vars, plan.answered
  PROVE  UNCHANGED <<question, plan>>
<1>1. pc = "done"
  BY DEF SInv, SearchInvariant, AnswerOnlyWhenDone, Pending
<1>2. QED
  BY <1>1 DEF Next, vars, RefuseInvalidCatalog, NothingToMigrate, RefuseUnregistered,
     BeginSearch, ReachTarget, Visit, SkipEdge, Descend, Backtrack, Unwind,
     AnswerFound, AnswerMissing, Searching

\* No step changes the question.
LEMMA QuestionStable ==
  ASSUME [Next]_vars
  PROVE  UNCHANGED question
  BY DEF Next, vars, RefuseInvalidCatalog, NothingToMigrate, RefuseUnregistered,
     BeginSearch, ReachTarget, Visit, SkipEdge, Descend, Backtrack, Unwind,
     AnswerFound, AnswerMissing, Return

\* Soundness and completeness of plan_migration: steps are a simple chain of
\* declared migration edges between registered documents of a valid catalog,
\* and missing-migration-edge is reported only if no chain of any length exists.
THEOREM AnswerKeepsPromiseHolds == Spec => []AnswerKeepsPromise
<1>1. Init => AnswerKeepsPromise
  BY DEF Init, AnswerKeepsPromise, Pending
<1>2. TypeOK /\ SearchInvariant /\ AnswerKeepsPromise /\ [Next]_vars => AnswerKeepsPromise'
  <2> SUFFICES ASSUME SInv, AnswerKeepsPromise, [Next]_vars PROVE AnswerKeepsPromise'
    BY DEF SInv
  <2>1. CASE plan.answered
    BY <2>1, AnsweredStable DEF AnswerKeepsPromise, question
  <2>2. CASE ~plan.answered
    BY <2>2, AnswerStep DEF AnswerKeepsPromise, question
  <2>3. QED
    BY <2>1, <2>2
<1>3. QED
  BY <1>1, <1>2, TypeCorrect, SearchInvariantHolds, PTL DEF Spec

-----------------------------------------------------------------------------
(***************************************************************************)
(* The compatibility query and the planner agree.                          *)
(***************************************************************************)
\* The first of a non-empty set of positions.
LEMMA FirstPosition ==
  ASSUME NEW M \in SUBSET Nat, M # {}
  PROVE  \E i \in M : \A j \in M : i <= j
<1>1. PICK i \in M : \A j \in M : ~(<<j, i>> \in OpToRel(<, Nat))
  BY WFMin, NatLessThanWellFounded, Zenon
<1>2. ASSUME NEW j \in M PROVE i <= j
  <2>1. ~(j < i)
    BY <1>1 DEF OpToRel
  <2>2. QED
    BY <2>1
<1>3. QED
  BY <1>2

\* schema_compatibility says requires-migration only of two registered documents
\* of a valid catalog between which a migration rule is declared.
LEMMA RequiresMigrationIsDeclared ==
  ASSUME TypeOK, source.id = target.id,
         SchemaCompatibility(catalog, source.id, source.ver, target.ver).value
           = "requires-migration"
  PROVE  /\ Valid(catalog) /\ source # target
         /\ Registers(catalog, source) /\ Registers(catalog, target)
         /\ Declared(catalog, source, target)
<1> DEFINE id == source.id
           f == LookupSchema(catalog.entries, id, source.ver)
           t == LookupSchema(catalog.entries, id, target.ver)
           M == {i \in DOMAIN catalog.rules :
                   /\ catalog.rules[i].from = [id |-> id, ver |-> source.ver]
                   /\ catalog.rules[i].to   = [id |-> id, ver |-> target.ver]}
           i == CHOOSE k \in M : \A j \in M : k <= j
<1>1. /\ source = [id |-> id, ver |-> source.ver]
      /\ target = [id |-> id, ver |-> target.ver]
  BY DEF TypeOK, DocumentId
<1>2. SchemaCompatibility(catalog, id, source.ver, target.ver) =
        IF ~Valid(catalog) THEN Answer("unsupported", Codes(ValidateCatalog(catalog)))
        ELSE IF ~f.found \/ ~t.found
             THEN Answer("unsupported", {f.code, t.code} \ {"none"})
        ELSE IF source.ver = target.ver THEN Answer("exact", {})
        ELSE IF M = {} THEN Answer("unsupported", {"unsupported-direction"})
        ELSE IF catalog.rules[i].kind = "readable" THEN Answer("readable", {})
             ELSE Answer("requires-migration", {})
  BY DEF SchemaCompatibility
<1> HIDE DEF id, f, t, M, i
<1>3. SchemaCompatibility(catalog, id, source.ver, target.ver).value = "requires-migration"
  BY DEF id
<1>4. /\ Valid(catalog) /\ f.found /\ t.found /\ source.ver # target.ver
      /\ M # {} /\ catalog.rules[i].kind # "readable"
  BY <1>2, <1>3 DEF Answer
<1>5. Registers(catalog, source) /\ Registers(catalog, target)
  BY <1>4 DEF Registers, f, t, id
<1>6. i \in M
  <2>1. M \in SUBSET Nat
    BY RuleTypes DEF M, TypeOK
  <2>2. \E k \in M : \A j \in M : k <= j
    BY <1>4, <2>1, FirstPosition
  <2>3. QED
    BY <2>2 DEF i
<1>7. Declared(catalog, source, target)
  <2>1. /\ i \in DOMAIN catalog.rules
        /\ catalog.rules[i].from = source /\ catalog.rules[i].to = target
    BY <1>1, <1>6 DEF M
  <2>2. catalog.rules[i] \in Rule
    BY <2>1, RuleTypes DEF TypeOK, Edge
  <2>3. catalog.rules[i] = [from |-> source, to |-> target, kind |-> "migration"]
    BY <1>4, <2>1, <2>2 DEF Rule, Kinds
  <2>4. QED
    BY <2>1, <2>3 DEF Declared
<1>8. QED
  BY <1>4, <1>5, <1>7

\* Why an answer has no steps.
NoPlanReason ==
  \/ ~Valid(catalog)
  \/ source = target
  \/ ~Registers(catalog, source) \/ ~Registers(catalog, target)
  \/ ~Reachable(catalog, source, target)

\* plan_migration returns without steps for no other reason than a gate that
\* refused or target that no chain of migrations reaches.
LEMMA NoPlanStep ==
  ASSUME SInv, [Next]_vars, ~plan.answered, plan'.answered, plan'.steps = <<>>
  PROVE  NoPlanReason
<1>1. CASE RefuseInvalidCatalog
  BY <1>1 DEF RefuseInvalidCatalog, NoPlanReason
<1>2. CASE NothingToMigrate
  BY <1>2 DEF NothingToMigrate, NoPlanReason
<1>3. CASE RefuseUnregistered
  <2>1. LookupCode(source) # "none" \/ LookupCode(target) # "none"
    BY <1>3 DEF RefuseUnregistered, Unregistered
  <2>2. \A d : Registers(catalog, d) => LookupCode(d) = "none"
    BY DEF LookupCode, Registers, LookupSchema, Found, NotFound
  <2>3. QED
    BY <2>1, <2>2 DEF NoPlanReason
<1>4. CASE AnswerFound
  BY <1>4, StepsAreChain DEF AnswerFound, Return, Planned
<1>5. CASE AnswerMissing
  <2>1. /\ ClosedUnderMigration(catalog, visited)
        /\ source \in visited /\ target \notin visited
    BY <1>5, GaveUpClosed DEF AnswerMissing
  <2>2. visited \in SUBSET DocumentId
    BY DEF SInv, TypeOK
  <2>3. QED
    BY <2>1, <2>2 DEF Reachable, NoPlanReason
<1>6. \/ RefuseInvalidCatalog \/ NothingToMigrate \/ RefuseUnregistered
      \/ AnswerFound \/ AnswerMissing \/ UNCHANGED plan
  BY DEF Next, vars, BeginSearch, ReachTarget, Visit, SkipEdge, Descend, Backtrack, Unwind
<1>7. QED
  BY <1>1, <1>2, <1>3, <1>4, <1>5, <1>6

\* Whatever pair schema_compatibility answers with requires-migration,
\* plan_migration finds steps for: the first rule of the query is an edge of the
\* search, and a search that gives up has visited all that edges lead to.
THEOREM RequiresMigrationIsPlannableHolds == Spec => []RequiresMigrationIsPlannable
<1> DEFINE Explained == plan.answered /\ plan.steps = <<>> => NoPlanReason
<1>1. Init => Explained
  BY DEF Init, Pending
<1>2. TypeOK /\ SearchInvariant /\ Explained /\ [Next]_vars => Explained'
  <2> SUFFICES ASSUME SInv, Explained, [Next]_vars PROVE Explained'
    BY DEF SInv
  <2>1. UNCHANGED question
    BY QuestionStable
  <2>2. NoPlanReason => NoPlanReason'
    BY <2>1 DEF NoPlanReason, question
  <2>3. CASE plan.answered
    BY <2>2, <2>3, AnsweredStable
  <2>4. CASE ~plan.answered
    BY <2>2, <2>4, NoPlanStep
  <2>5. QED
    BY <2>3, <2>4
<1>3. TypeOK /\ Explained => RequiresMigrationIsPlannable
  <2> SUFFICES ASSUME TypeOK, Explained, plan.answered, source.id = target.id,
                      SchemaCompatibility(catalog, source.id, source.ver, target.ver).value
                        = "requires-migration"
               PROVE  plan.steps # <<>>
    BY DEF RequiresMigrationIsPlannable
  <2>1. /\ Valid(catalog) /\ source # target
        /\ Registers(catalog, source) /\ Registers(catalog, target)
        /\ Declared(catalog, source, target)
    BY RequiresMigrationIsDeclared
  <2>2. Reachable(catalog, source, target)
    BY <2>1 DEF Reachable, ClosedUnderMigration, TypeOK
  <2>3. ~NoPlanReason
    BY <2>1, <2>2 DEF NoPlanReason
  <2>4. QED
    BY <2>3
<1> HIDE DEF Explained
<1>4. QED
  BY <1>1, <1>2, <1>3, TypeCorrect, SearchInvariantHolds, PTL DEF Spec

-----------------------------------------------------------------------------
(***************************************************************************)
(* The first path found is the first in rule order.                        *)
(***************************************************************************)
\* A chain of n steps, spelled out.
ChainOfLength(c, s, t, q, n) ==
  /\ n >= 1 /\ Len(q) = n /\ DOMAIN q = 1..n
  /\ q = [k \in 1..n |-> q[k]]
  /\ \A k \in 1..n : q[k] = [from |-> q[k].from, to |-> q[k].to]
  /\ q[1].from = s /\ q[n].to = t
  /\ \A k \in 1..n : q[k].to \in DocumentId /\ Declared(c, q[k].from, q[k].to)
  /\ \A k \in 1..n - 1 : q[k].to = q[k + 1].from
  /\ \A j, k \in 1..n : q[k].to # s /\ (j # k => q[j].to # q[k].to)

\* A chain of the order's domain, as a sequence of steps.
LEMMA SimpleChainShape ==
  ASSUME NEW c, NEW s, NEW t, NEW q \in SimpleChains(c, s, t)
  PROVE  \E n \in Nat : ChainOfLength(c, s, t, q, n)
<1> DEFINE X == Cardinality(DocumentId) - 1
           Walk(nodes) == [k \in DOMAIN nodes |->
                             [from |-> IF k = 1 THEN s ELSE nodes[k - 1], to |-> nodes[k]]]
<1>1. /\ q \in {Walk(nodes) : nodes \in UNION {[1..n -> DocumentId] : n \in 1..X}}
      /\ IsMigrationChain(c, s, t, q) /\ VisitsOnce(s, q)
  BY DEF SimpleChains
<1>2. PICK n \in 1..X : \E nodes \in [1..n -> DocumentId] : q = Walk(nodes)
  BY <1>1
<1>3. n \in Nat /\ n >= 1
  BY <1>2
<1>4. /\ DOMAIN q = 1..n /\ q = [k \in 1..n |-> q[k]]
      /\ \A k \in 1..n : q[k] = [from |-> q[k].from, to |-> q[k].to] /\ q[k].to \in DocumentId
  BY <1>2
<1>5. Len(q) = n
  BY <1>3, <1>4
<1> HIDE DEF X, Walk
<1>6. QED
  BY <1>1, <1>3, <1>4, <1>5 DEF ChainOfLength, IsMigrationChain, VisitsOnce

\* In a valid catalog no two positions hold the same rule, so the position of a
\* declared step is the only one.
LEMMA RulePositionUnique ==
  ASSUME catalog \in Catalog, Valid(catalog), NEW i \in DOMAIN catalog.rules, NEW step,
         Edge(i) = [from |-> step.from, to |-> step.to, kind |-> "migration"]
  PROVE  RulePosition(catalog, step) = i
<1> DEFINE rs == catalog.rules
<1>1. \A p \in Pairs(rs) : rs[p[1]] # rs[p[2]]
  <2>1. ValidateCatalog(catalog) = {}
    BY DEF Valid
  <2>2. RuleDiagnostics(catalog.entries, rs) = {}
    BY <2>1 DEF ValidateCatalog
  <2>3. {Diagnostic("duplicate-rule", p) : p \in {q \in Pairs(rs) : rs[q[1]] = rs[q[2]]}} = {}
    BY <2>2 DEF RuleDiagnostics
  <2>4. QED
    BY <2>3
<1>2. \A j \in DOMAIN rs : j \in Nat
  BY RuleTypes
<1>3. \A j, k \in DOMAIN rs : j < k => rs[j] # rs[k]
  <2> SUFFICES ASSUME NEW j \in DOMAIN rs, NEW k \in DOMAIN rs, j < k PROVE rs[j] # rs[k]
    OBVIOUS
  <2>1. <<j, k>> \in Pairs(rs)
    BY DEF Pairs
  <2>2. QED
    BY <1>1, <2>1
<1>4. \A j, k \in DOMAIN rs : rs[j] = rs[k] => j = k
  BY <1>2, <1>3
<1> DEFINE Holds(j) == rs[j] = [from |-> step.from, to |-> step.to, kind |-> "migration"]
<1>5. Holds(i)
  BY DEF Edge
<1>6. \A j \in DOMAIN rs : Holds(j) => j = i
  BY <1>4, <1>5
<1>7. RulePosition(catalog, step) = CHOOSE j \in DOMAIN rs : Holds(j)
  BY DEF RulePosition
<1> HIDE DEF Holds
<1>8. QED
  BY <1>5, <1>6, <1>7

\* A simple chain that steps off the stack of its own first k nodes into a dead
\* end never comes back to the target.
LEMMA DeadEndIsFinal ==
  ASSUME SInv, pc = "search", ~found, NEW q, NEW n \in Nat, NEW k \in 1..n,
         DeadEnd(q[k].to, k),
         q[n].to = target,
         \A j \in 1..n : q[j].to \in DocumentId /\ Declared(catalog, q[j].from, q[j].to),
         \A j \in 1..n - 1 : q[j].to = q[j + 1].from,
         \A j \in 1..n : k <= j => q[j].to \notin StackNodes(k)
  PROVE  FALSE
<1>1. PICK S \in SUBSET visited : q[k].to \in S /\ ClosedBesideStack(S, k)
  BY DEF DeadEnd
<1>2. target \notin S
  BY DEF SInv, SearchInvariant, MarkedOnEntry
<1> DEFINE M == {j \in 1..n : k <= j /\ q[j].to \notin S}
<1>3. M \in SUBSET Nat /\ n \in M
  BY <1>2
<1>4. PICK m \in M : \A j \in M : m <= j
  BY <1>3, FirstPosition
<1>5. m \in 1..n /\ k <= m /\ m # k /\ q[m].to \notin S
  BY <1>1, <1>4
<1>6. m - 1 \in 1..n - 1 /\ m - 1 \in 1..n /\ k <= m - 1 /\ (m - 1) + 1 = m /\ ~(m <= m - 1)
  BY <1>5
<1>7. q[m - 1].to \in S
  <2>1. m - 1 \notin M
    BY <1>4, <1>6
  <2>2. QED
    BY <1>6, <2>1
<1>8. q[m].from = q[m - 1].to /\ Declared(catalog, q[m].from, q[m].to) /\ q[m].to \in DocumentId
  BY <1>5, <1>6
<1>9. q[m].to \in S \cup StackNodes(k)
  BY <1>1, <1>7, <1>8 DEF ClosedBesideStack
<1>10. QED
  BY <1>5, <1>9

\* The order invariant, action by action.
OInv == SInv /\ OrderInvariant

\* Dead ends stay dead ends when more is visited and the stack only grows.
LEMMA DeadEndStays ==
  ASSUME catalog' = catalog, visited \subseteq visited', NEW m, NEW n,
         StackNodes(m) \subseteq StackNodes(n)', NEW d, DeadEnd(d, m)
  PROVE  DeadEnd(d, n)'
<1>1. PICK S \in SUBSET visited : d \in S /\ ClosedBesideStack(S, m)
  BY DEF DeadEnd
<1>2. ClosedBesideStack(S, n)'
  BY <1>1 DEF ClosedBesideStack
<1>3. QED
  BY <1>1, <1>2 DEF DeadEnd

LEMMA ReachTargetOrder ==
  ASSUME OInv, ReachTarget
  PROVE  OrderInvariant'
<1> USE DEF OInv, SInv, TypeOK
<1> DEFINE F == Len(frames)
           P == Len(path_nodes)
<1>1. /\ pc = "search" /\ frames # <<>> /\ ~found /\ found'
      /\ UNCHANGED <<catalog, source, target, visited, path_nodes>>
      /\ SearchInvariant'
  BY ReachTargetStep DEF ReachTarget, Searching, question
<1>2. /\ P \in Nat /\ P >= 1 /\ F \in Nat /\ P = F - 1 /\ frames[1].node = source
      /\ \A k \in 1..P : path_nodes[k] = frames[k + 1].node
      /\ path_nodes[P] = target
  <2>1. path_nodes' # <<>> /\ path_nodes'[Len(path_nodes')] = target'
    BY <1>1 DEF SearchInvariant, PathReachesTarget
  <2>2. P \in Nat /\ P >= 1
    BY <1>1, <2>1, NonEmptySeq
  <2>3. QED
    BY <1>1, <2>1, <2>2, LenProperties DEF SearchInvariant, PathFollowsStack
<1>3. /\ DOMAIN Steps = 1..P
      /\ Steps = [k \in 1..P |-> Steps[k]]
      /\ \A k \in 1..P : /\ Steps[k] = [from |-> frames[k].node, to |-> frames[k + 1].node]
                         /\ Steps[k].to = path_nodes[k]
                         /\ Steps[k].from = IF k = 1 THEN source ELSE path_nodes[k - 1]
  <2>1. /\ DOMAIN Steps = 1..P
        /\ Steps = [k \in 1..P |-> Steps[k]]
        /\ \A k \in 1..P : Steps[k] = [from |-> IF k = 1 THEN source ELSE path_nodes[k - 1],
                                       to |-> path_nodes[k]]
    BY DEF Steps
  <2>2. \A k \in 1..P : frames[k].node = IF k = 1 THEN source ELSE path_nodes[k - 1]
    <3> SUFFICES ASSUME NEW k \in 1..P, k # 1 PROVE frames[k].node = path_nodes[k - 1]
      BY <1>2
    <3>1. k - 1 \in 1..P /\ (k - 1) + 1 = k
      BY <1>2
    <3>2. QED
      BY <1>2, <3>1
  <2> HIDE DEF P
  <2>3. QED
    BY <1>2, <2>1, <2>2
<1>4. Valid(catalog)
  BY <1>1 DEF SearchInvariant, GatesPassed
<1> SUFFICES ASSUME NEW q \in SimpleChains(catalog, source, target), q # Steps
             PROVE  ChainBefore(catalog, Steps, q)
  <2>1. Steps' = Steps
    BY <1>1 DEF Steps
  <2>2. SimpleChains(catalog, source, target)' = SimpleChains(catalog, source, target)
    BY <1>1
  <2>3. \A x : ChainBefore(catalog, Steps, x)' <=> ChainBefore(catalog, Steps, x)
    BY <1>1, <2>1 DEF ChainBefore
  <2>4. FoundPathIsFirst'
    BY <2>1, <2>2, <2>3 DEF FoundPathIsFirst
  <2>5. QED
    BY <1>1, <2>4 DEF OrderInvariant, TakenEdges, PassedEdgesDead, ReturnedNodesDead
<1>5. PICK n \in Nat : ChainOfLength(catalog, source, target, q, n)
  BY SimpleChainShape
<1>6. /\ n >= 1 /\ Len(q) = n /\ DOMAIN q = 1..n
      /\ q = [k \in 1..n |-> q[k]]
      /\ \A k \in 1..n : q[k] = [from |-> q[k].from, to |-> q[k].to]
      /\ q[1].from = source /\ q[n].to = target
      /\ \A k \in 1..n : q[k].to \in DocumentId /\ Declared(catalog, q[k].from, q[k].to)
      /\ \A k \in 1..n - 1 : q[k].to = q[k + 1].from
      /\ \A j, k \in 1..n : q[k].to # source /\ (j # k => q[j].to # q[k].to)
  BY <1>5 DEF ChainOfLength
<1> HIDE DEF P, F
<1> DEFINE D == {k \in 1..P : k <= n /\ Steps[k] # q[k]}
<1>7. D # {}
  <2> SUFFICES ASSUME D = {} PROVE FALSE
    OBVIOUS
  <2>1. \A k \in 1..P : k <= n => Steps[k] = q[k]
    OBVIOUS
  <2>2. CASE P = n
    BY <1>3, <1>6, <2>1, <2>2
  <2>3. CASE P < n
    <3>1. P \in 1..P /\ P \in 1..n /\ n \in 1..n /\ P <= n
      BY <1>2, <1>6, <2>3
    <3>2. q[P].to = target /\ q[n].to = target
      BY <1>2, <1>3, <1>6, <2>1, <3>1
    <3>3. QED
      BY <1>6, <2>3, <3>1, <3>2
  <2>4. CASE n < P
    <3>1. n \in 1..P /\ P \in 1..P
      BY <1>2, <1>6, <2>4
    <3>2. path_nodes[n] = target /\ path_nodes[P] = target
      BY <1>2, <1>3, <1>6, <2>1, <3>1
    <3>3. QED
      BY <2>4, <3>1, <3>2 DEF SearchInvariant, PathVisitsOnce, P
  <2>5. QED
    BY <1>2, <1>6, <2>2, <2>3, <2>4
<1>8. PICK k \in D : \A j \in D : k <= j
  <2>1. D \in SUBSET Nat
    OBVIOUS
  <2>2. QED
    BY <1>7, <2>1, FirstPosition
<1>9. /\ k \in 1..P /\ k \in 1..n /\ Steps[k] # q[k]
      /\ \A j \in 1..k - 1 : j \in 1..P /\ j \in 1..n /\ Steps[j] = q[j]
  <2>1. k \in 1..P /\ k \in 1..n /\ Steps[k] # q[k]
    BY <1>6, <1>8
  <2>2. ASSUME NEW j \in 1..k - 1 PROVE j \in 1..P /\ j \in 1..n /\ Steps[j] = q[j]
    <3>1. j \in 1..P /\ j \in 1..n /\ j <= n /\ ~(k <= j)
      BY <1>2, <1>6, <2>1
    <3>2. j \notin D
      BY <1>8, <3>1
    <3>3. QED
      BY <3>1, <3>2
  <2>3. QED
    BY <2>1, <2>2
<1> HIDE DEF D
<1>10. q[k].from = frames[k].node
  <2>1. Steps[k].from = frames[k].node
    BY <1>3, <1>9
  <2>2. CASE k = 1
    BY <1>3, <1>6, <1>9, <2>1, <2>2
  <2>3. CASE k # 1
    <3>1. k - 1 \in 1..k - 1 /\ k - 1 \in 1..n - 1 /\ (k - 1) + 1 = k /\ k - 1 \in 1..P
      BY <1>2, <1>6, <1>9, <2>3
    <3>2. q[k].from = q[k - 1].to
      BY <1>6, <3>1
    <3>3. q[k - 1].to = path_nodes[k - 1]
      BY <1>3, <1>9, <3>1
    <3>4. QED
      BY <1>3, <1>9, <2>1, <2>3, <3>2, <3>3
  <2>4. QED
    BY <2>2, <2>3
<1> DEFINE a == frames[k].next - 1
<1>11. /\ a \in DOMAIN catalog.rules
       /\ Edge(a) = [from |-> Steps[k].from, to |-> Steps[k].to, kind |-> "migration"]
  <2>1. k \in 1..F - 1 /\ Steps[k] = [from |-> frames[k].node, to |-> frames[k + 1].node]
    BY <1>2, <1>3, <1>9
  <2>2. QED
    BY <1>1, <2>1 DEF OrderInvariant, TakenEdges, F
<1>12. RulePosition(catalog, Steps[k]) = a
  BY <1>4, <1>11, RulePositionUnique
<1>13. PICK b \in DOMAIN catalog.rules :
         Edge(b) = [from |-> q[k].from, to |-> q[k].to, kind |-> "migration"]
  BY <1>6, <1>9 DEF Declared, Edge
<1>14. RulePosition(catalog, q[k]) = b
  BY <1>4, <1>13, RulePositionUnique
<1>15. a \in Nat /\ b \in Nat /\ frames[k] \in Frame
  <2>1. k \in 1..F
    BY <1>2, <1>9
  <2>2. frames[k] \in Frame
    BY <2>1, ElementOfSeq DEF F
  <2>3. QED
    BY <1>11, <1>13, <2>2, RuleTypes
<1>16. a # b
  BY <1>3, <1>6, <1>9, <1>11, <1>13
<1>17. ~(b < a)
  <2> SUFFICES ASSUME b < a PROVE FALSE
    OBVIOUS
  <2>1. frames[k].next \in Nat
    BY <1>15 DEF Frame
  <2>2. b < frames[k].next /\ b # frames[k].next - 1
    BY <1>15, <1>16, <2>1
  <2>3. k \in 1..F
    BY <1>2, <1>9
  <2>4. q[k].to \in StackNodes(k) \/ DeadEnd(q[k].to, k)
    BY <1>1, <1>10, <1>13, <2>2, <2>3 DEF OrderInvariant, PassedEdgesDead, F
  <2>5. ASSUME NEW j \in 1..n, k <= j PROVE q[j].to \notin StackNodes(k)
    <3> SUFFICES ASSUME NEW i \in 1..k, q[j].to = frames[i].node PROVE FALSE
      BY DEF StackNodes
    <3>1. CASE i = 1
      BY <1>2, <1>6, <3>1
    <3>2. CASE i # 1
      <4>1. /\ i - 1 \in 1..k - 1 /\ i - 1 \in 1..P /\ i - 1 \in 1..n /\ (i - 1) + 1 = i
            /\ i - 1 # j
        BY <1>9, <2>5, <3>2
      <4>2. q[i - 1].to = path_nodes[i - 1]
        BY <1>3, <1>9, <4>1
      <4>3. path_nodes[i - 1] = frames[i].node
        BY <1>2, <4>1
      <4>4. QED
        BY <1>6, <2>5, <4>1, <4>2, <4>3
    <3>3. QED
      BY <3>1, <3>2
  <2>6. DeadEnd(q[k].to, k)
    BY <1>9, <2>4, <2>5
  <2>7. QED
    BY <1>1, <1>6, <1>9, <2>5, <2>6, DeadEndIsFinal
<1>18. a < b
  BY <1>15, <1>16, <1>17
<1>19. QED
  BY <1>3, <1>6, <1>9, <1>12, <1>14, <1>18 DEF ChainBefore

LEMMA BeginSearchOrder ==
  ASSUME OInv, BeginSearch
  PROVE  OrderInvariant'
<1> USE DEF OInv, SInv, TypeOK
<1>1. /\ frames' = <<Enter(source)>> /\ visited' = {} /\ ~found'
      /\ catalog' = catalog
  BY DEF BeginSearch, question, SearchInvariant, LocalsFresh
<1>2. Len(frames') = 1 /\ frames'[1].next = 0
  BY <1>1 DEF Enter
<1>3. \A i \in DOMAIN catalog.rules : ~(i < 0)
  BY RuleTypes
<1>4. PassedEdgesDead'
  BY <1>1, <1>2, <1>3 DEF PassedEdgesDead
<1>5. TakenEdges' /\ ReturnedNodesDead' /\ FoundPathIsFirst'
  BY <1>1, <1>2 DEF TakenEdges, ReturnedNodesDead, FoundPathIsFirst
<1>6. QED
  BY <1>4, <1>5 DEF OrderInvariant

\* Moving the loop of the innermost activation leaves the stack alone, and with
\* it the edges that were taken.
LEMMA ResumeOrder ==
  ASSUME OInv, pc = "search", frames # <<>>, ~found, ~found', NEW n \in Nat,
         frames' = Resumed(n), catalog' = catalog
  PROVE  /\ Len(frames) \in Nat /\ Len(frames) >= 1 /\ Len(frames') = Len(frames)
         /\ \A k \in 1..Len(frames) :
              frames'[k] = IF k = Len(frames) THEN At(n) ELSE frames[k]
         /\ \A k \in 1..Len(frames) : frames'[k].node = frames[k].node
         /\ \A k \in 0..Len(frames) : StackNodes(k)' = StackNodes(k)
         /\ TakenEdges'
<1> USE DEF OInv, SInv, TypeOK
<1>1. /\ Len(frames) \in Nat /\ Len(frames) >= 1 /\ Len(frames') = Len(frames)
      /\ \A k \in 1..Len(frames) :
           frames'[k] = IF k = Len(frames) THEN At(n) ELSE frames[k]
  BY NonEmptySeq, ResumedProperties
<1>2. \A k \in 1..Len(frames) : frames'[k].node = frames[k].node
  BY <1>1 DEF At, Top
<1>3. ASSUME NEW k \in 0..Len(frames) PROVE StackNodes(k)' = StackNodes(k)
  <2>1. \A j \in 1..k : j \in 1..Len(frames)
    BY <1>1
  <2>2. \A j \in 1..k : frames'[j].node = frames[j].node
    BY <1>2, <2>1
  <2>3. QED
    BY <2>2 DEF StackNodes
<1>4. TakenEdges'
  <2> SUFFICES ASSUME NEW k \in 1..Len(frames) - 1
               PROVE  /\ frames'[k].next - 1 \in DOMAIN catalog.rules
                      /\ Edge(frames'[k].next - 1) =
                           [from |-> frames'[k].node, to |-> frames'[k + 1].node,
                            kind |-> "migration"]
    BY <1>1 DEF TakenEdges, Edge
  <2>1. k \in 1..Len(frames) /\ k + 1 \in 1..Len(frames) /\ k # Len(frames)
    BY <1>1
  <2>2. frames'[k] = frames[k] /\ frames'[k + 1].node = frames[k + 1].node
    BY <1>1, <1>2, <2>1
  <2>3. QED
    BY <2>2 DEF OrderInvariant, TakenEdges
<1>5. QED
  BY <1>1, <1>2, <1>3, <1>4

LEMMA VisitOrder ==
  ASSUME OInv, Visit
  PROVE  OrderInvariant'
<1> USE DEF OInv, SInv, TypeOK
<1> DEFINE F == Len(frames)
<1>1. /\ pc = "search" /\ frames # <<>> /\ ~found /\ ~found' /\ pc' = "search"
      /\ visited' = visited \cup {Top.node} /\ frames' = Resumed(1)
      /\ UNCHANGED <<catalog, source, target>>
  BY DEF Visit, Searching, question
<1>2. /\ F \in Nat /\ F >= 1 /\ Len(frames') = F
      /\ \A k \in 1..F : frames'[k] = IF k = F THEN At(1) ELSE frames[k]
      /\ \A k \in 1..F : frames'[k].node = frames[k].node
      /\ \A k \in 0..F : StackNodes(k)' = StackNodes(k)
      /\ TakenEdges'
  BY <1>1, ResumeOrder, 1 \in Nat
<1> HIDE DEF F
<1>3. ASSUME NEW k \in 0..F, NEW d, DeadEnd(d, k) PROVE DeadEnd(d, k)'
  BY <1>1, <1>2, <1>3, DeadEndStays
<1>4. PassedEdgesDead'
  <2> SUFFICES ASSUME NEW k \in 1..F, NEW i \in DOMAIN catalog.rules,
                      i < frames'[k].next, k # F => i # frames'[k].next - 1,
                      Edge(i).kind = "migration", Edge(i).from = frames'[k].node
               PROVE  Edge(i).to \in StackNodes(k) \/ DeadEnd(Edge(i).to, k)
    <3>1. \A k \in 1..F : k \in 0..F
      BY <1>2
    <3>2. QED
      BY <1>1, <1>2, <1>3, <3>1 DEF PassedEdgesDead, Edge
  <2>1. CASE k = F
    <3>1. i >= 1 /\ i \in Nat
      BY LenProperties DEF Catalog
    <3>2. QED
      BY <1>2, <2>1, <3>1 DEF At
  <2>2. CASE k # F
    <3>1. frames'[k] = frames[k]
      BY <1>2, <2>2
    <3>2. QED
      BY <1>1, <2>2, <3>1 DEF OrderInvariant, PassedEdgesDead, F
  <2>3. QED
    BY <2>1, <2>2
<1>5. ReturnedNodesDead'
  <2>1. F \in 0..F /\ F \in 1..F
    BY <1>2
  <2>2. Top.node \in StackNodes(F)
    BY <2>1 DEF StackNodes, Top, F
  <2>3. \A d \in visited \ StackNodes(F) : DeadEnd(d, F)
    BY <1>1 DEF OrderInvariant, ReturnedNodesDead, F
  <2>4. QED
    BY <1>1, <1>2, <1>3, <2>1, <2>2, <2>3 DEF ReturnedNodesDead
<1>6. QED
  BY <1>1, <1>2, <1>4, <1>5 DEF OrderInvariant, FoundPathIsFirst

LEMMA SkipEdgeOrder ==
  ASSUME OInv, SkipEdge
  PROVE  OrderInvariant'
<1> USE DEF OInv, SInv, TypeOK
<1> DEFINE F == Len(frames)
           n == Top.next
<1>1. /\ pc = "search" /\ frames # <<>> /\ ~found /\ ~found' /\ pc' = "search"
      /\ n \in DOMAIN catalog.rules /\ ~Followable(n) /\ frames' = Resumed(n + 1)
      /\ UNCHANGED <<catalog, source, target, visited>>
  BY DEF SkipEdge, Searching, question
<1>2. n \in Nat /\ n + 1 \in Nat
  BY <1>1, RuleTypes
<1>3. /\ F \in Nat /\ F >= 1 /\ Len(frames') = F
      /\ \A k \in 1..F : frames'[k] = IF k = F THEN At(n + 1) ELSE frames[k]
      /\ \A k \in 1..F : frames'[k].node = frames[k].node
      /\ \A k \in 0..F : StackNodes(k)' = StackNodes(k)
      /\ TakenEdges'
  BY <1>1, <1>2, ResumeOrder
<1>4. frames[F] = Top
  BY DEF Top
<1> HIDE DEF F, n
<1>5. ASSUME NEW k \in 0..F, NEW d, DeadEnd(d, k) PROVE DeadEnd(d, k)'
  BY <1>1, <1>3, <1>5, DeadEndStays
<1>6. PassedEdgesDead'
  <2> SUFFICES ASSUME NEW k \in 1..F, NEW i \in DOMAIN catalog.rules,
                      i < frames'[k].next, k # F => i # frames'[k].next - 1,
                      Edge(i).kind = "migration", Edge(i).from = frames'[k].node
               PROVE  Edge(i).to \in StackNodes(k) \/ DeadEnd(Edge(i).to, k)
    <3>1. \A k \in 1..F : k \in 0..F
      BY <1>3
    <3>2. QED
      BY <1>1, <1>3, <1>5, <3>1 DEF PassedEdgesDead, Edge
  <2>1. CASE k = F /\ i = n
    <3>1. Edge(i).to \in visited
      BY <1>1, <1>3, <1>4, <2>1 DEF Followable
    <3>2. QED
      BY <1>1, <2>1, <3>1 DEF OrderInvariant, ReturnedNodesDead, F
  <2>2. CASE k = F /\ i # n
    <3>1. i < n
      BY <1>2, <1>3, <2>2, RuleTypes DEF At
    <3>2. i < frames[k].next
      BY <1>4, <2>2, <3>1 DEF n
    <3>3. Edge(i).from = frames[k].node
      BY <1>3
    <3>4. QED
      BY <1>1, <2>2, <3>2, <3>3 DEF OrderInvariant, PassedEdgesDead, F
  <2>3. CASE k # F
    <3>1. frames'[k] = frames[k]
      BY <1>3, <2>3
    <3>2. QED
      BY <1>1, <2>3, <3>1 DEF OrderInvariant, PassedEdgesDead, F
  <2>4. QED
    BY <2>1, <2>2, <2>3
<1>7. ReturnedNodesDead'
  <2>1. F \in 0..F
    BY <1>3
  <2>2. \A d \in visited \ StackNodes(F) : DeadEnd(d, F)
    BY <1>1 DEF OrderInvariant, ReturnedNodesDead, F
  <2>3. QED
    BY <1>1, <1>3, <1>5, <2>1, <2>2 DEF ReturnedNodesDead
<1>8. QED
  BY <1>1, <1>3, <1>6, <1>7 DEF OrderInvariant, FoundPathIsFirst

LEMMA DescendOrder ==
  ASSUME OInv, Descend
  PROVE  OrderInvariant'
<1> USE DEF OInv, SInv, TypeOK
<1> DEFINE F == Len(frames)
           n == Top.next
           d == Edge(n).to
<1>1. /\ pc = "search" /\ frames # <<>> /\ ~found /\ ~found' /\ pc' = "search"
      /\ n \in DOMAIN catalog.rules /\ Followable(n)
      /\ frames' = Append(Resumed(n + 1), Enter(d))
      /\ UNCHANGED <<catalog, source, target, visited>>
  BY DEF Descend, Searching, question
<1>2. n \in Nat /\ n + 1 \in Nat /\ d \in DocumentId /\ (n + 1) - 1 = n
  BY <1>1, RuleTypes
<1>3. /\ Edge(n) = [from |-> Top.node, to |-> d, kind |-> "migration"]
      /\ d \notin visited
  <2>1. Edge(n) \in Rule
    BY <1>1, RuleTypes
  <2>2. QED
    BY <1>1, <2>1 DEF Followable, Rule
<1>4. frames[F] = Top
  BY DEF Top
<1>5. /\ F \in Nat /\ F >= 1 /\ Len(frames') = F + 1
      /\ \A k \in 1..F : frames'[k] = IF k = F THEN At(n + 1) ELSE frames[k]
      /\ frames'[F + 1] = Enter(d)
  <2> DEFINE R == Resumed(n + 1)
  <2>1. /\ F \in Nat /\ F >= 1 /\ R \in Seq(Frame) /\ Len(R) = F
        /\ \A k \in 1..F : R[k] = IF k = F THEN At(n + 1) ELSE frames[k]
    BY <1>1, <1>2, NonEmptySeq, ResumedProperties
  <2>2. Enter(d) \in Frame /\ frames' = Append(R, Enter(d))
    BY <1>1, <1>2 DEF Enter, Frame
  <2> HIDE DEF R, F, n, d
  <2>3. /\ Len(frames') = F + 1 /\ frames'[F + 1] = Enter(d)
        /\ \A k \in 1..F : frames'[k] = R[k]
    BY <2>1, <2>2, AppendProperties
  <2>4. QED
    BY <2>1, <2>3
<1> HIDE DEF F, n, d
<1>6. /\ \A k \in 1..F : frames'[k].node = frames[k].node
      /\ At(n + 1).next = n + 1 /\ At(n + 1).node = Top.node
      /\ frames'[F + 1].node = d /\ frames'[F + 1].next = 0
  BY <1>4, <1>5 DEF At, Enter
<1>7. ASSUME NEW k \in 0..F PROVE StackNodes(k)' = StackNodes(k)
  <2>1. \A j \in 1..k : j \in 1..F
    BY <1>5
  <2>2. \A j \in 1..k : frames'[j].node = frames[j].node
    BY <1>6, <2>1
  <2>3. QED
    BY <2>2 DEF StackNodes
<1>8. ASSUME NEW k \in 0..F, NEW e, DeadEnd(e, k) PROVE DeadEnd(e, k)'
  BY <1>1, <1>7, <1>8, DeadEndStays
<1>9. TakenEdges'
  <2> SUFFICES ASSUME NEW k \in 1..F
               PROVE  /\ frames'[k].next - 1 \in DOMAIN catalog.rules
                      /\ Edge(frames'[k].next - 1) =
                           [from |-> frames'[k].node, to |-> frames'[k + 1].node,
                            kind |-> "migration"]
    <3>1. Len(frames') - 1 = F
      BY <1>5
    <3>2. QED
      BY <1>1, <3>1 DEF TakenEdges, Edge
  <2>1. CASE k = F
    <3>1. frames'[k].next - 1 = n
      BY <1>2, <1>5, <1>6, <2>1
    <3>2. QED
      BY <1>1, <1>3, <1>5, <1>6, <2>1, <3>1
  <2>2. CASE k # F
    <3>1. k \in 1..F - 1 /\ k + 1 \in 1..F
      BY <1>5, <2>2
    <3>2. frames'[k] = frames[k] /\ frames'[k + 1].node = frames[k + 1].node
      BY <1>5, <1>6, <2>2, <3>1
    <3>3. QED
      BY <1>1, <3>1, <3>2 DEF OrderInvariant, TakenEdges, F
  <2>3. QED
    BY <2>1, <2>2
<1>10. PassedEdgesDead'
  <2> SUFFICES ASSUME NEW k \in 1..F + 1, NEW i \in DOMAIN catalog.rules,
                      i < frames'[k].next, k # F + 1 => i # frames'[k].next - 1,
                      Edge(i).kind = "migration", Edge(i).from = frames'[k].node
               PROVE  k \in 0..F /\ (Edge(i).to \in StackNodes(k) \/ DeadEnd(Edge(i).to, k))
    <3>1. \A k \in 0..F : \A e : e \in StackNodes(k) \/ DeadEnd(e, k)
                              => e \in StackNodes(k)' \/ DeadEnd(e, k)'
      BY <1>7, <1>8
    <3>2. QED
      BY <1>1, <1>5, <3>1 DEF PassedEdgesDead, Edge
  <2>1. i \in Nat
    BY RuleTypes
  <2>2. k # F + 1
    BY <1>6, <2>1
  <2>3. k \in 1..F /\ k \in 0..F
    BY <1>5, <2>2
  <2>4. i < frames[k].next /\ (k # F => i # frames[k].next - 1)
    <3>1. CASE k = F
      <4>1. i < n + 1 /\ i # (n + 1) - 1
        BY <1>5, <1>6, <2>2, <3>1
      <4>2. i < n
        BY <1>2, <2>1, <4>1
      <4>3. QED
        BY <1>4, <3>1, <4>2 DEF n
    <3>2. CASE k # F
      BY <1>5, <2>2, <2>3, <3>2
    <3>3. QED
      BY <3>1, <3>2
  <2>5. Edge(i).from = frames[k].node
    BY <1>6, <2>3
  <2>6. QED
    BY <1>1, <2>3, <2>4, <2>5 DEF OrderInvariant, PassedEdgesDead, F
<1>11. ReturnedNodesDead'
  <2>1. \A e \in visited \ StackNodes(F) : DeadEnd(e, F)
    BY <1>1 DEF OrderInvariant, ReturnedNodesDead, F
  <2>2. StackNodes(F) \subseteq StackNodes(Len(frames))'
    <3>1. \A j \in 1..F : j \in 1..F + 1 /\ frames'[j].node = frames[j].node
      BY <1>5, <1>6
    <3>2. StackNodes(F) = {frames[j].node : j \in 1..F}
      BY DEF StackNodes
    <3>3. {frames[j].node : j \in 1..F} \subseteq {frames'[j].node : j \in 1..Len(frames')}
      BY <1>5, <3>1
    <3>4. QED
      BY <3>2, <3>3 DEF StackNodes
  <2>3. ASSUME NEW e \in visited, e \notin StackNodes(Len(frames))'
        PROVE  DeadEnd(e, Len(frames))'
    <3>1. DeadEnd(e, F)
      BY <1>5, <2>1, <2>2, <2>3
    <3>2. QED
      BY <1>1, <1>5, <2>2, <3>1, DeadEndStays
  <2>4. QED
    BY <1>1, <2>3 DEF ReturnedNodesDead
<1>12. QED
  BY <1>1, <1>9, <1>10, <1>11 DEF OrderInvariant, FoundPathIsFirst

\* When an activation returns, its node joins the dead ends: everything it leads
\* to is dead, or on the stack that is left.
LEMMA BacktrackOrder ==
  ASSUME OInv, Backtrack
  PROVE  OrderInvariant'
<1> USE DEF OInv, SInv, TypeOK
<1> DEFINE F == Len(frames)
           v == Top.node
<1>1. /\ pc = "search" /\ frames # <<>> /\ ~found /\ ~found' /\ pc' = "search"
      /\ Top.next = Len(catalog.rules) + 1 /\ frames' = Under
      /\ UNCHANGED <<catalog, source, target, visited>>
  BY DEF Backtrack, Searching, question
<1>2. /\ F \in Nat /\ F >= 1 /\ Len(frames') = F - 1
      /\ \A k \in 1..F - 1 : frames'[k] = frames[k]
  BY <1>1, NonEmptySeq, PopProperties DEF Under
<1>3. frames[F] = Top /\ frames[F].node = v
  BY DEF Top
<1>4. /\ Len(catalog.rules) \in Nat
      /\ \A i \in DOMAIN catalog.rules : i \in Nat /\ i < Top.next
  <2>1. Len(catalog.rules) \in Nat /\ DOMAIN catalog.rules = 1..Len(catalog.rules)
    BY LenProperties DEF Catalog
  <2>2. QED
    BY <1>1, <2>1
<1>5. v \in visited
  BY <1>1, <1>2, <1>4 DEF SearchInvariant, MarkedOnEntry, Top
<1> HIDE DEF F, v
<1>6. ASSUME NEW k \in 0..F - 1 PROVE StackNodes(k)' = StackNodes(k)
  <2>1. \A j \in 1..k : j \in 1..F - 1
    BY <1>2
  <2>2. \A j \in 1..k : frames'[j].node = frames[j].node
    BY <1>2, <2>1
  <2>3. QED
    BY <2>2 DEF StackNodes
<1>7. StackNodes(F) \subseteq StackNodes(F - 1) \cup {v}
  <2> SUFFICES ASSUME NEW j \in 1..F, frames[j].node # v
               PROVE  frames[j].node \in StackNodes(F - 1)
    BY DEF StackNodes
  <2>1. j \in 1..F - 1
    BY <1>2, <1>3
  <2>2. QED
    BY <2>1 DEF StackNodes
<1> DEFINE Dead == {d \in visited : DeadEnd(d, F)} \cup {v}
<1>8. ClosedBesideStack(Dead, F - 1)
  <2> SUFFICES ASSUME NEW d \in Dead, NEW e \in DocumentId, Declared(catalog, d, e)
               PROVE  e \in Dead \cup StackNodes(F - 1)
    BY DEF ClosedBesideStack
  <2>1. CASE d = v
    <3>1. PICK i \in DOMAIN catalog.rules : Edge(i) = [from |-> v, to |-> e, kind |-> "migration"]
      BY <2>1 DEF Declared, Edge
    <3>2. F \in 1..F /\ i < frames[F].next /\ Edge(i).from = frames[F].node
      BY <1>2, <1>3, <1>4, <3>1
    <3>3. Edge(i).kind = "migration" /\ Edge(i).to = e
      BY <3>1
    <3>4. PassedEdgesDead
      BY DEF OrderInvariant
    <3>5. Edge(i).to \in StackNodes(F) \/ DeadEnd(Edge(i).to, F)
      BY <1>1, <3>2, <3>3, <3>4 DEF PassedEdgesDead, F
    <3>6. DeadEnd(e, F) => e \in visited
      BY DEF DeadEnd
    <3>7. QED
      BY <1>7, <3>3, <3>5, <3>6
  <2>2. CASE d # v
    <3>1. PICK S \in SUBSET visited : d \in S /\ ClosedBesideStack(S, F)
      BY <2>2 DEF DeadEnd
    <3>2. e \in S \cup StackNodes(F)
      BY <3>1 DEF ClosedBesideStack
    <3>3. e \in S => e \in Dead
      BY <3>1 DEF DeadEnd
    <3>4. QED
      BY <1>7, <3>2, <3>3
  <2>3. QED
    BY <2>1, <2>2
<1>9. \A d \in Dead : DeadEnd(d, F - 1)
  BY <1>5, <1>8 DEF DeadEnd
<1>10. ASSUME NEW k \in 0..F - 1, NEW d, DeadEnd(d, k) PROVE DeadEnd(d, k)'
  BY <1>1, <1>6, <1>10, DeadEndStays
<1> HIDE DEF Dead
<1>11. TakenEdges'
  <2> SUFFICES ASSUME NEW k \in 1..(F - 1) - 1
               PROVE  /\ frames'[k].next - 1 \in DOMAIN catalog.rules
                      /\ Edge(frames'[k].next - 1) =
                           [from |-> frames'[k].node, to |-> frames'[k + 1].node,
                            kind |-> "migration"]
    BY <1>1, <1>2 DEF TakenEdges, Edge
  <2>1. k \in 1..F - 1 /\ k + 1 \in 1..F - 1
    BY <1>2
  <2>2. frames'[k] = frames[k] /\ frames'[k + 1] = frames[k + 1]
    BY <1>2, <2>1
  <2>3. QED
    BY <1>1, <2>1, <2>2 DEF OrderInvariant, TakenEdges, F
<1>12. PassedEdgesDead'
  <2> SUFFICES ASSUME NEW k \in 1..F - 1, NEW i \in DOMAIN catalog.rules,
                      i < frames'[k].next, k # F - 1 => i # frames'[k].next - 1,
                      Edge(i).kind = "migration", Edge(i).from = frames'[k].node
               PROVE  Edge(i).to \in StackNodes(k) \/ DeadEnd(Edge(i).to, k)
    <3>1. \A k \in 1..F - 1 : \A e : e \in StackNodes(k) \/ DeadEnd(e, k)
                                   => e \in StackNodes(k)' \/ DeadEnd(e, k)'
      <4>1. \A k \in 1..F - 1 : k \in 0..F - 1
        BY <1>2
      <4>2. QED
        BY <1>6, <1>10, <4>1
    <3>2. QED
      BY <1>1, <1>2, <3>1 DEF PassedEdgesDead, Edge
  <2>1. k \in 1..F /\ frames'[k] = frames[k] /\ k # F
    BY <1>2
  <2>2. CASE i = frames[k].next - 1 /\ k = F - 1
    <3>1. k + 1 = F
      BY <1>2, <2>2
    <3>2. TakenEdges
      BY DEF OrderInvariant
    <3>3. Edge(i) = [from |-> frames[k].node, to |-> frames[k + 1].node, kind |-> "migration"]
      BY <1>1, <2>2, <3>2 DEF TakenEdges, F
    <3>4. Edge(i).to \in Dead
      BY <1>3, <3>1, <3>3 DEF Dead
    <3>5. QED
      BY <1>9, <2>2, <3>4
  <2>3. CASE i # frames[k].next - 1
    BY <1>1, <2>1, <2>3 DEF OrderInvariant, PassedEdgesDead, F
  <2>4. QED
    BY <2>1, <2>2, <2>3
<1>13. ReturnedNodesDead'
  <2>1. \A d \in visited \ StackNodes(F - 1) : d \in Dead
    <3>1. \A d \in visited \ StackNodes(F) : DeadEnd(d, F)
      BY <1>1 DEF OrderInvariant, ReturnedNodesDead, F
    <3>2. QED
      BY <1>7, <3>1 DEF Dead
  <2>2. ASSUME NEW d \in visited, d \notin StackNodes(Len(frames))'
        PROVE  DeadEnd(d, Len(frames))'
    <3>1. F - 1 \in 0..F - 1 /\ Len(frames') = F - 1
      BY <1>2
    <3>2. StackNodes(F - 1) \subseteq StackNodes(Len(frames))'
      <4>1. \A j \in 1..F - 1 : frames'[j].node = frames[j].node
        BY <1>2
      <4>2. QED
        BY <3>1, <4>1 DEF StackNodes
    <3>3. DeadEnd(d, F - 1)
      BY <1>9, <2>1, <2>2, <3>2
    <3>4. QED
      BY <1>1, <3>2, <3>3, DeadEndStays
  <2>3. QED
    BY <1>1, <2>2 DEF ReturnedNodesDead
<1>14. QED
  BY <1>1, <1>11, <1>12, <1>13 DEF OrderInvariant, FoundPathIsFirst

\* The order invariant is untouched where the search is over.
LEMMA ReturnOrder ==
  ASSUME OInv, pc' = "done", UNCHANGED <<question, locals>>
  PROVE  OrderInvariant'
<1>1. Steps' = Steps
  BY DEF Steps, question, locals
<1>2. \A q : ChainBefore(catalog, Steps, q)' <=> ChainBefore(catalog, Steps, q)
  BY <1>1 DEF ChainBefore, question
<1>3. SimpleChains(catalog, source, target)' = SimpleChains(catalog, source, target)
  BY DEF question
<1>4. QED
  BY <1>1, <1>2, <1>3
  DEF OInv, OrderInvariant, TakenEdges, PassedEdgesDead, ReturnedNodesDead, FoundPathIsFirst,
      locals

LEMMA UnwindOrder ==
  ASSUME OInv, Unwind
  PROVE  OrderInvariant'
<1>1. found /\ found' /\ UNCHANGED <<catalog, source, target, path_nodes>>
  BY DEF Unwind, question
<1>2. Steps' = Steps
  BY <1>1 DEF Steps
<1>3. \A q : ChainBefore(catalog, Steps, q)' <=> ChainBefore(catalog, Steps, q)
  BY <1>1, <1>2 DEF ChainBefore
<1>4. SimpleChains(catalog, source, target)' = SimpleChains(catalog, source, target)
  BY <1>1
<1>5. QED
  BY <1>1, <1>2, <1>3, <1>4
  DEF OInv, OrderInvariant, TakenEdges, PassedEdgesDead, ReturnedNodesDead, FoundPathIsFirst

\* The inductive invariant of plan_migration, its types included, holds at every
\* moment of every search in every catalog.
THEOREM InductiveInvariantHolds == Spec => []IInv
<1>1. Init => OrderInvariant
  BY DEF Init, OrderInvariant, TakenEdges, PassedEdgesDead, ReturnedNodesDead, FoundPathIsFirst
<1>2. TypeOK /\ SearchInvariant /\ OrderInvariant /\ [Next]_vars => OrderInvariant'
  <2> SUFFICES ASSUME OInv, [Next]_vars PROVE OrderInvariant'
    BY DEF OInv, SInv
  <2>1. CASE RefuseInvalidCatalog
    BY <2>1, ReturnOrder DEF RefuseInvalidCatalog, Return
  <2>2. CASE NothingToMigrate
    BY <2>2, ReturnOrder DEF NothingToMigrate, Return
  <2>3. CASE RefuseUnregistered
    BY <2>3, ReturnOrder DEF RefuseUnregistered, Return
  <2>4. CASE BeginSearch
    BY <2>4, BeginSearchOrder
  <2>5. CASE ReachTarget
    BY <2>5, ReachTargetOrder
  <2>6. CASE Visit
    BY <2>6, VisitOrder
  <2>7. CASE SkipEdge
    BY <2>7, SkipEdgeOrder
  <2>8. CASE Descend
    BY <2>8, DescendOrder
  <2>9. CASE Backtrack
    BY <2>9, BacktrackOrder
  <2>10. CASE Unwind
    BY <2>10, UnwindOrder
  <2>11. CASE AnswerFound
    BY <2>11, ReturnOrder DEF AnswerFound, Return
  <2>12. CASE AnswerMissing
    BY <2>12, ReturnOrder DEF AnswerMissing, Return
  <2>13. CASE UNCHANGED vars
    <3>1. UNCHANGED <<catalog, source, target, pc, frames, visited, path_nodes, found>>
      BY <2>13 DEF vars, question, locals
    <3>2. Steps' = Steps
      BY <3>1 DEF Steps
    <3>3. \A q : ChainBefore(catalog, Steps, q)' <=> ChainBefore(catalog, Steps, q)
      BY <3>1, <3>2 DEF ChainBefore
    <3>4. SimpleChains(catalog, source, target)' = SimpleChains(catalog, source, target)
      BY <3>1
    <3>5. \A k : StackNodes(k)' = StackNodes(k)
      BY <3>1 DEF StackNodes
    <3>6. \A d, k : DeadEnd(d, k) => DeadEnd(d, k)'
      BY <3>1, <3>5, DeadEndStays
    <3>7. TakenEdges' /\ FoundPathIsFirst'
      BY <3>1, <3>2, <3>3, <3>4
      DEF OInv, OrderInvariant, TakenEdges, FoundPathIsFirst, Edge
    <3>8. PassedEdgesDead'
      BY <3>1, <3>5, <3>6 DEF OInv, OrderInvariant, PassedEdgesDead, Edge
    <3>9. ReturnedNodesDead'
      BY <3>1, <3>5, <3>6 DEF OInv, OrderInvariant, ReturnedNodesDead
    <3>10. QED
      BY <3>7, <3>8, <3>9 DEF OrderInvariant
  <2>14. QED
    BY <2>1, <2>2, <2>3, <2>4, <2>5, <2>6, <2>7, <2>8, <2>9, <2>10, <2>11, <2>12, <2>13
    DEF Next
<1>3. TypeOK /\ SearchInvariant /\ OrderInvariant => IInv
  BY DEF IInv
<1>4. QED
  BY <1>1, <1>2, <1>3, TypeCorrect, SearchInvariantHolds, PTL DEF Spec

\* plan_migration returns "the first path found" with the rules tried in their
\* sorted order: of all simple chains of migrations from source to target its
\* steps are the first, because what the search has left behind is dead.
THEOREM PlanIsFirstInRuleOrderHolds == Spec => []PlanIsFirstInRuleOrder
<1> DEFINE StepsAreFound == plan.steps # <<>> => found /\ plan.steps = Steps
<1>1. Init => StepsAreFound
  BY DEF Init, Pending
<1>2. IInv /\ StepsAreFound /\ [Next]_vars => StepsAreFound'
  <2> SUFFICES ASSUME SInv, StepsAreFound, [Next]_vars PROVE StepsAreFound'
    BY DEF IInv, SInv
  <2>1. CASE plan.answered
    <3>1. pc = "done"
      BY <2>1 DEF SInv, SearchInvariant, AnswerOnlyWhenDone, Pending
    <3>2. UNCHANGED vars
      BY <3>1 DEF Next, RefuseInvalidCatalog, NothingToMigrate, RefuseUnregistered,
         BeginSearch, ReachTarget, Visit, SkipEdge, Descend, Backtrack, Unwind,
         AnswerFound, AnswerMissing, Searching
    <3>3. UNCHANGED <<plan, found, source, path_nodes>>
      BY <3>2 DEF vars, question, locals
    <3>4. QED
      BY <3>3 DEF Steps
  <2>2. CASE ~plan.answered
    <3>1. plan = Pending
      BY <2>2 DEF SInv, SearchInvariant, AnswerOnlyWhenDone
    <3>2. CASE AnswerFound
      <4>1. plan'.steps = Steps /\ UNCHANGED <<source, path_nodes, found>> /\ found
        BY <3>2 DEF AnswerFound, Return, Planned, question, locals
      <4>2. Steps' = Steps
        BY <4>1 DEF Steps
      <4>3. QED
        BY <4>1, <4>2
    <3>3. CASE ~AnswerFound
      <4>1. plan'.steps = <<>>
        BY <3>1, <3>3 DEF Next, vars, RefuseInvalidCatalog, NothingToMigrate,
           RefuseUnregistered, BeginSearch, ReachTarget, Visit, SkipEdge, Descend, Backtrack,
           Unwind, AnswerMissing, Return, Refused, Planned, Pending
      <4>2. QED
        BY <4>1
    <3>4. QED
      BY <3>2, <3>3
  <2>3. QED
    BY <2>1, <2>2
<1>3. IInv /\ StepsAreFound => PlanIsFirstInRuleOrder
  BY DEF IInv, OrderInvariant, FoundPathIsFirst, PlanIsFirstInRuleOrder
<1> HIDE DEF StepsAreFound
<1>4. QED
  BY <1>1, <1>2, <1>3, InductiveInvariantHolds, PTL DEF Spec

(***************************************************************************)
(* The contract is an instance: its copies of the definitions it shares    *)
(* with the planner are the same operators.                                *)
(***************************************************************************)
LEMMA SameCatalogs ==
  /\ Contract!DocumentId = DocumentId
  /\ Contract!Catalog = Catalog
<1>1. Contract!DocumentId = DocumentId
  BY DEF DocumentId, Contract!DocumentId
<1>2. Contract!Entry = Entry /\ Contract!Rule = Rule
  BY <1>1 DEF Entry, Contract!Entry, Rule, Contract!Rule, Path, Contract!Path,
     Kinds, Contract!Kinds
<1>3. QED
  BY <1>1, <1>2 DEF Catalog, Contract!Catalog

LEMMA SameValid ==
  \A c : Contract!Valid(c) <=> Valid(c)
<1>1. \A es : Contract!DuplicateDiagnostics(es) = DuplicateDiagnostics(es)
  BY DEF DuplicateDiagnostics, Contract!DuplicateDiagnostics, Diagnostic,
     Contract!Diagnostic, Pairs, Contract!Pairs
<1>2. \A es : Contract!EntryDiagnostics(es) = EntryDiagnostics(es)
  BY DEF EntryDiagnostics, Contract!EntryDiagnostics, Diagnostic, Contract!Diagnostic,
     IsAbsolutePath, Contract!IsAbsolutePath, HasTraversal, Contract!HasTraversal
<1>3. \A es, rs : Contract!RuleDiagnostics(es, rs) = RuleDiagnostics(es, rs)
  BY DEF RuleDiagnostics, Contract!RuleDiagnostics, Diagnostic, Contract!Diagnostic,
     Pairs, Contract!Pairs, Registered, Contract!Registered
<1>4. \A c : Contract!ValidateCatalog(c) = ValidateCatalog(c)
  BY <1>1, <1>2, <1>3 DEF ValidateCatalog, Contract!ValidateCatalog
<1>5. QED
  BY <1>4 DEF Valid, Contract!Valid

LEMMA SameRegisters ==
  \A c, d : Contract!Registers(c, d) <=> Registers(c, d)
  BY DEF Registers, Contract!Registers, LookupSchema, Contract!LookupSchema,
     Found, Contract!Found, NotFound, Contract!NotFound

LEMMA SamePromise ==
  \A c, s, t, p : Contract!Promise(c, s, t, p) <=> Promise(c, s, t, p)
<1>1. \A c, d, e : Contract!Declared(c, d, e) <=> Declared(c, d, e)
  BY DEF Declared, Contract!Declared
<1>2. \A c, S : Contract!ClosedUnderMigration(c, S) <=> ClosedUnderMigration(c, S)
  BY <1>1, SameCatalogs DEF ClosedUnderMigration, Contract!ClosedUnderMigration
<1>3. \A c, s, t : Contract!Reachable(c, s, t) <=> Reachable(c, s, t)
  BY <1>2, SameCatalogs DEF Reachable, Contract!Reachable
<1>4. \A c, s, t, steps : Contract!IsMigrationChain(c, s, t, steps) <=> IsMigrationChain(c, s, t, steps)
  BY <1>1 DEF IsMigrationChain, Contract!IsMigrationChain
<1>5. \A s, steps : Contract!VisitsOnce(s, steps) <=> VisitsOnce(s, steps)
  BY DEF VisitsOnce, Contract!VisitsOnce
<1>6. QED
  BY <1>3, <1>4, <1>5, SameValid, SameRegisters DEF Promise, Contract!Promise

\* plan_migration implements its contract: the search is invisible, and the one
\* visible step answers the question as MigrationContract promises.
THEOREM ImplementsContractHolds == Spec => ImplementsContract
<1>1. Init => Contract!Init
  BY CatalogsAssumption, SameCatalogs DEF Init, Contract!Init, Pending, Contract!Pending
<1>2. TypeOK /\ SearchInvariant /\ [Next]_vars
        => [Contract!Next]_<<Contract!question, plan>>
  <2> SUFFICES ASSUME SInv, [Next]_vars
               PROVE  [Contract!Next]_<<Contract!question, plan>>
    BY DEF SInv
  <2>1. UNCHANGED Contract!question
    BY QuestionStable DEF question, Contract!question
  <2>2. CASE plan.answered
    BY <2>1, <2>2, AnsweredStable
  <2>3. CASE ~plan.answered /\ plan'.answered
    <3>1. Promise(catalog, source, target, plan')
      BY <2>3, AnswerStep
    <3>2. Contract!Promise(catalog, source, target, plan')
      BY <3>1, SamePromise
    <3>3. QED
      BY <2>1, <2>3, <3>2 DEF Contract!Next, Contract!Answering
  <2>4. CASE ~plan.answered /\ ~plan'.answered
    <3>1. plan = Pending
      BY <2>4 DEF SInv, SearchInvariant, AnswerOnlyWhenDone
    <3>2. plan' = plan
      BY <2>4 DEF Next, vars, RefuseInvalidCatalog, NothingToMigrate, RefuseUnregistered,
         BeginSearch, ReachTarget, Visit, SkipEdge, Descend, Backtrack, Unwind,
         AnswerFound, AnswerMissing, Return, Refused, Planned
    <3>3. QED
      BY <2>1, <3>2
  <2>5. QED
    BY <2>2, <2>3, <2>4
<1>3. QED
  BY <1>1, <1>2, TypeCorrect, SearchInvariantHolds, PTL
  DEF Spec, ImplementsContract, Contract!Spec
=============================================================================
