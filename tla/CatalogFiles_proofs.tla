------------------------- MODULE CatalogFiles_proofs -------------------------
(***************************************************************************)
(* Proofs about CatalogFiles, for catalogs of any size, files of any       *)
(* content and calls into the file system that fail at any time.           *)
(***************************************************************************)
EXTENDS CatalogFiles, SequenceTheorems, TLAPS

Shape ==
  /\ catalog \in Catalog
  /\ \A k \in DOMAIN catalog.entries : TargetOf(k) \in Targets

-----------------------------------------------------------------------------
(***************************************************************************)
(* What the tests say of an entry.                                         *)
(***************************************************************************)
LEMMA Entries ==
  ASSUME Shape
  PROVE  /\ catalog.entries \in Seq(Entry) /\ Len(catalog.entries) \in Nat
         /\ DOMAIN catalog.entries = 1..Len(catalog.entries)
         /\ \A k \in DOMAIN catalog.entries : catalog.entries[k] \in Entry
<1>1. catalog.entries \in Seq(Entry)
  BY DEF Shape, Catalog
<1>2. QED
  BY <1>1, LenProperties, ElementOfSeq

LEMMA PolicyMeaning ==
  ASSUME NEW path
  PROVE  PolicyCodes(path) = {} <=> /\ ~path.rooted /\ ~path.backslash
                                    /\ ".." \notin {path.segs[m] : m \in DOMAIN path.segs}
  BY DEF PolicyCodes, IsAbsolutePath, HasTraversal

LEMMA WithinMeaning ==
  ASSUME NEW at \in Seq(STRING)
  PROVE  Within(Root, at) <=> Len(at) >= Len(Root) /\ SubSeq(at, 1, Len(Root)) = Root
<1>1. /\ Root \in Seq(STRING) /\ Len(Root) \in Nat \ {0} /\ DOMAIN Root = 1..Len(Root)
      /\ Len(at) \in Nat /\ DOMAIN at = 1..Len(at)
  BY RootAssumption, LenProperties, EmptySeq
<1>2. ASSUME Within(Root, at) PROVE Len(at) >= Len(Root)
  <2>1. Len(Root) \in DOMAIN at
    BY <1>1, <1>2 DEF Within
  <2>2. QED
    BY <1>1, <2>1
<1>3. ASSUME Len(at) >= Len(Root)
      PROVE  Within(Root, at) <=> SubSeq(at, 1, Len(Root)) = Root
  <2> DEFINE begin == SubSeq(at, 1, Len(Root))
  <2>1. /\ begin \in Seq(STRING) /\ Len(begin) = Len(Root)
        /\ \A k \in 1..Len(Root) : begin[k] = at[k]
    BY <1>1, <1>3, SubSeqProperties
  <2> HIDE DEF begin
  <2>2. begin = Root <=> \A k \in 1..Len(Root) : begin[k] = Root[k]
    BY <1>1, <2>1, SeqEqual
  <2>3. QED
    BY <1>1, <1>3, <2>1, <2>2 DEF Within, begin
<1>4. QED
  BY <1>2, <1>3

LEMMA FindMeaning ==
  ASSUME NEW node, HasNoMemberTwice(node), NEW key, NEW s
  PROVE  Find(node, key) = {s}
         <=> /\ node.kind = "object"
             /\ \E m \in DOMAIN node.object : node.object[m] = [key |-> key, value |-> s]
<1>1. CASE node.kind # "object"
  BY <1>1 DEF Find
<1>2. CASE node.kind = "object"
  <2> DEFINE named == {k \in DOMAIN node.object : node.object[k].key = key}
  <2>1. Find(node, key) = {node.object[k].value : k \in {m \in named : \A l \in named : m <= l}}
    BY <1>2 DEF Find
  <2>2. DOMAIN node.object \subseteq Int
    BY <1>2 DEF HasNoMemberTwice
  <2>3. \A k, l \in named : k = l
    BY <1>2 DEF HasNoMemberTwice
  <2>4. {m \in named : \A l \in named : m <= l} = named
    BY <2>2, <2>3
  <2>5. Find(node, key) = {node.object[k].value : k \in named}
    BY <2>1, <2>4
  <2>6. \A k \in DOMAIN node.object :
          node.object[k] = [key |-> node.object[k].key, value |-> node.object[k].value]
    BY <1>2 DEF HasNoMemberTwice
  <2> HIDE DEF named
  <2>7. ASSUME Find(node, key) = {s}
        PROVE  \E m \in DOMAIN node.object : node.object[m] = [key |-> key, value |-> s]
    <3>1. PICK k \in named : node.object[k].value = s
      BY <2>5, <2>7
    <3>2. QED
      BY <2>6, <3>1 DEF named
  <2>8. ASSUME NEW m \in DOMAIN node.object, node.object[m] = [key |-> key, value |-> s]
        PROVE  Find(node, key) = {s}
    <3>1. m \in named /\ node.object[m].value = s
      BY <2>8 DEF named
    <3>2. named = {m}
      BY <2>3, <3>1
    <3>3. QED
      BY <2>5, <3>1, <3>2
  <2>9. QED
    BY <1>2, <2>7, <2>8
<1>3. QED
  BY <1>1, <1>2

LEMMA CodesEmpty ==
  ASSUME NEW node
  PROVE  NodeCodes(node) = {}
         <=> /\ Find(node, "$id") = {Str(DocName(Current.doc))}
             /\ Find(node, "version") = {Str(VerText(Current.ver))}
             /\ CollectRefs(node) \subseteq RegisteredTexts \cup {Dialect}
<1> DEFINE a == IF Find(node, "$id") = {Str(DocName(Current.doc))} THEN {} ELSE {"on-disk-id-mismatch"}
           b == IF Find(node, "version") = {Str(VerText(Current.ver))} THEN {} ELSE {"on-disk-version-mismatch"}
           c == IF CollectRefs(node) \subseteq RegisteredTexts \cup {Dialect} THEN {} ELSE {"unregistered-ref"}
<1>1. NodeCodes(node) = UNION {a, b, c}
  BY DEF NodeCodes
<1>2. UNION {a, b, c} = {} <=> a = {} /\ b = {} /\ c = {}
  <2> HIDE DEF a, b, c
  <2>1. QED
    OBVIOUS
<1>3. /\ a = {} <=> Find(node, "$id") = {Str(DocName(Current.doc))}
      /\ b = {} <=> Find(node, "version") = {Str(VerText(Current.ver))}
      /\ c = {} <=> CollectRefs(node) \subseteq RegisteredTexts \cup {Dialect}
  OBVIOUS
<1> HIDE DEF a, b, c
<1>4. QED
  BY <1>1, <1>2, <1>3

\* The tests together are what an entry should be like.
LEMMA SoundMeaning ==
  ASSUME Shape, i \in DOMAIN catalog.entries, CollectIsExact
  PROVE  Sound(i) <=> /\ PolicyCodes(Current.path) = {}
                      /\ Within(Root, Target.at)
                      /\ Target.state = "json"
                      /\ NodeCodes(Target.node) = {}
<1> DEFINE t == Target
           e == Current
<1>1. t \in Targets /\ t = TargetOf(i) /\ e = catalog.entries[i]
  BY DEF Shape, TargetOf, Target, Current
<1>2. t.at \in Seq(STRING) /\ HasNoMemberTwice(t.node)
  BY <1>1, TargetsAssumption
<1>3. CollectRefs(t.node) = Refs(t.node)
  BY <1>1 DEF CollectIsExact
<1>4. RegisteredTexts = DocNames
  BY DEF RegisteredTexts, DocNames
<1> DEFINE says(key, text) == \E m \in DOMAIN t.node.object :
                                t.node.object[m] = [key |-> key, value |-> Str(text)]
<1>5. NodeCodes(t.node) = {}
      <=> /\ t.node.kind = "object"
          /\ says("$id", DocName(e.doc)) /\ says("version", VerText(e.ver))
          /\ \A ref \in Refs(t.node) : ref \in DocNames \cup {Dialect}
  <2>1. Find(t.node, "$id") = {Str(DocName(e.doc))}
        <=> t.node.kind = "object" /\ says("$id", DocName(e.doc))
    BY <1>2, FindMeaning
  <2>2. Find(t.node, "version") = {Str(VerText(e.ver))}
        <=> t.node.kind = "object" /\ says("version", VerText(e.ver))
    BY <1>2, FindMeaning
  <2> HIDE DEF says, t, e
  <2>3. CollectRefs(t.node) \subseteq RegisteredTexts \cup {Dialect}
        <=> \A ref \in Refs(t.node) : ref \in DocNames \cup {Dialect}
    BY <1>3, <1>4
  <2>4. QED
    BY <2>1, <2>2, <2>3, CodesEmpty DEF e
<1>6. Sound(i) <=> /\ ~e.path.rooted /\ ~e.path.backslash
                   /\ ".." \notin {e.path.segs[m] : m \in DOMAIN e.path.segs}
                   /\ Len(t.at) >= Len(Root) /\ SubSeq(t.at, 1, Len(Root)) = Root
                   /\ t.state = "json" /\ t.node.kind = "object"
                   /\ says("$id", DocName(e.doc)) /\ says("version", VerText(e.ver))
                   /\ \A ref \in Refs(t.node) : ref \in DocNames \cup {Dialect}
  BY <1>1 DEF Sound
<1> HIDE DEF t, e, says
<1>7. QED
  BY <1>2, <1>5, <1>6, PolicyMeaning, WithinMeaning DEF t, e

-----------------------------------------------------------------------------
(***************************************************************************)
(* The tests are made in order, and only files inside the root are read.   *)
(***************************************************************************)
Underway == test \in {"policy", "resolve", "contain", "open", "read"}

\* A file is read only after the containment test, made against the root
\* whenever the root was resolved.
OpenedInside == \A k \in opened : RootResolved(k) => Within(Root, TargetOf(k).at)

LEMMA ShapeStays ==
  ASSUME Shape, UNCHANGED <<catalog, disk>>
  PROVE  Shape' /\ (\A k : TargetOf(k)' = TargetOf(k))
BY DEF Shape, TargetOf

LEMMA CurrentEntry ==
  ASSUME Shape, TestsInOrder, Underway
  PROVE  /\ i \in DOMAIN catalog.entries /\ i \in Nat
         /\ Len(catalog.entries) \in Nat
         /\ Current = catalog.entries[i] /\ Target = TargetOf(i)
         /\ Target \in Targets /\ Target.at \in Seq(STRING)
<1>1. i \in 1..Len(catalog.entries) /\ Len(catalog.entries) \in Nat
  BY Entries DEF TestsInOrder, Underway
<1>2. i \in DOMAIN catalog.entries
  BY <1>1, Entries
<1>3. Target \in Targets
  BY <1>2 DEF Shape, Target, TargetOf, Current
<1>4. QED
  BY <1>1, <1>2, <1>3, TargetsAssumption DEF Target, TargetOf, Current

\* What every step but the exception does: it may report on the current
\* entry, calls may fail in it, and it goes to the next test or the next entry.
StepAt(codes, calls) ==
  /\ UNCHANGED <<catalog, disk>>
  /\ diags' = diags \cup {Diagnostic(c, i) : c \in codes}
  /\ failed' = failed \cup {[entry |-> i, call |-> c] : c \in calls}

LEMMA PastStays ==
  ASSUME Shape, TestsInOrder, Underway, NEW n, n = i, NEW codes, NEW calls, StepAt(codes, calls)
  PROVE  /\ \A k \in 1..(i - 1) : /\ RootResolved(k)' <=> RootResolved(k)
                                  /\ Reported(k)' <=> Reported(k)
         /\ RootResolved(n)' <=> RootResolved(n) /\ "root" \notin calls
         /\ failed \subseteq failed'
         /\ \A d \in diags' : d.at \in 1..i
         /\ \A f \in failed' : f.entry \in 1..i
         /\ codes = {} => \A d \in diags' : d.at \in 1..(i - 1)
         /\ Reported(n)' <=> codes # {}
<1>1. i \in Nat \ {0} /\ (\A d \in diags : d.at \in 1..(i - 1)) /\ (\A f \in failed : f.entry \in 1..i)
  BY CurrentEntry DEF TestsInOrder
<1>2. /\ diags' = diags \cup {Diagnostic(c, i) : c \in codes}
      /\ failed' = failed \cup {[entry |-> i, call |-> c] : c \in calls}
  BY DEF StepAt
<1>3. \A c : Diagnostic(c, i).at = i
  BY DEF Diagnostic
<1>4. \A d \in diags' : d \in diags \/ d.at = i
  BY <1>2, <1>3
<1>5. \A f \in failed' : f \in failed \/ (f.entry = i /\ f.call \in calls)
  BY <1>2
<1>6. codes # {} => \E d \in diags' : d.at = i
  BY <1>2, <1>3
<1>7. codes = {} => diags' = diags
  BY <1>2
<1>8. \A c \in calls : [entry |-> i, call |-> c] \in failed'
  BY <1>2
<1>9. failed \subseteq failed' /\ diags \subseteq diags'
  BY <1>2
<1>10. ASSUME NEW k \in 1..(i - 1)
       PROVE  (RootResolved(k)' <=> RootResolved(k)) /\ (Reported(k)' <=> Reported(k))
  <2>1. k # i
    BY <1>1
  <2>2. [entry |-> k, call |-> "root"] \in failed' => [entry |-> k, call |-> "root"] \in failed
    BY <1>5, <2>1
  <2>3. QED
    BY <1>4, <1>9, <2>1, <2>2 DEF RootResolved, Reported
<1>11. RootResolved(n)' <=> RootResolved(n) /\ "root" \notin calls
  <2>1. [entry |-> n, call |-> "root"] \in failed' =>
          [entry |-> n, call |-> "root"] \in failed \/ "root" \in calls
    BY <1>2
  <2>2. QED
    BY <1>8, <1>9, <2>1 DEF RootResolved
<1>12. QED
  BY <1>1, <1>4, <1>5, <1>6, <1>7, <1>9, <1>10, <1>11 DEF Reported

\* The steps after which the entry is done with.
LEMMA EntryOverInOrder ==
  ASSUME Shape, TestsInOrder, Underway, NEW codes, NEW calls, StepAt(codes, calls), Continue,
         UNCHANGED opened
  PROVE  TestsInOrder'
<1> DEFINE n == Len(catalog.entries)
<1>1. i \in 1..n /\ n \in Nat /\ catalog' = catalog
  BY CurrentEntry, Entries DEF StepAt
<1>2. i' = i + 1 /\ test' = IF i = n THEN "done" ELSE "policy"
  BY DEF Continue
<1>3. Len(catalog.entries)' = n
  BY <1>1
<1> HIDE DEF n
<1>4. test' \in {"policy", "done"} /\ i' \in 1..(n + 1) /\ (test' = "done" <=> i' = n + 1)
  BY <1>1, <1>2
<1>5. (\A d \in diags' : d.at \in 1..i) /\ (\A f \in failed' : f.entry \in 1..i)
  BY PastStays
<1>6. \A d \in diags' : d.at \in 1..(i' - 1)
  BY <1>1, <1>2, <1>5
<1>7. \A f \in failed' : f.entry \in 1..i' /\ f.entry # i'
  BY <1>1, <1>2, <1>5
<1>8. \A k \in opened' : k \in 1..i' /\ k # i'
  <2>1. \A k \in opened : k \in 1..i
    BY DEF TestsInOrder
  <2>2. QED
    BY <1>1, <1>2, <2>1
<1>9. QED
  BY <1>3, <1>4, <1>6, <1>7, <1>8 DEF TestsInOrder

\* The steps that go on to the next test of the same entry.
LEMMA EntryGoesOnInOrder ==
  ASSUME Shape, TestsInOrder, Underway, NEW n, n = i, NEW calls, StepAt({}, calls), UNCHANGED i,
         test' \in {"resolve", "contain", "open", "read"},
         \A f \in failed' : f.entry = n => test' # "resolve",
         \A k \in opened' : k \in 1..n /\ (k = n => test' = "read"),
         PolicyCodes(Current.path) = {},
         test' # "resolve" => /\ full_canon' = Target.at
                            /\ root_canon' = IF RootResolved(n)' THEN Root ELSE <<>>,
         test' \in {"open", "read"} => Within(root_canon', full_canon'),
         test' = "read" => Target.state # "missing"
  PROVE  TestsInOrder'
<1>1. /\ n \in 1..Len(catalog.entries) /\ Len(catalog.entries) \in Nat
      /\ catalog' = catalog /\ disk' = disk /\ i' = n
  BY CurrentEntry, Entries DEF StepAt
<1>2. Current' = Current /\ Target' = Target
  BY <1>1 DEF Current, Target
<1>3. PolicyCodes(Current.path)' = {}
  BY <1>2 DEF PolicyCodes, IsAbsolutePath, HasTraversal
<1>4. (\A d \in diags' : d.at \in 1..(n - 1)) /\ (\A f \in failed' : f.entry \in 1..n)
  BY PastStays
<1>5. RootResolved(i)' <=> RootResolved(n)'
  BY <1>1 DEF RootResolved
<1>6. Within(root_canon, full_canon)' <=> Within(root_canon', full_canon')
  BY DEF Within
<1>7. QED
  BY <1>1, <1>2, <1>3, <1>4, <1>5, <1>6 DEF TestsInOrder

LEMMA InitInOrder ==
  ASSUME FilesInit
  PROVE  Shape /\ TestsInOrder /\ OpenedInside
<1>1. Shape
  <2>1. catalog \in Catalog
    BY CatalogsAssumption DEF FilesInit
  <2>2. \A k \in DOMAIN catalog.entries : TargetOf(k) \in Targets
    BY DEF FilesInit, TargetOf
  <2>3. QED
    BY <2>1, <2>2 DEF Shape
<1>2. /\ Len(catalog.entries) \in Nat
      /\ catalog.entries = <<>> <=> Len(catalog.entries) = 0
  BY <1>1, Entries, EmptySeq
<1>3. i = 1 /\ test = (IF catalog.entries = <<>> THEN "done" ELSE "policy")
      /\ diags = {} /\ failed = {} /\ opened = {}
  BY DEF FilesInit
<1>4. i \in 1..(Len(catalog.entries) + 1) /\ (test = "done" <=> i = Len(catalog.entries) + 1)
  BY <1>2, <1>3
<1>5. TestsInOrder
  BY <1>3, <1>4 DEF TestsInOrder
<1>6. QED
  BY <1>1, <1>3, <1>5 DEF OpenedInside

LEMMA OrderStep ==
  ASSUME Shape, TestsInOrder, FilesNext
  PROVE  TestsInOrder'
<1> DEFINE n == i
<1>1. CASE CheckPolicy
  <2>1. Underway /\ StepAt(PolicyCodes(Current.path), {}) /\ UNCHANGED <<opened, failed>>
    BY <1>1 DEF CheckPolicy, ReportCodes, StepAt, Underway
  <2>2. CASE PolicyCodes(Current.path) = {}
    <3>1. test' = "resolve" /\ i' = i /\ test = "policy"
      BY <1>1, <2>2 DEF CheckPolicy
    <3>2. StepAt({}, {})
      BY <2>1, <2>2
    <3>3. (\A f \in failed' : f.entry # n) /\ (\A k \in opened' : k \in 1..n /\ k # n)
      BY <2>1, <3>1 DEF TestsInOrder
    <3>4. QED
      BY <2>1, <2>2, <3>1, <3>2, <3>3, EntryGoesOnInOrder
  <2>3. CASE PolicyCodes(Current.path) # {}
    <3>1. Continue
      BY <1>1, <2>3 DEF CheckPolicy
    <3>2. QED
      BY <2>1, <3>1, EntryOverInOrder
  <2>4. QED
    BY <2>2, <2>3
<1>2. CASE Resolve
  <2>1. PICK rootOk \in BOOLEAN, targetOk \in BOOLEAN :
          /\ root_canon' = IF rootOk THEN Root ELSE <<>>
          /\ full_canon' = IF targetOk THEN Target.at ELSE <<>>
          /\ ReportCodes(IF targetOk THEN {} ELSE {"path-traversal"})
          /\ Failing((IF rootOk THEN {} ELSE {"root"}) \cup (IF targetOk THEN {} ELSE {"target"}))
          /\ IF targetOk THEN test' = "contain" /\ UNCHANGED i ELSE Continue
    BY <1>2 DEF Resolve, Outcomes
  <2> DEFINE codes == IF targetOk THEN {} ELSE {"path-traversal"}
             calls == (IF rootOk THEN {} ELSE {"root"}) \cup (IF targetOk THEN {} ELSE {"target"})
  <2>2. test = "resolve" /\ Underway /\ UNCHANGED <<catalog, disk, opened>>
    BY <1>2 DEF Resolve, Underway
  <2>3. StepAt(codes, calls)
    BY <2>1, <2>2 DEF StepAt, ReportCodes, Failing
  <2>4. "root" \in calls <=> ~rootOk
    OBVIOUS
  <2>5. CASE targetOk
    <3>1. StepAt({}, calls) /\ test' = "contain" /\ i' = i /\ full_canon' = Target.at
      BY <2>1, <2>3, <2>5
    <3> HIDE DEF codes, calls
    <3>2. (\A f \in failed : f.entry # n) /\ (\A k \in opened' : k \in 1..n /\ k # n)
          /\ PolicyCodes(Current.path) = {}
      BY <2>2 DEF TestsInOrder
    <3>3. RootResolved(n)
      BY <3>2 DEF RootResolved
    <3>4. RootResolved(n)' <=> rootOk
      BY <2>2, <2>4, <3>1, <3>3, PastStays
    <3>5. QED
      BY <2>1, <2>2, <3>1, <3>2, <3>4, EntryGoesOnInOrder
  <2>6. CASE ~targetOk
    <3>1. Continue
      BY <2>1, <2>6
    <3> HIDE DEF codes, calls
    <3>2. QED
      BY <2>2, <2>3, <3>1, EntryOverInOrder
  <2>7. QED
    BY <2>1, <2>5, <2>6
<1>3. CASE Contain
  <2> DEFINE codes == IF Within(root_canon, full_canon) THEN {} ELSE {"path-traversal"}
  <2>1. /\ test = "contain" /\ Underway /\ StepAt(codes, {})
        /\ UNCHANGED <<root_canon, full_canon, opened, failed>>
    BY <1>3 DEF Contain, ReportCodes, StepAt, Underway
  <2>2. CASE Within(root_canon, full_canon)
    <3>1. test' = "open" /\ i' = i /\ StepAt({}, {})
      BY <1>3, <2>1, <2>2 DEF Contain
    <3> HIDE DEF codes
    <3>2. (\A k \in opened' : k \in 1..n /\ k # n) /\ PolicyCodes(Current.path) = {}
          /\ full_canon = Target.at /\ root_canon = (IF RootResolved(n) THEN Root ELSE <<>>)
      BY <2>1 DEF TestsInOrder
    <3>3. RootResolved(n)' <=> RootResolved(n)
      BY <2>1, <3>1, PastStays
    <3>4. QED
      BY <2>1, <2>2, <3>1, <3>2, <3>3, EntryGoesOnInOrder
  <2>3. CASE ~Within(root_canon, full_canon)
    <3>1. Continue
      BY <1>3, <2>3 DEF Contain
    <3> HIDE DEF codes
    <3>2. QED
      BY <2>1, <3>1, EntryOverInOrder
  <2>4. QED
    BY <2>2, <2>3
<1>4. CASE Throw
  <2>1. /\ test = "open" /\ test' = "threw" /\ diags' = {}
        /\ failed' = failed \cup {[entry |-> i, call |-> c] : c \in {"exists"}}
        /\ UNCHANGED <<catalog, disk, i, opened>>
    BY <1>4 DEF Throw, Failing
  <2>2. /\ i \in 1..(Len(catalog.entries) + 1) /\ i # Len(catalog.entries) + 1 /\ i \in Nat \ {0}
        /\ (\A f \in failed : f.entry \in 1..i) /\ (\A k \in opened : k \in 1..i /\ k # i)
    BY <2>1, Entries DEF TestsInOrder
  <2>3. \A f \in failed' : f.entry \in 1..i
    BY <2>1, <2>2
  <2>4. QED
    BY <2>1, <2>2, <2>3 DEF TestsInOrder
<1>5. CASE Open
  <2>1. PICK openOk \in BOOLEAN :
          LET readable == Target.state # "missing" /\ openOk
          IN  /\ ReportCodes(IF readable THEN {} ELSE {"missing-schema-file"})
              /\ opened' = IF readable THEN opened \cup {i} ELSE opened
              /\ Failing(IF openOk THEN {} ELSE {"open"})
              /\ IF readable THEN test' = "read" /\ UNCHANGED i ELSE Continue
    BY <1>5 DEF Open, Outcomes
  <2> DEFINE readable == Target.state # "missing" /\ openOk
             calls == IF openOk THEN {} ELSE {"open"}
             codes == IF readable THEN {} ELSE {"missing-schema-file"}
  <2>2. test = "open" /\ Underway /\ UNCHANGED <<catalog, disk, root_canon, full_canon>>
    BY <1>5 DEF Open, Underway
  <2>3. StepAt(codes, calls)
    BY <2>1, <2>2 DEF StepAt, ReportCodes, Failing
  <2>4. "root" \notin calls
    OBVIOUS
  <2>5. CASE readable
    <3>1. /\ StepAt({}, calls) /\ test' = "read" /\ i' = i /\ opened' = opened \cup {i}
          /\ Target.state # "missing"
      BY <2>1, <2>3, <2>5
    <3> HIDE DEF codes, calls, readable
    <3>2. (\A k \in opened : k \in 1..n) /\ PolicyCodes(Current.path) = {} /\ n \in 1..n
          /\ full_canon = Target.at /\ root_canon = (IF RootResolved(n) THEN Root ELSE <<>>)
          /\ Within(root_canon, full_canon)
      BY <2>2, CurrentEntry DEF TestsInOrder
    <3>3. RootResolved(n)' <=> RootResolved(n)
      BY <2>2, <2>4, <3>1, PastStays
    <3>4. \A k \in opened' : k \in 1..n
      BY <3>1, <3>2
    <3>5. QED
      BY <2>2, <3>1, <3>2, <3>3, <3>4, EntryGoesOnInOrder
  <2>6. CASE ~readable
    <3>1. Continue /\ opened' = opened
      BY <2>1, <2>6
    <3> HIDE DEF codes, calls, readable
    <3>2. QED
      BY <2>2, <2>3, <3>1, EntryOverInOrder
  <2>7. QED
    BY <2>1, <2>5, <2>6
<1>6. CASE ReadFile
  <2> DEFINE codes == IF Target.state = "malformed" THEN {"malformed-catalog-json"}
                      ELSE NodeCodes(Target.node)
  <2>1. Underway /\ StepAt(codes, {}) /\ Continue /\ UNCHANGED opened
    BY <1>6 DEF ReadFile, ReportCodes, StepAt, Underway
  <2> HIDE DEF codes
  <2>2. QED
    BY <2>1, EntryOverInOrder
<1>7. QED
  BY <1>1, <1>2, <1>3, <1>4, <1>5, <1>6 DEF FilesNext

LEMMA InsideStep ==
  ASSUME Shape, TestsInOrder, OpenedInside, FilesNext
  PROVE  OpenedInside'
<1>1. UNCHANGED <<catalog, disk>> /\ failed \subseteq failed'
  BY DEF FilesNext, CheckPolicy, Resolve, Contain, Throw, Open, ReadFile, Failing
<1>2. \A k : TargetOf(k)' = TargetOf(k)
  BY <1>1, ShapeStays
<1>3. ASSUME NEW k \in opened', RootResolved(k)'
      PROVE  Within(Root, TargetOf(k).at)
  <2>1. RootResolved(k)
    BY <1>1, <1>3 DEF RootResolved
  <2>2. CASE k \in opened
    BY <2>1, <2>2 DEF OpenedInside
  <2>3. CASE k \notin opened
    <3>1. Open /\ k = i
      BY <1>3, <2>3 DEF FilesNext, CheckPolicy, Resolve, Contain, Throw, Open, ReadFile
    <3>2. test = "open"
      BY <3>1 DEF Open
    <3>3. Within(root_canon, full_canon) /\ full_canon = Target.at /\ root_canon = Root
      BY <2>1, <3>1, <3>2 DEF TestsInOrder
    <3>4. Target = TargetOf(k)
      BY <3>1 DEF Target, TargetOf, Current
    <3>5. QED
      BY <3>3, <3>4
  <2>4. QED
    BY <2>2, <2>3
<1>4. QED
  BY <1>2, <1>3 DEF OpenedInside, Within

\* The tests are made in the order of the code, and the entries before the
\* current one are done with (validate_catalog_files).
THEOREM TestsInOrderHolds == FilesSpec => [](Shape /\ TestsInOrder /\ OpenedInside)
<1>1. FilesInit => Shape /\ TestsInOrder /\ OpenedInside
  BY InitInOrder
<1>2. Shape /\ TestsInOrder /\ OpenedInside /\ [FilesNext]_files
      => (Shape /\ TestsInOrder /\ OpenedInside)'
  <2> SUFFICES ASSUME Shape, TestsInOrder, OpenedInside, [FilesNext]_files
               PROVE  (Shape /\ TestsInOrder /\ OpenedInside)'
    OBVIOUS
  <2>1. CASE FilesNext
    <3>1. UNCHANGED <<catalog, disk>>
      BY <2>1 DEF FilesNext, CheckPolicy, Resolve, Contain, Throw, Open, ReadFile
    <3>2. QED
      BY <2>1, <3>1, ShapeStays, OrderStep, InsideStep
  <2>2. CASE UNCHANGED files
    BY <2>2 DEF files, Shape, TestsInOrder, OpenedInside, TargetOf, RootResolved, Within,
                Current, Target, PolicyCodes, IsAbsolutePath, HasTraversal
  <2>3. QED
    BY <2>1, <2>2
<1>3. QED
  BY <1>1, <1>2, PTL DEF FilesSpec

\* No file that lies outside the repository is read, wherever the links lead
\* and whichever calls fail, provided the root was resolved (the containment
\* test by path components in validate_catalog_files).
THEOREM LinksOutsideAreNotReadHolds == FilesSpec => []LinksOutsideAreNotRead
<1>1. Shape /\ TestsInOrder /\ OpenedInside => LinksOutsideAreNotRead
  <2> SUFFICES ASSUME Shape, TestsInOrder, OpenedInside, NEW k \in opened, RootResolved(k)
               PROVE  Len(TargetOf(k).at) >= Len(Root) /\ SubSeq(TargetOf(k).at, 1, Len(Root)) = Root
    BY DEF LinksOutsideAreNotRead
  <2>1. i \in Nat /\ (test = "read" => i \in 1..Len(catalog.entries)) /\ k \in 1..i /\ (k = i => test = "read")
        /\ i \in 1..(Len(catalog.entries) + 1)
    BY Entries DEF TestsInOrder
  <2>2. k \in DOMAIN catalog.entries
    BY <2>1, Entries
  <2>3. TargetOf(k).at \in Seq(STRING)
    BY <2>2, TargetsAssumption DEF Shape
  <2>4. Within(Root, TargetOf(k).at)
    BY DEF OpenedInside
  <2>5. QED
    BY <2>3, <2>4, WithinMeaning
<1>2. QED
  BY <1>1, TestsInOrderHolds, PTL

-----------------------------------------------------------------------------
(***************************************************************************)
(* Every entry that is done with has its verdict. The strings that         *)
(* collect_refs finds are those that are there: it is recursive over the   *)
(* JSON value, so that is a hypothesis.                                    *)
(***************************************************************************)
Verdict(k) ==
  /\ RootResolved(k) => Sound(k) \/ Reported(k)
  /\ failed = {} => (Reported(k) => ~Sound(k))

Verdicts == test # "threw" => \A k \in 1..(i - 1) : Verdict(k)

LEMMA SoundStays ==
  ASSUME UNCHANGED <<catalog, disk>>, NEW k
  PROVE  Sound(k)' <=> Sound(k)
BY DEF Sound, TargetOf, DocNames

\* An entry is done with: what the step reports on it is right.
LEMMA EntryOver ==
  ASSUME Shape, TestsInOrder, Verdicts, Underway, NEW n, n = i, NEW codes, NEW calls,
         StepAt(codes, calls), Continue,
         RootResolved(n) /\ "root" \notin calls /\ codes = {} => Sound(n),
         failed' = {} /\ codes # {} => ~Sound(n)
  PROVE  Verdicts'
<1>1. UNCHANGED <<catalog, disk>> /\ i' = i + 1 /\ i \in Nat \ {0}
  BY CurrentEntry DEF StepAt, Continue, TestsInOrder
<1>2. \A k : Sound(k)' <=> Sound(k)
  BY <1>1, SoundStays
<1>3. /\ \A k \in 1..(i - 1) : (RootResolved(k)' <=> RootResolved(k)) /\ (Reported(k)' <=> Reported(k))
      /\ RootResolved(n)' <=> RootResolved(n) /\ "root" \notin calls
      /\ Reported(n)' <=> codes # {}
      /\ failed \subseteq failed'
  BY PastStays
<1>4. \A k \in 1..(i - 1) : Verdict(k)
  BY DEF Verdicts, Underway
<1>5. \A k \in 1..(i - 1) : Verdict(k)'
  BY <1>2, <1>3, <1>4 DEF Verdict
<1>6. Verdict(n)'
  BY <1>2, <1>3 DEF Verdict
<1>7. \A k \in 1..(i' - 1) : k \in 1..(i - 1) \/ k = n
  BY <1>1
<1>8. QED
  BY <1>5, <1>6, <1>7 DEF Verdicts

\* The next test of the same entry: nothing is reported.
LEMMA EntryGoesOn ==
  ASSUME Shape, TestsInOrder, Verdicts, Underway, NEW calls, StepAt({}, calls), UNCHANGED i
  PROVE  Verdicts'
<1>1. UNCHANGED <<catalog, disk>>
  BY DEF StepAt
<1>2. \A k : Sound(k)' <=> Sound(k)
  BY <1>1, SoundStays
<1>3. /\ \A k \in 1..(i - 1) : (RootResolved(k)' <=> RootResolved(k)) /\ (Reported(k)' <=> Reported(k))
      /\ failed \subseteq failed'
  BY PastStays
<1>4. \A k \in 1..(i - 1) : Verdict(k)
  BY DEF Verdicts, Underway
<1>5. \A k \in 1..(i - 1) : Verdict(k)'
  BY <1>2, <1>3, <1>4 DEF Verdict
<1>6. QED
  BY <1>5 DEF Verdicts

LEMMA VerdictStep ==
  ASSUME Shape, TestsInOrder, Verdicts, FilesNext, CollectIsExact
  PROVE  Verdicts'
<1> DEFINE n == i
<1> DEFINE Good == /\ PolicyCodes(Current.path) = {} /\ Within(Root, Target.at)
                   /\ Target.state = "json" /\ NodeCodes(Target.node) = {}
<1>0. Underway => (Sound(n) <=> Good)
  BY CurrentEntry, SoundMeaning
<1>1. CASE CheckPolicy
  <2>1. Underway /\ StepAt(PolicyCodes(Current.path), {})
    BY <1>1 DEF CheckPolicy, ReportCodes, StepAt, Underway
  <2>2. CASE PolicyCodes(Current.path) = {}
    <3>1. i' = i /\ StepAt({}, {})
      BY <1>1, <2>1, <2>2 DEF CheckPolicy
    <3>2. QED
      BY <2>1, <3>1, EntryGoesOn
  <2>3. CASE PolicyCodes(Current.path) # {}
    <3>1. Continue /\ ~Sound(n)
      BY <1>0, <1>1, <2>1, <2>3 DEF CheckPolicy
    <3>2. QED
      BY <2>1, <2>3, <3>1, EntryOver
  <2>4. QED
    BY <2>2, <2>3
<1>2. CASE Resolve
  <2>1. PICK rootOk \in BOOLEAN, targetOk \in BOOLEAN :
          /\ ReportCodes(IF targetOk THEN {} ELSE {"path-traversal"})
          /\ Failing((IF rootOk THEN {} ELSE {"root"}) \cup (IF targetOk THEN {} ELSE {"target"}))
          /\ IF targetOk THEN test' = "contain" /\ UNCHANGED i ELSE Continue
    BY <1>2 DEF Resolve, Outcomes
  <2> DEFINE codes == IF targetOk THEN {} ELSE {"path-traversal"}
             calls == (IF rootOk THEN {} ELSE {"root"}) \cup (IF targetOk THEN {} ELSE {"target"})
  <2>2. Underway /\ UNCHANGED <<catalog, disk>>
    BY <1>2 DEF Resolve, Underway
  <2>3. StepAt(codes, calls)
    BY <2>1, <2>2 DEF StepAt, ReportCodes, Failing
  <2>4. /\ codes = {} <=> targetOk
        /\ ~targetOk => "target" \in calls
    OBVIOUS
  <2> HIDE DEF codes, calls
  <2>5. CASE targetOk
    <3>1. StepAt({}, calls) /\ i' = i
      BY <2>1, <2>3, <2>4, <2>5
    <3>2. QED
      BY <2>2, <3>1, EntryGoesOn
  <2>6. CASE ~targetOk
    <3>1. Continue /\ codes # {} /\ failed' # {}
      BY <2>1, <2>3, <2>4, <2>6 DEF StepAt
    <3>2. QED
      BY <2>2, <2>3, <3>1, EntryOver
  <2>7. QED
    BY <2>5, <2>6
<1>3. CASE Contain
  <2> DEFINE codes == IF Within(root_canon, full_canon) THEN {} ELSE {"path-traversal"}
  <2>1. test = "contain" /\ Underway /\ StepAt(codes, {})
    BY <1>3 DEF Contain, ReportCodes, StepAt, Underway
  <2>2. CASE Within(root_canon, full_canon)
    <3>1. i' = i /\ StepAt({}, {})
      BY <1>3, <2>1, <2>2 DEF Contain
    <3> HIDE DEF codes
    <3>2. QED
      BY <2>1, <3>1, EntryGoesOn
  <2>3. CASE ~Within(root_canon, full_canon)
    <3>1. Continue /\ codes # {}
      BY <1>3, <2>3 DEF Contain
    <3> HIDE DEF codes
    <3>2. full_canon = Target.at /\ root_canon = (IF RootResolved(n) THEN Root ELSE <<>>)
      BY <2>1 DEF TestsInOrder
    <3>3. failed' = {} => RootResolved(n)
      BY <2>1 DEF StepAt, RootResolved
    <3>4. failed' = {} => ~Sound(n)
      BY <1>0, <2>1, <2>3, <3>2, <3>3
    <3>5. QED
      BY <2>1, <3>1, <3>4, EntryOver
  <2>4. QED
    BY <2>2, <2>3
<1>4. CASE Throw
  BY <1>4 DEF Throw, Verdicts
<1>5. CASE Open
  <2>1. PICK openOk \in BOOLEAN :
          LET readable == Target.state # "missing" /\ openOk
          IN  /\ ReportCodes(IF readable THEN {} ELSE {"missing-schema-file"})
              /\ Failing(IF openOk THEN {} ELSE {"open"})
              /\ IF readable THEN test' = "read" /\ UNCHANGED i ELSE Continue
    BY <1>5 DEF Open, Outcomes
  <2> DEFINE readable == Target.state # "missing" /\ openOk
             calls == IF openOk THEN {} ELSE {"open"}
             codes == IF readable THEN {} ELSE {"missing-schema-file"}
  <2>2. Underway /\ UNCHANGED <<catalog, disk>>
    BY <1>5 DEF Open, Underway
  <2>3. StepAt(codes, calls)
    BY <2>1, <2>2 DEF StepAt, ReportCodes, Failing
  <2>4. /\ codes = {} <=> readable
        /\ ~openOk => "open" \in calls
    OBVIOUS
  <2>5. CASE readable
    <3>1. StepAt({}, calls) /\ i' = i
      BY <2>1, <2>3, <2>5
    <3> HIDE DEF codes, calls
    <3>2. QED
      BY <2>2, <3>1, EntryGoesOn
  <2>6. CASE ~readable
    <3>1. Continue /\ (Target.state = "missing" \/ ~openOk)
      BY <2>1, <2>6
    <3> HIDE DEF codes, calls, readable
    <3>2. ~openOk => failed' # {}
      BY <2>3, <2>4 DEF StepAt
    <3>3. Target.state = "missing" => ~Sound(n)
      BY <1>0, <2>2
    <3>4. QED
      BY <2>2, <2>3, <2>4, <2>6, <3>1, <3>2, <3>3, EntryOver
  <2>7. QED
    BY <2>5, <2>6
<1>6. CASE ReadFile
  <2> DEFINE codes == IF Target.state = "malformed" THEN {"malformed-catalog-json"}
                      ELSE NodeCodes(Target.node)
  <2>1. test = "read" /\ Underway /\ StepAt(codes, {}) /\ Continue
    BY <1>6 DEF ReadFile, ReportCodes, StepAt, Underway
  <2>2. /\ PolicyCodes(Current.path) = {} /\ Within(root_canon, full_canon) /\ full_canon = Target.at
        /\ root_canon = (IF RootResolved(n) THEN Root ELSE <<>>) /\ Target.state # "missing"
    BY <2>1 DEF TestsInOrder
  <2>3. Target.state \in {"json", "missing", "malformed"}
    BY <2>1, CurrentEntry, TargetsAssumption
  <2>4. codes = {} <=> Target.state = "json" /\ NodeCodes(Target.node) = {}
    BY <2>2, <2>3
  <2> HIDE DEF codes
  <2>5. RootResolved(n) => (Sound(n) <=> codes = {})
    BY <1>0, <2>1, <2>2, <2>4
  <2>6. failed' = {} => RootResolved(n)
    BY <2>1 DEF StepAt, RootResolved
  <2>7. QED
    BY <2>1, <2>5, <2>6, EntryOver
<1>7. QED
  BY <1>1, <1>2, <1>3, <1>4, <1>5, <1>6 DEF FilesNext

\* An entry that is done with is sound or reported, and if no call failed it
\* is not both (the tests of validate_catalog_files together).
THEOREM VerdictsHold == ASSUME CollectIsExact PROVE FilesSpec => []Verdicts
<1>1. FilesInit => Verdicts
  BY DEF FilesInit, Verdicts
<1>2. Shape /\ TestsInOrder /\ Verdicts /\ [FilesNext]_files => Verdicts'
  <2> SUFFICES ASSUME Shape, TestsInOrder, Verdicts, [FilesNext]_files
               PROVE  Verdicts'
    OBVIOUS
  <2>1. CASE UNCHANGED files
    <3>1. \A k : Sound(k)' <=> Sound(k)
      BY <2>1, SoundStays DEF files
    <3>2. QED
      BY <2>1, <3>1 DEF files, Verdicts, Verdict, RootResolved, Reported
  <2>2. QED
    BY <2>1, VerdictStep
<1>3. QED
  BY <1>1, <1>2, TestsInOrderHolds, PTL DEF FilesSpec

\* When the validation is over, every entry is done with.
LEMMA OverMeaning ==
  ASSUME Shape, TestsInOrder, NEW k \in DOMAIN catalog.entries, k < i \/ test = "done"
  PROVE  k \in 1..(i - 1)
<1>1. k \in 1..Len(catalog.entries) /\ i \in Nat /\ (test = "done" => i = Len(catalog.entries) + 1)
      /\ Len(catalog.entries) \in Nat
  BY Entries DEF TestsInOrder
<1>2. QED
  BY <1>1

\* An entry with a fault has a diagnostic of its own, whichever calls into the
\* file system fail but the one that resolves the root; when none fails, no
\* other entry has one (validate_catalog_files, its continue statements).
THEOREM FaultsAreReportedHolds == ASSUME CollectIsExact PROVE FilesSpec => []FaultsAreReported
<1>1. Shape /\ TestsInOrder /\ Verdicts => FaultsAreReported
  <2> SUFFICES ASSUME Shape, TestsInOrder, Verdicts
               PROVE  UnsoundEntriesAreReported /\ VerdictIsExact
    BY DEF FaultsAreReported
  <2>1. ASSUME test # "threw", NEW k \in DOMAIN catalog.entries, k < i \/ test = "done"
        PROVE  Verdict(k)
    BY <2>1, OverMeaning DEF Verdicts
  <2>2. UnsoundEntriesAreReported
    BY <2>1 DEF UnsoundEntriesAreReported, Verdict
  <2>3. ASSUME test = "done", failed = {}, NEW k \in DOMAIN catalog.entries
        PROVE  Reported(k) <=> ~Sound(k)
    BY <2>1, <2>3 DEF Verdict, RootResolved
  <2>4. QED
    BY <2>2, <2>3 DEF VerdictIsExact
<1>2. QED
  BY <1>1, TestsInOrderHolds, VerdictsHold, PTL

-----------------------------------------------------------------------------
(***************************************************************************)
(* The two validations together.                                           *)
(***************************************************************************)
LEMMA DocumentsAreUnique ==
  ASSUME Shape, DuplicateDiagnostics(catalog.entries) = {},
         NEW k \in DOMAIN catalog.entries, NEW m \in DOMAIN catalog.entries,
         DocName(catalog.entries[k].doc) = DocName(catalog.entries[m].doc)
  PROVE  k = m
<1> DEFINE es == catalog.entries
<1>1. es[k].doc = es[m].doc
  <2>1. \A d : DocName(d).doc = d
    BY DEF DocName
  <2>2. QED
    BY <2>1
<1>2. DOMAIN es \subseteq Nat
  BY Entries
<1>3. ASSUME NEW a \in DOMAIN es, NEW b \in DOMAIN es, es[a].doc = es[b].doc, a < b
      PROVE  FALSE
  <2>1. <<a, b>> \in Pairs(es)
    BY <1>3 DEF Pairs
  <2>2. Diagnostic("duplicate-document-id", <<a, b>>) \in DuplicateDiagnostics(es)
    BY <1>3, <2>1 DEF DuplicateDiagnostics
  <2>3. QED
    BY <2>2
<1>4. QED
  BY <1>1, <1>2, <1>3

\* When neither validation has anything to say, every reference in every file
\* names the dialect or exactly one entry, whose file is in the repository and
\* calls itself by that name (validate_catalog and validate_catalog_files).
THEOREM AcceptedRepositoryIsClosedHolds ==
  ASSUME CollectIsExact PROVE FilesSpec => []AcceptedRepositoryIsClosed
<1>1. Shape /\ TestsInOrder /\ Verdicts => AcceptedRepositoryIsClosed
  <2> DEFINE es == catalog.entries
  <2> SUFFICES ASSUME Shape, TestsInOrder, Verdicts, test = "done", diags = {},
                      \A k \in DOMAIN es : RootResolved(k),
                      DuplicateDiagnostics(es) = {},
                      NEW k \in DOMAIN es, NEW ref \in Refs(TargetOf(k).node) \ {Dialect}
               PROVE  \E m \in DOMAIN es :
                        /\ \A l \in DOMAIN es : DocName(es[l].doc) = ref <=> l = m
                        /\ Within(Root, TargetOf(m).at)
                        /\ Find(TargetOf(m).node, "$id") = {Str(ref)}
    BY DEF AcceptedRepositoryIsClosed
  <2>1. \A m \in DOMAIN es : Sound(m)
    BY OverMeaning DEF Verdicts, Verdict, Reported
  <2>2. PICK m \in DOMAIN es : ref = DocName(es[m].doc)
    <3>1. ref \in DocNames
      BY <2>1 DEF Sound
    <3>2. QED
      BY <3>1 DEF DocNames
  <2>3. \A l \in DOMAIN es : DocName(es[l].doc) = ref <=> l = m
    BY <2>2, DocumentsAreUnique
  <2>4. TargetOf(m) \in Targets
    BY DEF Shape
  <2>5. TargetOf(m).at \in Seq(STRING) /\ HasNoMemberTwice(TargetOf(m).node)
    BY <2>4, TargetsAssumption
  <2>6. Within(Root, TargetOf(m).at)
    BY <2>1, <2>5, WithinMeaning DEF Sound
  <2>7. /\ TargetOf(m).node.kind = "object"
        /\ \E x \in DOMAIN TargetOf(m).node.object :
             TargetOf(m).node.object[x] = [key |-> "$id", value |-> Str(ref)]
    BY <2>1, <2>2 DEF Sound
  <2>8. Find(TargetOf(m).node, "$id") = {Str(ref)}
    BY <2>5, <2>7, FindMeaning
  <2>9. QED
    BY <2>3, <2>6, <2>8
<1>2. QED
  BY <1>1, TestsInOrderHolds, VerdictsHold, PTL
=============================================================================
