# Choirloom: TLA+ models, checks and proofs

This directory models the portable core library of Choirloom (`core/score`, C++20)
and the developer harness that builds it (`dev.ps1`, `tools/dev/Dev.psm1`). The
library has four parts: exact musical time, persistent identities and revisions, the
schema foundation (versions, a catalog of schemas, compatibility, migration planning,
validation of the files of a catalog), and ScoreIR, the validated score document. It
is sequential: no threads, no callbacks into the caller. What is hard to get right is

* a hand-written recursive search with shared state (migration planning),
* three hand-written JSON readers, strict to the last comma,
* 128-bit arithmetic by hand and its limits (rational time),
* multi-pass validation that must report everything and accept nothing it should
  not (ScoreIR, the catalog loader, the catalog files),
* a file system whose calls fail one by one, and
* build directories that outlive the command that filled them (the harness).

The models follow the sources. Names in the modules are the names of the sources
wherever TLA+ allows it. `PROJECT.json` maps each definition to its lines.

## 1. Inventory

| Component | State | Operations | Talks to | Hard part | What makes it correct |
|---|---|---|---|---|---|
| `SchemaVersion` (`schema_foundation.h/.cpp`) | immutable triple | `from_string`, `to_string`, `<=>` | document ids, loader, inspection | two exception classes, unspecified evaluation order of the components, 32-bit limit | accepts exactly the printed forms; overflow is never called malformed |
| Catalog builder and catalog | `entries_`, `rules_`; an immutable sorted copy | `add_entry`, `add_rule`, `build` | client, loader | unstable sort, any insertion order | the valid catalog that can be built is unique; verdicts do not depend on the sort |
| Catalog queries | none (read the catalog) | `validate_catalog`, `lookup_schema`, `inspect_schema_version`, `schema_compatibility` | each other, planner | two registries of the same documents (ids as text, id and version pairs) | endpoints of valid rules resolve; failures are classified; each declared direction is answered with its kind |
| Migration planner | `visited`, `path_nodes`, `found`, the recursion of `dfs` | `plan_migration` | catalog queries | shared path with manual push and pop, cycles, pruning that must lose nothing | contract below; terminates; deterministic choice |
| Catalog loader | diagnostics, the builder | `SchemaCatalog::from_json` | JSON reader, builder | one bad element among good ones | a catalog exactly when nothing was reported, saying what the document says; every fault reported |
| Catalog files | diagnostics, the position in the catalog | `validate_catalog_files` | file system, JSON reader | three calls share one `error_code`; links; one file of several is bad | every unsound entry reported and no other; a repository that passes is closed under its references |
| JSON readers and writers (three: `schema_foundation.cpp`, `scoreir.cpp`, and for flat objects `entity_revision.cpp`) | position in the text, the call stack | parse, write, canonical sort | loader, catalog files, validator | recursion, duplicate keys, surrogate pairs, strict numbers | accepts what the grammar derives and nothing else; what is written is read back in one order |
| `RationalTime` (`rational_time.h`) | canonical pair `num_`, `den_` | construction, `+ - * /`, unary minus, `reciprocal`, `<=>` | ScoreIR | limbs, carries, `int64` minimum, early overflow | exact or refused; overflow only when the reduced result does not fit |
| `RationalTime` wire form (`rational_time.cpp`) | none | `to_canonical_json`, `from_canonical_json` | ScoreIR | asymmetric limits, exception classes | accepts exactly the printed forms |
| ScoreIR validator (`scoreir.h/.cpp`) | `all_ids`, diagnostics, canonical document | `validate_document` behind `from_json` and `validate_scoreir` | JSON reader, `EntityId`, `RationalTime` | two passes, forward references, variants, canonical rebuild | accepts what the contract describes; dangling references are reported in place; nothing is lost |
| Entity and revision identities (`entity_revision.h/.cpp`) | immutable | `from_bytes`, `from_string`, metadata from and to JSON, `compare_project_revisions` | ScoreIR | fields in any order, two constructors with the same rules, an order over an optional field | one text per identity; metadata survive saving; the comparison is a total order |
| Developer harness (`dev.ps1`, `tools/dev/Dev.psm1`) | build directories, shells with and without the MSVC environment, a local configuration file | configure, build, test, verify; remote setup and its readers | CMake, CTest, the compiler, the user | state left by earlier commands, failures half-way, rules written twice | a success is one fresh test; what setup saves every reader accepts |

The hazards this list leads to are in `PROJECT.json` under `hazards`, each at its
line, with the properties that cover it.

### Not modelled

* `to_double`, `to_string` of `RationalTime` and the hash functions: display and container
  helpers; no decision of the library depends on them. Hence "partly" for rational time.
* The wording and formatting of diagnostics and exceptions.
* How a platform resolves a path (`weakly_canonical`): the environment of `CatalogFiles`
  chooses where a path leads.
* The argument parsing of `dev.ps1`, the report of `doctor` and the remote probe: they
  print and change nothing. The verbs that throw `NotImplemented`. Hence "partly" for the
  harness.
* The JSON Schema documents under `schemas/` (`ScoreContract` says what the one for scores
  says), generated fixtures and test code.

## 2. Modules

```
SchemaVersion <- SchemaVersionText <- CatalogRegistry_proofs
SchemaVersion <- SchemaCatalog <-+- CatalogRegistry <- CatalogRegistry_proofs
                                 +- CatalogLoader <- CatalogRegistry_proofs
                                 +- CatalogFiles <- CatalogFiles_proofs
                                 +- MigrationProblem <-+- MigrationContract
                                                       +- MigrationPlanner <- MigrationPlanner_proofs
RationalTime <-+- TimeAccumulator <- RationalTime_proofs
               +- RationalWire <- WireDocument <- RationalTime_proofs
ScoreIR <- ScoreIRValidator <- ScoreIRValidator_proofs
           ScoreIRValidator           --implements-->  ScoreContract
JsonText <- JsonCharacters <-+
JsonReader <-+---------------+- JsonReader_proofs
             +- JsonDocument          --implements-->  JsonContract
Identity <----------------------------+
RevisionOrder <-+- RevisionHistory <--+
                +- RevisionMetadata <-+- Revisions_proofs
                   RevisionMetadata   --implements-->  MetadataContract
DevHarness <-+- DevHarness_proofs
RemoteSetup <-+
```

`MigrationPlanner` implements `MigrationContract` likewise. A module `MC...` instantiates
a component for TLC; definitions called `X_Something` are variants of `X` with a
plausible slip, kept to show which property notices it.

**SchemaVersion.** Texts are sequences over digits, the dot and one other
character. `FromString` returns the *set* of outcomes a build can show: the three
`parse_uint32_component` calls are arguments of one call, so when two of them
throw, either exception may come first. `MaxComponent` stands for the `uint32`
limit.

**SchemaCatalog.** Entries, rules, the builder's sort and the queries as
operators. `Build` is the set of arrangements `std::sort` may return, since equal
keys may end up in any order. Document ids are compared as texts when rules are
sorted (`"0.10.0"` before `"0.9.0"`) and component by component when versions are:
both orders are constants of the module. A SchemaId is a model value; a path is
what its policy looks at (rooted, backslash, segments).

**CatalogRegistry.** A client of the builder: `AddEntry`, `AddRule`, `BuildCatalog`
in any order, and again after more has been added. Queries are put to the catalog last built
(`built`) while the builder moves on.

**CatalogLoader.** `from_json` as a state machine over a document: `ReadRoot`,
`ReadHeader` with its early return, `OpenEntries`, one `ReadEntry` per element,
`OpenRules`, one `ReadRule` per element, `FinishLoad`. A step is one iteration,
with every diagnostic it pushes. The document is what the JSON reader returns:
shapes and texts. Where the text parser has several outcomes, so has the step.

**CatalogFiles.** `validate_catalog_files`, one entry after the other: `CheckPolicy`,
`Resolve`, `Contain`, `Open` (or `Throw`: `exists` is called in the form that throws),
`ReadFile`. The file system is the environment: `disk` says where a path leads, which
need not be where it points, and what is there; each call in `FailingCalls` may fail at
any time, and `failed` records which did. (The variables `test`, the test that is next, and `diags`,
`result.diagnostics`, are named apart from those of the loader, beside which TLC runs it.) A file is a JSON value in which only the
strings that matter are told apart. The strings under `$ref` in it are `CollectRefs`, an
operator constant: TLC gives it `collect_refs` of `MCCatalogFiles`, the recursive function of
the code, while the properties use `Refs`, a definition by closure. An object never has a
member twice (`TargetsAssumption`), since the reader refuses it.

**MigrationProblem, MigrationContract, MigrationPlanner.** The problem module says
what a chain of migrations is and when a document is reachable, by closed sets and
without any search. The contract is one step: a question is answered once, and the
answer keeps `Promise`. The planner is the code: three gates in their order
(`RefuseInvalidCatalog`, `NothingToMigrate`, `RefuseUnregistered`), then the lambda
`dfs`. Its recursion is the variable `frames`, one record per activation with the
position of its loop: `ReachTarget` and `Visit` are the two ways into an
activation, `SkipEdge` and `Descend` the two outcomes of the loop's test,
`Backtrack` the end of the loop with the caller's `pop_back`, `Unwind` the return
after success. The code copies the migration rules to a list of edges first; the
model walks the rules and skips the readable ones, which visits the same edges in
the same order.

**RationalTime, TimeAccumulator.** The arithmetic on limbs of `2 * HalfBits` bits (32
in the code gives `uint64`): half-limb products with their carries, 128-bit sums,
remainders by doubling, long division bit by bit, continued-fraction comparison.
Every operator wraps where the code wraps. The loops are recursive functions of their
state (`Euclid`, `Comparison`, the local ones of `mulmod64` and `div_u128_u64`), which lets
the prover reason about them. `TimeAccumulator` holds one time and
applies the compound operators; an operation that throws changes nothing.

**RationalWire, WireDocument.** The wire parser on a sequence of members with texts;
`wellFormed` is the verdict of the tokenizer on everything around them. `WireDocument` makes
the objects that are given to it.

**ScoreIR, ScoreIRValidator, ScoreContract.** `ScoreIR` holds the rules (which
diagnostics a header, an identity, an entity, an event variant gives rise to, and the
canonical document); the validator runs them in the order of the code, one collection
per step in each of the two passes. Diagnostics are kept as a set of code and place, `all_ids` as
a set of entries with the place of the entity (`Entry`), so that the same id twice is two entries. The
place of a diagnostic is the field it names, and the root where it names none (a malformed id);
positions in a role list and fields inside a pitch are not told apart. A rational time is one of seven verdicts (five of the parser, and the sign), a pitch one of
three. The contract says in one formula what a score is, by shapes and by references
between identities, without passes or diagnostics; `Tolerated` is the one latitude of
the code (the empty text, see below).

**JsonText.** The characters: string literals, the eight two-character escapes and `\u`, surrogate pairs,
UTF-8, number tokens. The three copies of these routines in the sources differ only in
their wording; the map points to one of them. `ReadPiece` is one pass of the loop of
`parse_string`. `JsonCharacters` puts the inputs to these routines, byte by byte and code unit by
code unit, and has the definitions they are compared with: the grammar of RFC 8259, UTF-16, UTF-8.

**JsonReader, JsonContract, JsonDocument.** `JsonParser` on tokens, with its recursion as
the variable `frames`: one record per container that is open, with what was read of it
and the key that waits for its value. `ParseScalar`, `ParseArray`, `ParseObject`,
`ParseKey`, `Separate`, `Close` are the branches of the loops, `Complete` and `Accept` the
test for trailing text, `Refuse` every throw. The contract is the grammar: it says which
values a whole text spells, by the ways to split it, with no position and no stack.
`JsonDocument` adds the writer (`canonical_sort`, `json_write`): what was accepted is
written, and the reader is started again on what was written. The writer recurses into a
value; its recursive functions are over `Value[n]`, the values nested at most `n` deep, where `n`
is the length of the text: a value lies less deep than the text it was read from is long, so the
bound is never met.

**Identity.** `Uuid128`: 16 bytes and a text of 36 characters, `from_bytes`,
`from_string`, `to_string`. The version is in byte 6 and the variant in byte 8; the text
has hyphens in between, so the same two nibbles are tested at shifted places.

**RevisionOrder, RevisionHistory.** `ProjectRevisionMetadata` as a value and
`compare_project_revisions`, field by field. Bytes are `0..ByteLimit`, identities
`IdLength` long, summaries of any length. The history is the environment: any revisions
in any order.

**RevisionMetadata, MetadataContract.** `from_json` scans one member per step
(`ScanMember`), then `Complete` (required fields, the end of the text) and `Build`
(`from_values`: identities, origin, summary, a parent that is not the revision itself);
`Refuse` is every throw, wherever it comes from. `Reopen` is `to_json` and a second
`from_json`. The contract looks at the members as a set.

**DevHarness.** The scoped commands as programs of each terminal: `EnsureToolchain`,
`Configure`, `EnsureToolchain` again, `BuildTarget`, `CountTests`, `RunTests`,
`CheckDispatch`, each of which may fail (`Fail`, `FailToConfigure`, `FailToBuild` with
what they leave behind). The state that outlives a command is the build directory: its
compiler cache, the tests registered in it, the binary, which remembers the version of
the sources it was built from. `Edit` changes the sources, and with them how many tests a
scope declares, at any time. CMake and CTest are external: they do what the commands
rely on.

**RemoteSetup.** The wizard, one question per step, up to `Write`; `Read` by the other commands;
`EditFile` by hand, one field at a time, starting from the example file if there is none. An
interruption may leave a truncated file. A text is whether it has blanks around it, and its kind:
what the patterns of the script tell apart (`Kinds`). The script has its rules twice, and so has the
model: `Taken` and `Valid` are the prompts, which fill in a default (`Given`), trim, and take a blank
answer to an optional question before the pattern is tried; `Readable` is the reader, which does
none of that. A rule changed on one side only is therefore seen, as the mutants show
(`Valid_AliasLikeHost`, `Valid_PortUnbounded`, `Readable_AliasRequired`).

## 3. Checks

`tlc -workers 2 -config X.cfg M`. Components that share no state are checked in one run
where that saves a configuration: a variable `subject`, or the state of one of them, keeps
the others where they begin, so their state spaces are added and not multiplied.

| Run | What it explores | What it shows |
|---|---|---|
| `catalog` (`MCCatalogRegistry`) | a client with up to 3 entries and 2 rules of a pool that collides in every way `validate_catalog` looks for, two families, versions whose numeric and textual orders disagree; catalog documents with every header fault, up to two entries and one rule (or the converse) from pools with each fault and with two at once; all texts to 7 characters over `0 1 . x` with the limit 10; the files of catalogs of two entries, refused paths and colliding ones, over a disk with sound and faulty files inside, outside and next to the repository, every call of which may fail. 193 118 states | `RebuildKeepsAnswers` (what a valid catalog answered, a later valid one answers too), `BuildIsDeterministic` (uniqueness of the valid build, diagnostics independent of the sort), `RuleEndpointsResolve`, `VersionsAreClassified` (lookup and inspection), `DeclaredKindIsAnswered`; `LoaderIsFaithful` (a catalog or diagnostics, never both or neither, and the catalog is the document), `EveryFaultIsReported`; `VersionTextsAreExact`; `FaultsAreReported` (the verdict, whatever fails, with the inductive part `TestsInOrder`), `LinksOutsideAreNotRead`, `AcceptedRepositoryIsClosed` (together with `validate_catalog`), termination of the validation of files. Three entries are the least with a duplicate that is not adjacent; seven characters hold two-digit components on both sides of the limit and a fault after an overflow; two entries with files are a reference forward, backward and to itself, and a fault followed by another |
| `planner` (`MCMigrationPlanner`) | three versions, each direction undeclared, readable, migration or both, the newest registered or not; and every migration graph on four versions; every question. 1 056 121 states | `IInv` (the inductive invariant of the proof), the contract, agreement with `schema_compatibility`, the plan is the first chain in rule order, termination. Four nodes are the least on which a dead end can be shared between two branches and a later branch still succeed |
| `rational_time` (`MCRationalTime`) | 6-bit integers, -32..31: every reachable value, all operands with extreme, coprime and composite parts; every object of up to two members, known or not, duplicated, swapped, with texts to 3 characters. 273 638 states | the class invariant (`TimeTypeOK`), `ArithmeticIsExact` against unbounded fractions, `ComparisonIsExact`, `WireFormIsExact`. With half limbs of 3 bits, every carry, the intermediate overflow and the reduction that rescues it occur; three characters hold `-32`, `-33`, `31`, `32` and a late bad character |
| `scoreir` (`MCScoreIRValidator`) | a complete score with all six collections and three event variants, every edit of it, and each of those with one more link edited. 438 146 states | `ValidatorInvariant` (`PassInvariant`: reported is what the rules say of the parts the passes have been over; references of accepted scores resolve, events are variants), dangling references are reported in place, the canonical form is lossless, refinement of `ScoreContract`. Two edits are what it takes to duplicate an identity and redirect a reference |
| `json_document` (`MCJsonDocument`) | every token text up to 4, and every edit of longer nested ones, read, written and read again; beside it every string up to 4 bytes, every number up to 6 characters, every pair of code units at the boundaries of UTF-16 and UTF-8. 160 965 states | `ReaderInvariant` (no member twice, depth is nesting), `NothingIsLost` (what was read is on the stack, what is written is read back), refinement of `JsonContract`, termination, `StringsAreExact`, `NumbersFollowTheGrammar` |
| `revisions` (`MCRevisions`) | every document of up to 4 members over good, bad, repeated and unknown fields, opened, saved and opened again; up to 3 revisions in any order; identities and texts with up to two changes at the limits of the bytes that are tested. 656 343 states | refinement of `MetadataContract`, `ScannerInvariant` (the fields are what the members scanned say, what was saved is never refused and comes back unchanged), termination, `ComparisonIsATotalOrder`, `IdentitiesHaveOneText`. Four members are all fields of a revision, or three and a repeated one |
| `dev_harness` (`MCDevHarness`) | two terminals with two commands each, one at a time, two edits, both compilers installed, failures at every step; beside an untouched scope the setup wizard with every answer, padded or not, edits of a field of its file and interruptions. 701 860 states | `ScopeInvariant` (a success is one test, built from sources no older than the command), `CompilesInItsEnvironment`, `CommandsEnd`, `SavedIsReadable`. Two commands are a failed one and the one that finds what it left |

`CHECK_DEADLOCK FALSE` is set everywhere because everything here ends: functions return,
texts reach their longest length, the client stops adding, the developer stops typing.
That nothing ends too early is a matter of the liveness properties.

### Disagreements with the documentation

Five runs expect TLC to refute a sentence of the documentation or of the code itself; the
counterexample is the shortest one.

* `catalog_loader_doc`, `CatalogAbsentOnlyIfRootUnusable`: the comment on `from_json`
  (`schema_foundation.h:318-319`) says the catalog is absent only when the root is unusable. One bad
  entry or rule in a document whose root, header and list of entries are in order is enough. The
  comment in the body (`schema_foundation.cpp:837`) and `docs/schema-foundation-notes.md:119-127` say
  what the code does, and that is the promise `LoaderIsFaithful` states; the comment in the header
  is out of date.
* `scoreir_doc`, `EveryTextIsChecked`: an entity whose `partRef`, `staffRef` or `measureRef`
  is the empty text is accepted, because a missing text and an empty one look alike after
  `need_string`, and so is a part of type `""`. `voiceRef` does not go that way and is safe. The
  contract that the run `scoreir` refines allows exactly these four (`Tolerated`), so no other
  reference that is empty gets through.
* `catalog_files_doc`, `ReadsStayInsideRoot`: when the root of the repository cannot be
  resolved, the error is overwritten by the next call, the containment loop compares no
  component, and a file outside is read. `LinksOutsideAreNotRead` shows that this is the
  only way.
* `dev_harness_shared`, `ReportedCountIsTrue`: with two terminals in one build directory, the
  count of the dry run is reported for a run that found no test. (With one command at a
  time, `ScopeInvariant` shows that it cannot happen.)
* `remote_setup_doc`, `IdentityIsOutside`: the refusal of an identity file inside the
  repository is thrown inside the `try` whose `catch` is meant for unresolvable paths, in
  the wizard and again in the reader; the file is saved and used.

Noticed on the way, without a run: both digit loops (versions and wire form) report an
overflow before they have seen a later bad character, although the documentation calls
every violation of the grammar an `invalid_argument`; `plan_migration(c, d, d)` returns a clean empty plan even when
`d` is not registered; a rule from a document to itself passes `validate_catalog` and can
never be an answer. The JSON readers recurse once per nesting level and limit it nowhere, in the
code as in the model: `ReaderInvariant` says how deep the recursion is, not how deep a stack reaches.

## 4. Fairness

* Planner, JSON reader and writer, score validator, metadata, catalog files: weak fairness of
  the next step of the function. They run on their caller's thread and wait for nothing, so
  it says no more than that a running function goes on running. Termination is then a
  property of the loops: on cyclic rule graphs, on texts that stop in the middle, after any
  failure of the file system.
* `DevHarness`: weak fairness of each terminal's steps: CMake, the compiler and CTest return,
  with success or without. Nothing makes anybody begin a command, edit, or answer the
  wizard.
* The builder's client, the arithmetic and the texts need none.

## 5. Refinements and proofs

A contract is a specification with one step and no algorithm. `INSTANCE Contract WITH
answer <- Answered` maps the state of the code to an answer (`pending` while the code is at
work), and `ImplementsContract` says that every behaviour of the code is one of the
contract: the answer appears once, is right, and is never withdrawn; where the contract is
fair, it appears. `MigrationContract` is proved and checked; of `ScoreContract` and
`MetadataContract` the safety part (`Safety`, all but fairness) is proved, their liveness checked;
`JsonContract` is checked.

`MigrationPlanner_proofs`, for every set of schema ids, versions and catalogs, of any size,
with no assumption but `CatalogsAssumption` (a question is about a catalog):

* `TypeCorrect`, `SearchInvariantHolds` and together `InductiveInvariantHolds`:
  `Spec => []IInv`.
* `GivesUpOnlyWhenClosedHolds`: when the stack is empty and nothing was found, the
  visited documents contain the source, not the target, and cannot be left.
* `AnswerKeepsPromiseHolds`: a plan is a chain of declared migrations from source to
  target that visits nothing twice; `missing-migration-edge` means that no chain of any
  length exists; a clean answer means a valid catalog with both ends registered.
* `ImplementsContractHolds`: the planner implements `MigrationContract`.
* `RequiresMigrationIsPlannableHolds`: where `schema_compatibility` says that a migration is
  required, there is a plan.
* `PlanIsFirstInRuleOrderHolds`: of all simple chains from source to target, the plan is the
  first in the order of the rules. Pruning by `visited` does not change the choice.

**The argument.** What the caller is promised is far from inductive: that pruning by
`visited` loses no path is true only because of what is on the stack. The invariant
says how stack, path and marks hang together while nothing is found: the path is the
stack without the source (`PathFollowsStack`); marks are set on entry, so only the
innermost activation can be unmarked (`MarkedOnEntry`); edges an activation's loop has
passed lead to marked nodes or to the one about to be entered (`PassedEdgesVisited`); and
a marked node that has left the stack leads to marked nodes only
(`ReturnedNodesClosed`). When an activation returns, its loop has passed all rules, so the
third part gives the fourth. When the stack is empty the marked nodes are closed, the
source is among them and the target is not, so by the definition of `Reachable` there is
no chain. The other direction is `PathIsDeclared`, `PathVisitsOnce` and
`PathReachesTarget`. The nodes on the stack are all different, so the recursion is at most
as deep as there are documents.

For the order of the choice, `OrderInvariant` says that every rule an activation has passed is a
dead end: no chain that starts as the path does, takes that rule next and visits nothing twice
reaches the target. A chain from a marked node that has left the stack would have to come back
to the stack, that is, to a document it has already visited. When the path is the plan, any
simple chain differs from it at a first place, where it takes a rule before the one on the path
(a dead end) or after it (later in the order). `RequiresMigrationIsPlannable` follows from the
contract: the rule that `schema_compatibility` found is itself a chain of one step.

Each part has one step per action; the actions that
change the stack (`Descend`, `Backtrack`) carry most of the proof. TLC checks the same
invariant in the run `planner`.

`CatalogRegistry_proofs`, for pools of entries and rules of any size and any number of
them (`PoolsAssumption`: entries and rules are well typed, the bounds are natural numbers):

* `TypeCorrect`: what the sort returns is a catalog again.
* `RuleEndpointsResolveHolds`: in a valid catalog, rules and lookups agree on the
  documents.
* `DeclaredKindIsAnsweredHolds`: `schema_compatibility` answers each declared direction
  of a valid catalog with its kind.
* `VersionsAreClassifiedHolds`: `lookup_schema` and `inspect_schema_version` agree, and tell an
  unknown family, a future version, a missing one and one out of range apart.
* `BuildIsDeterministicHolds`: whatever order the unstable sort leaves equal keys in, the
  diagnostic codes are the same, and at most one catalog is valid.
* `RebuildKeepsAnswersHolds` (`Spec => RebuildKeepsAnswers`): as long as the catalogs are valid, what
  an older one answered a newer one answers too, for any number of additions and rebuilds.

But for the last, no strengthening is needed here: the properties follow from the types and from what an
empty set of diagnostics says, one lemma for each diagnostic that matters (`ValidEntries`,
`ValidRules`, `ValidKinds`). A conflict between two rules is found at any distance because
`Pairs` compares all positions, and the first match exists because the natural numbers are
well-founded (`FirstExists`). The newest version is a recursive function of the entries; that it
is the maximum of the family is an induction (`MaxVersionIsNewest`). Two arrangements of one list are rearrangements of each other, by a
bijection of positions; every diagnostic speaks of positions one or two at a time, so the
bijection carries it over. In a valid catalog no keys are equal, and two strictly sorted
arrangements of one list are the same: the first place where they differ would be filled too
early in one of them. `RebuildKeepsAnswers` needs that the builder only grows: the catalog has nothing
that was not added (`AddedOnly`), so a later one has all its elements (`RebuiltAmong`); in a valid
catalog an element is the only one of its key, so the first match is the same one, wherever it now
stands (`FoundAmong`, `AnsweredAmong`).

The same module proves the loader, for every set of documents with any number of entries and rules
(`DocumentsAssumption`: a document has the shape the JSON reader gives it, and a version that is
read from a text in it is one of `Versions`):

* `CatalogOrDiagnosticsHolds`: `LoaderSpec => [](LoaderTypeOK /\ CatalogOrDiagnostics)`, whatever
  the parser of versions makes of the texts.
* `EveryFaultIsReportedHolds`: every faulty entry and rule is reported, and no other.
* `LoaderIsFaithfulHolds`: the catalog is the document.

The last two rest on the parser of versions (below): a text in the document is accepted as
the version it is the printed form of, and refused only if it is the printed form of none
(`TextIsExact`). The invariant is `HowFar`. By `ReadTo`, of the elements
the loops have been over the faulty ones and only they are reported, and as long as nothing is
reported the builder holds what they say, in order; a turn of a loop keeps it (`EntryRead`,
`RuleRead`), because an element has no problem exactly if it is sound (`EntryProblems`,
`RuleProblems`). At the end the builder holds the whole document, and the sort loses and invents
nothing (`BuiltSameElements`).

The same module proves the parser of versions, for texts of any length and every limit of a component
(`MaxComponentAssumption`: it is positive; `AlphabetAssumption`: a text has only characters the
model knows):

* `AcceptedIsPrinted`: what is accepted is a version, and the text is its printed form.
* `PrintedIsAccepted`: the printed form of every version is accepted, as that version.
* `VersionTextsAreExactHolds`: both, and nothing in the grammar is called malformed, whichever of
  several exceptions is seen.

The digit loop and the printing are recursive functions, so this needs induction. The induction
theorems of the library are about an operator; here an induction is about a set, the numbers
that have the property (`Induction`), and so is the existence of the recursive functions
(`RecursionExists`, which the prover uses after unfolding their definitions). `AccumulatedIsPrinted`
and `PrintedIsAccumulated` say that the loop and the printing are inverse on one component; the
loop never exceeds its last value, so the overflow test is exact. Then `SplitAtDots` takes a text
apart at its two dots, `ThreeParts` shows that what is printed is taken apart where it was joined.

`RationalTime_proofs`, for limbs of any width (`HalfBitsAssumption`: half a limb has at least one
bit; `OperandsAssumption`: the operands are canonical times) and any sequence of operations:

* `TimeIsCanonical` (`TimeSpec => []TimeTypeOK`): a positive denominator, in lowest terms, zero as
  0/1.
* `ArithmeticHolds`: every construction, sum, difference, product, quotient, opposite and
  reciprocal is exact, and `overflow_error` is thrown exactly if the reduced result has no
  representation.
* `ComparisonHolds`: `operator<=>` is the order of the rationals, and equality is that of the pairs.
* `WireFormHolds` (`WireSpec => []WireFormIsExact`): `from_canonical_json` accepts an object with
  string members exactly when it is, up to their order, what `to_canonical_json` prints of a
  canonical time, and returns that time; decimal numbers that do not fit, of whatever length, are
  `out_of_range`, and no exception of the constructor gets out. Here half a limb has at least three
  bits (`WireWidthAssumption`), so that the range has a two-digit number.

`TimeTypeOK` is inductive by itself; the work is in the operators. From the bottom up: one
limb and two (`MulExact`, `AddExact`, `SubExact`, `GeExact`: the four half-limb products with their
carries are the product, a difference that is not negative does not borrow); the remainder
(`MulmodExact`, `ModExact`) and the long division (`DivExact`), whose quotient and remainder after n
rounds are those of the number formed by the n highest bits. `gcd_u64` returns a common divisor
that is a combination of the two numbers (`GcdIsGcd`), and "no common factor" is stated by Bezout's
identity throughout, so that products and quotients of coprime numbers need no primes
(`CoprimeProduct`, `FactorOfProduct`). A fraction is representable exactly if its reduced form fits
(`RepresentableWhen`): if it has any representation, the reduced one divides it. Products:
cross-cancellation leaves a reduced pair (`CrossReduced`), so the two 128-bit products are checked,
not their factors. Sums: over the denominators divided by their common factor g, the numerator has
no factor in common with either reduced denominator (`NumeratorCoprime`), so g is all there is to
cancel: the two further cancellations in `finish_add_sub` find 1 whenever they are reached
(`NothingCancelled`). No intermediate value leaves two limbs (`SumFits`). The comparison is an
induction on the denominator: equal integer parts reduce it to the reciprocals of the remainders
(`ComparisonRecursion`).

That the recursive functions exist, with the values their recursion gives, is `RecursionExists`
again, here with all smaller arguments at hand, since Euclid's does not go down by one.

The wire form rests on two inductions over the length of a numeral: what is printed is read back,
the loop never leaving the limit on the way (`NumeralIsRead`), and a sequence of digits without a
leading zero that is read was printed (`ReadIsNumeral`); one turn of the loop
(`NextValueAccepts`) shows that its division tests exactly whether the next value is within the
limit. The signs and the two limits come on top (`NumberIsPrinted`, `PrintedNumberIsRead`, which
takes the most negative number too), then the two members in either order
(`CompleteIsWritten`), and `CanonicalIsKept`: the constructor has nothing to change in a pair that
passed `is_canonical_form`.

`ScoreIRValidator_proofs`, for documents of any size and whatever texts name their entities
(`DocumentsAssumption`: a document has the shape the JSON reader gives it, an array of nodes with
texts as members):

* `PassesHold`: `Spec => []PassInv`. After every step the ids registered, and the faults
  reported, are exactly those of the parts the two passes have been over.
* `ValidatorInvariantHolds`: in every document that is accepted each reference is owned by exactly
  one entity, of the right collection, and the events are of the documented variants.
* `EveryDanglingReferenceIsReportedHolds`: a reference that nothing answers to is reported at its
  place, whatever else is wrong.
* `CanonicalFormIsLosslessHolds`: the canonical document has every field of the accepted one.
* `ImplementsContractSafely`: `Spec => Contract!Safety`. The passes accept exactly what
  `ScoreContract` calls well-formed.

The invariant is `PassInvariant`: `all_ids` is `IdentitiesUpTo` and `diags` is `ProblemsUpTo` the
collection the pass has reached. It follows that the final diagnostics are `Problems(document)`,
a definition without passes; the rest compares definitions. For each rule one lemma says when it
has nothing to report (`TimeProblemsEmpty`, `PitchProblemsEmpty`, ...) and one that this is what
the contract says of that kind of entity (`MeasuresAgree`, `NoteAgrees`, ...); `RulesAgree` puts them
together. That no id is registered twice (`DistinctMeaning`) turns "something answers to it"
into "exactly one entity owns it" (`OwnedOnce`).

`Revisions_proofs`, for identities and summaries of any length over any bytes
(`IdAssumption`: an identity has at least one byte; `RevisionsAssumption`: what comes are
revisions):

* `RevisionsAreAntisymmetric`, `EqualRevisionsAreIdentical`, `RevisionsAreTransitive`: the
  comparison is a total order that agrees with equality.
* `HistoryIsOrdered`: `HistorySpec => []ComparisonIsATotalOrder`, whatever revisions come and in
  whatever order.

Bytes and characters are both treated as functions on the natural numbers with a first
place where they differ; the laws of such a comparison are proved once (`FirstEqual`,
`FirstOpposite`, `FirstTransitive`), carried over to identities and to summaries, of which
one may be the beginning of the other, and combined field by field by cases. An absent
parent is before every present one.

The same module, for objects with any number of members in any order, and summaries of
any length (`DocumentsAssumption`: the text of each member is one that the parser of that field
is given; `IdAssumption`: an identity has at least one byte):

* `ScannerInvariantHolds`: `Spec => []ScannerInvariant`. A revision that is saved and opened
  again is never refused, and every field of it is what it was.
* `ImplementsContractSafely`: `Spec => Contract!Safety`. The scanner accepts a document exactly
  if it has a meaning, with the one meaning it has.

The contract looks at the members as a set, the scanner at one after the other. They meet in
`FieldsAreScanned` and `FieldsHaveMembers`: the fields hold what the members before the position
say, each of them known, a string, and there once. When the position is past the end this is a
statement about the whole object, and what is built of the fields is its one meaning
(`CompleteMeaning`); where the scan stops before, the member at the position, the missing field or
the value that is refused leaves it without one (`IncompleteMeaning`). For the second reading the
invariant carries along that the document is `to_json` of a valid revision (`SavedIsWritten`);
its members are different, known and complete, so no guard of `Refuse` can hold (`WrittenIsTaken`,
`WrittenIsBuilt`) and the values come back (`WrittenMeaning`).

And for any sixteen bytes and any text, of whatever length and characters (`EditsAssumption`: what
is put into an identity is a byte):

* `IdentitiesHaveOneTextHolds`: `IdentitySpec => []IdentitiesHaveOneText`. A text that is accepted
  is what `to_string` writes for the bytes it stands for, and `from_bytes` and `from_string` admit
  the same identities.

`to_string` is a recursive function; a function of places (`PrefixOf`) satisfies its recursion and
every solution agrees with it after each of the sixteen rounds (`RoundsGivePrefixes`). With the
characters at their places, writing and reading undo each other (`WrittenIsWireText`,
`WireTextIsWritten`).

`CatalogFiles_proofs`, for catalogs and repositories of any size, whatever the files say, wherever
links lead and whichever calls fail at whatever time (`CatalogsAssumption`, `RootAssumption`,
`TargetsAssumption`: the catalogs are catalogs, the root has components, a file holds what the
JSON reader accepts):

* `TestsInOrderHolds`: the invariant below.
* `LinksOutsideAreNotReadHolds`: a file outside the repository is not read, provided the root was
  resolved. The run `catalog_files_doc` shows that the condition is needed.
* `FaultsAreReportedHolds`: every entry with a fault is reported, whatever the other entries are
  and whichever calls fail but the one for the root; when none fails, no other entry is.
* `AcceptedRepositoryIsClosedHolds`: when neither validation finds anything, every reference in
  every file names the dialect or exactly one entry, whose file is inside and bears that name.

The last two have the hypothesis `CollectIsExact`: `CollectRefs` finds in each file what `Refs`
defines. `collect_refs` is recursive over the JSON value, so this is induction over data and stays
with TLC (the verdicts on files in `catalog` depend on it; `collect_refs_NoArrays` is the slip that
shows it). The first two do not need it.

`TestsInOrder` says how far the validation of the current entry has come: which tests it has
passed, what the canonical paths are if the root was resolved for it, that nothing is reported of
it or of later entries, and which calls can have failed. With it, `Verdicts` is inductive: an
entry that is done with is sound or reported, and if nothing failed not both. A step either goes
on to the next test and reports nothing (`EntryGoesOn`), or is done with the entry
(`EntryOver`), and then `SoundMeaning` (the tests together say that the entry is as it should be)
gives the verdict. Uniqueness of the entry a reference names comes from the duplicate check of
`validate_catalog` (`DocumentsAreUnique`), and `Find`, which takes the first member of a name, finds
the only one (`FindMeaning`).

`JsonReader_proofs`, for texts of any length and any nesting (`TextsAssumption`: a text is a
sequence of tokens):

* `ReaderInvariantHolds`: `Spec => []ReaderInvariant`. The reader stays inside the text, no
  object takes a member twice, and there is one call for every bracket that is open.
* `NothingIsLostHolds`: `SpecDocument => []NothingIsLost`. The tokens behind the reader are those of
  the values it holds, and a document that was written is read again as the same document, in
  order at every level, and would be written again as the same text.

That no member is read twice needs `KeysAreHeld`: every object around the innermost call, and
the innermost one when a value is next, holds the name of the member being read, which was
compared when it was read. Returning a value (`Returned`) uses that name up, and nothing in
between can have added a member. What has been read of a container is not limited to any set,
so the lemmas about sequences are stated for `IsSeq`. The depth is the sum of the tokens'
weights up to the position (`DepthStep`), one lemma for steps over one token and one for two.

For the second theorem the invariant `DocumentInv` adds what the calls hold: values nested less deep
than the position (`FramesHoldValues`), whose texts, in order, with the commas and names that have
been read, are the text up to the position (`TextIsRead`); and what was saved is the value whose
text is being read (`SavedIsText`). Each action appends to the text of the stack what it takes from
the text, one lemma per action; a container that is closed is a value one level deeper than
its items (`ClosedReads`). The rest is about the writer. That its recursive functions exist, and
that what holds of a value when it holds of its items holds of all, is induction over the depth
(`ValueInduction`, `ValueRecursionHasSolution`); the depth may be taken larger without a change
(`WrittenAgree`, `SortedAgree`). A text has one value (`WrittenIsInjective`): it is taken apart from
its end, where the last token tells the kind and every value's text splits off in one way
(`WrittenReadsBack`, `ListsHaveOneText`). `std::sort` is an order that exists (`OrderExists`) and
changes nothing that is in order (`ByKeyOfOrdered`), so sorting twice is sorting once (`SortedTwice`)
and a sorted value is the same up to order (`SortedIsSame`). So the value that is read is the
sorted one that was written (`WrittenTextTellsValue`).

And for the routines of `JsonText`, whatever bytes and code units are tried and however long the
texts are (`CharactersAssumption`: bytes are bytes, and code units have sixteen bits):

* `StringsAreExactHolds`: `CharactersSpec => []StringsAreExact`. What is written of a string is read
  back, to the last byte; an escaped list of up to two code units is refused if it is ill-formed
  UTF-16, and stored as the UTF-8 of its code points otherwise.
* `NumbersFollowTheGrammarHolds`: `CharactersSpec => []NumbersFollowTheGrammar`. A number token is
  taken exactly when RFC 8259 has it, and then the longest one.

The loops are recursive functions on the positions of a text. That a recursive function satisfies its
equation is `RecursionHasSolution`, for any recursion with a measure that gets smaller: the values
of the pieces ahead (`StringRecursion`, `DigitsRecursion`) or of the bytes before
(`WriteRecursion`). Reading back is an induction from the closing quote to the front: in front of
what is read already stands the escape of one byte, which is read as that byte (`EscapedByteIsRead`).
The grammar cuts a text into parts; `NumberAt` says the same by positions (`NumberByPositions`),
so that it can be compared with the marks the reader sets (`Scan`): they are behind every prefix that is a number
(`NumberEndsBefore`), and where they are accepted they make one (`TakenIsNumber`).

`DevHarness_proofs`, for any terminals and scopes, any number of edits and commands, whatever
is installed (`HarnessAssumption`: the bounds are natural numbers):

* `ScopeInvariantHolds`: as long as one command runs at a time (`~Overlap`), a success is one
  test of the selected scope, run by a binary built from sources no older than the command.
* `ReportedCountHolds`: and then the number reported is the number that ran. The run
  `dev_harness_shared` shows that the assumption cannot be dropped.
* `CompilesInItsEnvironmentHolds`: the compiler of a directory is never driven without its
  environment, even when commands overlap.

The invariant: a directory has a compiler before it has tests or a binary, and keeps it
(`ConfiguredFirst`); a command about to build has set up what the cache asks for, by its
second `EnsureToolchain` (`EnvironmentIsSetUp`); what it has built is not older than itself
(`BinaryIsFresh`); what it has counted is still registered when it runs, if no other command
is under way (`CountedIsRegistered`), so that one test of that binary has run when it ends
(`RanOneFreshTest`). Only these last two parts depend on `~Overlap`.

* `SavedIsReadableHolds` (`RemoteSpec => []SavedIsReadable`): what the setup wizard saves every
  reader accepts, for any number of setups and edits, interrupted anywhere.

Here the invariant is `AnswersAreValid`: the fields answered are the fields asked for so far, and
each answer has been taken by its prompt (`Taken`); with all six, `ValidIsReadable` goes through the
two sets of rules field by field and finds that what the prompts take the reader accepts.

**Checked only by TLC.** Termination and the liveness half of the contracts: liveness under
fairness is out of the prover's reach. The refinement of `JsonContract`, whose grammar is written
with recursive operators, and the recursion of `collect_refs`.

## 6. Plan

1. *Done*: every component of the inventory is modelled; the four contracts; the proofs of
   the planner, the catalog, its loader and its files, the version parser, rational time and its wire form, the score validator, the
   order of revisions, their metadata and identities, the JSON reader, its stack, strings and numbers, and the canonical writer,
   the harness and the remote setup.
2. What a proof could still add: the safety half of `JsonContract`, with its grammar over values of
   a given depth, as the writer's functions are.
