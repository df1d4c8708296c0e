SPECIFICATION SpecAll
CONSTANTS
  MaxComponent = 10
  SchemaId <- MCSchemaId
  Versions <- MCVersions
  IdTextLess <- MCIdTextLess
  DocTextLess <- MCDocTextLess
  Entries <- MCEntries
  Rules <- MCRules
  MaxEntries = 3
  MaxRules = 2
  Documents <- AllDocuments
  MaxLen = 7
  Alphabet <- MCAlphabet
  Catalogs <- MCCatalogs
  Targets <- MCTargets
  Root <- MCRoot
  CollectRefs <- collect_refs
  FailingCalls = {"root", "target", "exists", "open"}
INVARIANTS
  BuildIsDeterministic
  RuleEndpointsResolve
  VersionsAreClassified
  DeclaredKindIsAnswered
  LoaderIsFaithful
  EveryFaultIsReported
  VersionTextsAreExact
  FaultsAreReported
  AcceptedRepositoryIsClosed
  LinksOutsideAreNotRead
PROPERTIES
  RebuildKeepsAnswers
  Terminates
CHECK_DEADLOCK FALSE
