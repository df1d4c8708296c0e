SPECIFICATION SpecAll
CONSTANTS
  MaxComponent = 10
  SchemaId <- MCSchemaId
  Versions <- MCVersions
  IdTextLess <- MCIdTextLess
  DocTextLess <- MCDocTextLess
  Entries <- MCEntries
  Rules <- MCRules
  MaxEntries = 3
  MaxRules = 2
  Documents <- AllDocuments
  MaxLen = 7
  Alphabet <- MCAlphabet
  Catalogs <- MCCatalogs
  Targets <- MCTargets
  Root <- MCRoot
  CollectRefs <- collect_refs
  FailingCalls = {"root", "target", "exists", "open"}
INVARIANT
  CatalogAbsentOnlyIfRootUnusable
CHECK_DEADLOCK FALSE
