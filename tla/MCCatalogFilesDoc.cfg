SPECIFICATION FilesSpec
CONSTANTS
  MaxComponent = 10
  SchemaId <- MCSchemaId
  Versions <- MCVersions
  IdTextLess <- MCIdTextLess
  DocTextLess <- MCDocTextLess
  Catalogs <- MCCatalogs
  Targets <- MCTargets
  Root <- MCRoot
  CollectRefs <- collect_refs
  FailingCalls = {"root"}
INVARIANT
  ReadsStayInsideRoot
CHECK_DEADLOCK FALSE
