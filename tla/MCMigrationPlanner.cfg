SPECIFICATION Spec
CONSTANTS
  MaxComponent = 4
  SchemaId <- MCSchemaId
  Versions <- MCVersions
  IdTextLess <- MCIdTextLess
  DocTextLess <- MCDocTextLess
  Catalogs <- MCCatalogs
INVARIANTS
  IInv
  RequiresMigrationIsPlannable
  PlanIsFirstInRuleOrder
PROPERTIES
  EveryQuestionIsAnswered
  ImplementsContract
CHECK_DEADLOCK FALSE
