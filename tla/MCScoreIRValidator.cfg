SPECIFICATION MCSpec
CONSTANTS
  EntityId <- MCEntityId
  Documents <- MCDocuments
INVARIANTS
  ValidatorInvariant
  EveryDanglingReferenceIsReported
  CanonicalFormIsLossless
PROPERTIES
  ImplementsContract
CHECK_DEADLOCK FALSE
