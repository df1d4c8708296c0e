SPECIFICATION MCSpec
CONSTANTS
  EntityId <- MCEntityId
  Documents <- MCDocuments
INVARIANT
  EveryTextIsChecked
CHECK_DEADLOCK FALSE
