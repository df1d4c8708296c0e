SPECIFICATION SpecAll
CONSTANTS
  IdLength = 2
  ByteLimit = 1
  Revisions <- MCRevisions
  MaxRevisions = 3
  MaxMembers = 4
  Documents <- AllDocuments
  MaxEdits = 2
  Characters <- MCCharacters
  ByteValues <- MCByteValues
INVARIANTS
  ComparisonIsATotalOrder
  ScannerInvariant
  IdentitiesHaveOneText
PROPERTIES
  ImplementsContract
  EventuallySettled
CHECK_DEADLOCK FALSE
