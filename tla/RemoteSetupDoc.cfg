SPECIFICATION RemoteSpec
CONSTANTS
  MaxSetups = 2
INVARIANTS
  IdentityIsOutside
CHECK_DEADLOCK FALSE
