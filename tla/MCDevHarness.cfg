SPECIFICATION SpecAll
CONSTANTS
  t1 = t1
  t2 = t2
  Terminals = {t1, t2}
  Overlap = FALSE
  HasBuildTools = TRUE
  HasOther = TRUE
  MaxEdits = 2
  MaxCommands = 2
  MaxSetups = 2
INVARIANTS
  ScopeInvariant
  SavedIsReadable
PROPERTIES
  CompilesInItsEnvironment
  CommandsEnd
CHECK_DEADLOCK FALSE
