SPECIFICATION SpecAll
CONSTANTS
  t1 = t1
  t2 = t2
  Terminals = {t1, t2}
  Overlap = TRUE
  HasBuildTools = FALSE
  HasOther = TRUE
  MaxEdits = 1
  MaxCommands = 1
  MaxSetups = 1
INVARIANTS
  ReportedCountIsTrue
CHECK_DEADLOCK FALSE
