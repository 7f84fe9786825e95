SPECIFICATION Spec
CONSTANTS
  Tables <- MCTables
  Arguments = {0}
  Configs <- MCConfigs
  Styles = {s1, s2}
  NotInteger = NotInteger
  NoEntry = NoEntry
  NoTable = NoTable
  NotRead = NotRead
  Unset = Unset
  MaxEdits = 0
  Clients = {1, 2, 3}
  G_ASSERT = TRUE
INVARIANT
  ActionsFindAWindow
\* The program ends, and its users may stop.
CHECK_DEADLOCK FALSE
