SPECIFICATION FairSpec
CONSTANTS
  Tables <- MCTables
  Arguments = {0}
  Configs <- MCConfigs
  Styles = {s1, s2}
  NotInteger = NotInteger
  NoEntry = NoEntry
  NoTable = NoTable
  NotRead = NotRead
  Unset = Unset
  MaxEdits = 2
  Clients = {1, 2}
  G_ASSERT = FALSE
INVARIANTS
  ApplicationTypeOK
  ChangesArePending
  OpenWindowIsSound
PROPERTY
  FilesAreFollowed
\* The program ends, and its users may stop.
CHECK_DEADLOCK FALSE
