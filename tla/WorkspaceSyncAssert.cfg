\* Debug build: a failed g_assert ends the process.
SPECIFICATION Spec
CONSTANTS
  Ids <- MCTwoNormal
  OtherLines = {}
  MaxEvents = 2
  MaxFailures = 0
  G_ASSERT = TRUE
INVARIANT NewItemIsNew
CHECK_DEADLOCK FALSE
