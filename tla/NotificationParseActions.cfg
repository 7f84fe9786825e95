SPECIFICATION Spec
CONSTANTS
  Texts <- MCTwoTexts
  NoHint = NoHint
  ReplacesIds = {10}
  Timeouts = {60}
  Urgencies = {}
  MaxActions = 4
  G_ASSERT = TRUE
INVARIANT OnlyKeysAreActions
CHECK_DEADLOCK FALSE
