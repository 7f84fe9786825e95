\* Release build: g_assert does not evaluate its operand.
SPECIFICATION Spec
CONSTANTS
  Texts <- MCTwoTexts
  NoHint = NoHint
  ReplacesIds = {10}
  Timeouts = {60}
  Urgencies = {}
  MaxActions = 0
  G_ASSERT = FALSE
INVARIANT ReadsAreDefined
CHECK_DEADLOCK FALSE
