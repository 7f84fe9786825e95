\* Debug build: g_assert evaluates its operand.
SPECIFICATION Spec
CONSTANTS
  Texts <- MCTexts
  NoHint = NoHint
  ReplacesIds = {10}
  Timeouts = {60}
  Urgencies = {2}
  MaxActions = 4
  G_ASSERT = TRUE
INVARIANTS
  TypeOK
  ViewsAreStable
  FieldsAreRead
  KeysFindTheirLabels
\* from_variant returns.
CHECK_DEADLOCK FALSE
