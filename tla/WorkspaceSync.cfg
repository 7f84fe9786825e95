\* Release build: the process goes on where an assertion would end it.
SPECIFICATION FairSpec
CONSTANTS
  Ids <- MCIds
  OtherLines = {"openwindow", "workspace"}
  MaxEvents = 4
  MaxFailures = 1
  G_ASSERT = FALSE
INVARIANTS
  TypeOK
  CountIsExact
  DuplicatesAreBounded
  ButtonIsCurrent
  RowsAreItems
  HighlightIsOwned
  DecidedItemsAreRight
  FocusIsHighlighted
  SpecialIsHighlighted
PROPERTIES
  FocusIsFollowed
  ListConverges
\* The compositor may stay quiet for ever.
CHECK_DEADLOCK FALSE
