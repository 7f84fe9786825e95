SPECIFICATION FairSpec
CONSTANTS
  ReplacesIds = {0, 1, 2}
  OtherCalls = {"GetCapabilities", "GetServerInformation", "CloseNotification", "InvalidNotify"}
  MaxCalls = 4
  IdSpace = 4
INVARIANTS
  TypeOK
  ReplaceFinds
  RowsMatch
  ShownWhileListed
  EmptyWindowIsExplained
PROPERTIES
  ImplementsService
  AnsweredOnce
  NotifyIsAnswered
  WindowHides
\* The clients may stop calling.
CHECK_DEADLOCK FALSE
