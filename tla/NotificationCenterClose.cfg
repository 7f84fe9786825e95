SPECIFICATION FairSpec
CONSTANTS
  ReplacesIds = {0, 1}
  OtherCalls = {"CloseNotification"}
  MaxCalls = 2
  IdSpace = 4
PROPERTY EveryCallIsAnswered
\* The clients may stop calling.
CHECK_DEADLOCK FALSE
