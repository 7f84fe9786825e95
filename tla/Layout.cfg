SPECIFICATION Spec
CONSTANTS
  Tables <- MCTables
  Arguments = {NotInteger, 257}
  NotInteger = NotInteger
  NoEntry = NoEntry
  Unset = Unset
INVARIANTS
  TypeOK
  BoxesMatchEntries
  LayoutIsConfigured
  OrderIsExplained
  FunctionsAreLive
  OrientedAsWindow
