CONSTANTS
  Clients = {c1, c2, c3}
  Unlocked = {}
  accel = accel
  config1 = config1
  config2 = config2
  Rows <- MCRows
  PrefetchRows <- MCPrefetchRows
  Keys <- MCKeys
  Key <- MCKey
  ZeroKey = "0x00"
  Free = Free
  NoRow = NoRow
  Failed = Failed
  Garbled = Garbled
  BiosRow = BiosRow
  TPC_PREFETCH_TIMEOUT = 2
SPECIFICATION FairSpec
INVARIANTS
  TypeOK
  RowAnswersRequest
  PrefetchBacked
  QuietWhenFree
PROPERTIES
  ServesRows
  ReadsSucceed
