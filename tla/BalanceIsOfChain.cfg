CONSTANTS
  t1 = t1
  t2 = t2
  t3 = t3
  d = d
  a = a
  Txs <- MCTxs
  Chain <- MCChain
  Paths <- MCPaths
  Wildcard = {d}
  DERIVATION_COUNT = 2
  GAP_LIMIT = 1
  Clients = {1}
  Scripts = {a}
  Broadcast = {t2}
  ConfigDesc <- MCDesc
  Loadable = {}
  Sought = {}
  Intervals = {}
  HasFilters = TRUE
  RequestBound = 3
  FaultBound = 0
  CrashBound = 0
SPECIFICATION Spec
INVARIANT BalanceIsOfChain
