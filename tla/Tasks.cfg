SPECIFICATION MCSpec
CONSTANTS
  p = p
  q = q
  c = c
  d = d
  e = e
  r = r
  g = g
  t1 = t1
  t2 = t2
  t3 = t3
  desc = desc
  script = script
  Instances = {"daemon", "pool", "filters", "lossy", "electrum", "rpc", "restarted"}
  Kind <- MCKind
  Backfill = TRUE
  RpcRequests = {1}
  Id <- MCId
  FaultBound = 1
  Inputs <- MCInputs
  Size <- MCSize
  Weight <- MCSize
  Mined <- MCMined
  Malformed = {g}
  max_mempool_size = 5
  max_block_weight = 3
  MaxLives = 2
  INDEX_INTERVAL = 2
  Batch = 2
  filter_start_height = 1
  MaxHeight = 5
  LossBound = 2
  CrashBound = 2
  ReorgBound = 1
INVARIANTS PoolConsistent TemplateOrdered  IterSkipsNothing  NothingLost 
PROPERTIES SavedGrows 
CHECK_DEADLOCK FALSE
