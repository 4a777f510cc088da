CONSTANTS
  g = g a1 = a1 a2 = a2 a3 = a3 a4 = a4 b2 = b2 b3 = b3 b4 = b4 c2 = c2 c3 = c3 c4 = c4
  NoBlock = NoBlock NoRoots = {NoBlock} BadRoots = BadRoots
  Blocks <- MCBlocks
  Genesis = g
  Parent <- Two
  Height <- MCHeight
  Path <- MCPath
  Work <- HeavyWork
  Invalid = {b4}
  NoSpend = {}
  AssumeUtreexo = NoBlock
  SwiftStop = 0
  Backfill = FALSE
  Announcements = FALSE
  DIFFCHANGE_INTERVAL = 2
  MAX_REORG_DEPTH = 2
  FLUSH_INTERVAL = 3
  MaxRestarts = 0
  DENSE = 1
  Instances = {"queried", "forked", "above", "filled", "assumed", "reorged", "torn"}
SPECIFICATION MCSpec
INVARIANTS ChainSound RecoverySound QueriesSound
PROPERTIES Refines
CHECK_DEADLOCK FALSE
