CONSTANTS
  g = g a1 = a1 a2 = a2 a3 = a3 a4 = a4 b2 = b2 b3 = b3 b4 = b4 c2 = c2 c3 = c3 c4 = c4
  NoBlock = NoBlock NoRoots = NoRoots BadRoots = BadRoots
  Blocks <- MCBlocks
  Genesis = g
  Parent <- Line
  Height <- MCHeight
  Path <- MCPath
  Work <- EqualWork
  Invalid = {}
  NoSpend = {}
  AssumeUtreexo = NoBlock
  DIFFCHANGE_INTERVAL = 2
  MAX_REORG_DEPTH = 2
  FLUSH_INTERVAL = 3
  MaxRestarts = 1
  TornWrites = TRUE
SPECIFICATION Spec
INVARIANT AlwaysStarts
CHECK_DEADLOCK FALSE
