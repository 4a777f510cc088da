CONSTANTS
  g = g a1 = a1 a2 = a2 a3 = a3 a4 = a4 b2 = b2 b3 = b3 b4 = b4 c2 = c2 c3 = c3 c4 = c4
  NoBlock = NoBlock NoRoots = NoRoots BadRoots = BadRoots
  Blocks <- MCBlocks
  Genesis = g
  Parent <- Fan
  Height <- MCHeight
  Path <- MCPath
  Work <- EqualWork
  Invalid = {}
  NoSpend = {}
  AssumeUtreexo = NoBlock
  DIFFCHANGE_INTERVAL = 2
  MAX_REORG_DEPTH = 2
  FLUSH_INTERVAL = 3
  MaxRestarts = 0
  TornWrites = FALSE
SPECIFICATION Spec
INVARIANT RootsOfHeight
CHECK_DEADLOCK FALSE
