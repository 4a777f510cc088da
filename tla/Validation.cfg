SPECIFICATION MCSpec
CONSTANTS
  g = g a1 = a1 a2 = a2 a3 = a3 a4 = a4 b2 = b2 b3 = b3 b4 = b4 c2 = c2 c3 = c3 c4 = c4
  NoBlock = NoBlock
  Blocks <- MCBlocks
  Genesis = g
  Parent <- Two
  Height <- MCHeight
  Path <- MCPath
  Work <- EqualWork
  Configs <- Sizes
  HashFns <- Colliding
  Invalid = {b3}
  Steps <- Moves
  DIFFCHANGE_INTERVAL = 2
  pow_target_spacing = 2
  max_attainable_target = 8
  MEDIAN_TIME_PAST_BLOCK_COUNT = 3
  BIP94_TOLERANCE = 1
  WORD = 4
  WORDS = 3
  Networks <- AllNetworks
  MaxLen = 5
  s1 = s1
  s2 = s2
  o1 = o1
  o2 = o2
  o3 = o3
  o4 = o4
  o5 = o5
  x = x
  y = y
  NoPeer = NoPeer
  Empty_ = Empty_
  Instances = {"flat", "hints", "faulty", "failing", "duplicate", "ending", "spending", "locking", "headers", "wide", "rich", "lying"}
INVARIANTS StoreSound RulesKept SwiftSyncSound BlocksSound HeadersSound 
PROPERTIES SwiftSyncEnds
CHECK_DEADLOCK FALSE
