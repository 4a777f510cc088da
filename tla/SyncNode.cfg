SPECIFICATION MCSpec
CONSTANTS
  b1 = b1
  b2 = b2
  x = x
  y = y
  z = z
  i1 = i1
  i2 = i2
  NoPeer = NoPeer
  Instances = {"book", "crowded", "sync", "asked", "managed", "chores", "fixed"}
  Addr = {x, y}
  Ids = {i1, i2}
  Conns = {1}
  Kinds = {"full", "feeler"}
  Dialled = {"UTREEXO"}
  Sv <- MCSv
  Claimed <- MCClaimed
  Reachable = {x, y}
  max_size = 2
  MIN_ADDRESSES = 1
  MIN_ADDRESSES_UTREEXO = 1
  Seeds = {x}
  Hardcoded = {}
  BAN_TIME = 2
  RETRY_TIME = 0
  ASSUME_STALE = 0
  Start = 5
  MaxTime = 6
INVARIANTS BookConsistent RequestedOrPending IndexesAgree
   
