SPECIFICATION MCSpec
CONSTANTS
  b1 = b1
  b2 = b2
  c1 = c1
  c2 = c2
  x = x
  y = y
  NoPeer = NoPeer
  Instances = {"leaving", "proxied", "reorg", "chores", "follow", "agree", "disagree", "select"}
  Kinds = {"version", "verack", "headers"}
  Requests = {"GetBlock", "Ping"}
  allow_v1_fallback = FALSE
  UseProxy = FALSE
  RandomDisconnect = TRUE
  PING_TIMEOUT = 1
  SEND_PING_TIMEOUT = 2
  HANDSHAKE_TIMEOUT = 1
  REQUEST_POLL_INTERVAL = 1
  CONNECT_TIMEOUT = 2
  INV_MESSAGE_INTERVAL = 2
  ADDRV2_MESSAGE_INTERVAL = 2
  MAX_MSGS_PER_SEC = 2
  MaxTime = 5
  MaxMessages = 3
  MaxRequests = 2
INVARIANTS  SilentPeerLeaves
PROPERTIES   AgreedChainIsBest ContextsProgress
CHECK_DEADLOCK FALSE
