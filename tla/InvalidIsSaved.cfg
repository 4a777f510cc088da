SPECIFICATION DaemonSpec
CONSTANTS
  Kind <- BadTx
  Backfill = TRUE
  RpcRequests = {1}
  Id <- Ids
  FaultBound = 0
  MaxLives = 1
INVARIANT InvalidIsSaved
CHECK_DEADLOCK FALSE
