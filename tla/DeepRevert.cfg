CONSTANTS
  Tx <- MCTx
  Complete <- MCComplete
  Parts <- MCParts
  Creation <- MCCreation
  Expiry <- FullExpiry
  BlockMineDelay = 2
  NodesTimeShift = 1
  LifetimeBlocks = 3
  RecentBlocks = 3
  InsertLength = 2
  MaxRewind = 2
  MaxSync = 3
  MaxTime = 10
  MaxBlocks = 5
SPECIFICATION Spec
INVARIANT NoDoubleUse
