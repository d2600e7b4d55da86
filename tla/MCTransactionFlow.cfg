CONSTANTS
  Tx <- MCTx
  Complete <- MCComplete
  Parts <- MCParts
  Creation <- MCCreation
  Expiry <- MixedExpiry
  BlockMineDelay = 2
  NodesTimeShift = 1
  LifetimeBlocks = 3
  RecentBlocks = 3
  InsertLength = 2
  MaxRewind = 1
  MaxSync = 3
  MaxTime = 12
  MaxBlocks = 6
SPECIFICATION Spec
INVARIANTS TypeOK NoDoubleUse PoolInCache CacheProtectsChain CanAlwaysRestart
PROPERTY CleanedAreExpired
