CONSTANTS
  Address <- MCAddress
  Own = "own"
  Genesis <- MCGenesis
  Uri = {"u"}
  Tx <- MCTx
  Complete <- MCComplete
  Parts <- MCParts
  Creation <- MCCreation
  Expiry <- MCExpiry
  Action <- MCAction
  Fee <- MCFee
  Emission = 1
  Threshold = 2
  BlockMax = 2
  FreezeBefore = 4
  BlockMineDelay = 2
  NodesTimeShift = 1
  LifetimeBlocks = 3
  RecentBlocks = 1
  InsertLength = 2
  MaxRewind = 2
  MaxSync = 2
  MaxTime = 8
  MaxBlocks = 4
SPECIFICATION Spec
INVARIANTS TypeOK StateIsReplay CoinsConserved ChainIsAcceptable LogIsChainThenPool
PROPERTY ImplementsFlow
