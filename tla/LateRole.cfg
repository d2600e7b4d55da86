CONSTANTS
  Address <- MCAddress
  Kind <- MCKind
  Tx <- MCTx
  Action <- MCAction
  Signers <- MCSigners
  Creation <- MCCreation
  Settings <- OnlyLate
  FirstBalance <- MCFirstBalance
  Rank <- MCRank
  Miner = {"m", "own"}
  Threshold <- MCThreshold
  Emission = 11
  Fresh <- MCFresh
  BlockMax = 3
  BlockMineDelay = 2
  MaxSync = 1
  MaxBlocks = 2
SPECIFICATION Spec
INVARIANT MiningGoesOn
CHECK_DEADLOCK FALSE
