CONSTANTS
  Address <- MCAddress
  Kind <- MCKind
  Tx <- MCTx
  Action <- MCAction
  Signers <- MCSigners
  Creation <- MCCreation
  Settings <- MCSettings
  FirstBalance <- MCFirstBalance
  Rank <- MCRank
  Miner = {"m", "own"}
  Threshold <- MCThreshold
  Emission = 11
  Fresh <- MCFresh
  BlockMax = 3
  BlockMineDelay = 2
  MaxSync = 1
  MaxBlocks = 2
SPECIFICATION Spec
INVARIANTS TypeOK StoresAreReplay HeadCanBeTakenOff EmissionIsPaid SomebodyDecides
PROPERTY MinedIsAcceptable
CHECK_DEADLOCK FALSE
