CONSTANTS
  Peer = {p, q}
  Block = {"g", "first", "better"}
  Genesis = "g"
  Parent <- MCParent
  Delta <- PromisedDelta
  OwnBlock <- NoMiner
  MinerBalance <- MCMinerBalance
  Stake <- NoStake
  OwnStake = 1
  None = None
  BlockMineDelay = 3
  BlockWaitDelay = 0
  BlockSafeDelay = 1
  NodesTimeShift = 1
  SyncTimer = 1
  InsertLength = 2
  PollMin = 1
  PollStakeMin = 1
  PollMany = 1
  FreezeBefore = 9
  MaxTime = 4
SPECIFICATION FairSpec
PROPERTY CatchesUp
