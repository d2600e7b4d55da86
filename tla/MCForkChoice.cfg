CONSTANTS
  Peer = {p, q}
  Block = {"g", "own", "first", "second"}
  Genesis = "g"
  Parent <- MCParent
  Delta <- EqualDelta
  OwnBlock <- MCOwnBlock
  MinerBalance <- MCMinerBalance
  Stake <- MCStake
  OwnStake = 1
  None = None
  BlockMineDelay = 2
  BlockWaitDelay = 1
  BlockSafeDelay = 0
  NodesTimeShift = 0
  SyncTimer = 1
  InsertLength = 1
  PollMin = 1
  PollStakeMin = 1
  PollMany = 1
  FreezeBefore = 9
  MaxTime = 4
SYMMETRY Peers
SPECIFICATION Spec
INVARIANT TypeOK
PROPERTIES EqualSwitchNeedsRicher UnvotedSwitchIsShallow
