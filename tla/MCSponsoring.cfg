CONSTANTS
  Sponsor = {"a", "b"}
  Unit = {"u"}
  Tx = {"x", "y", "z", "cancel"}
  Action <- ActionOf
  Creation <- CreationOf
  FirstBalance <- MCFirstBalance
  BlockMineDelay = 2
  MaxSync = 1
  MaxBlocks = 3
SPECIFICATION Spec
INVARIANTS TypeOK HeadCanBeTakenOff StoresAreReplay ServedUpToNow OrderedCoinsComeBack
CHECK_DEADLOCK FALSE
