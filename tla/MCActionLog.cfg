CONSTANTS
  Tx = {"x"}
  BlockSize = 2
  MaxCounts <- MCMaxCounts
  Maintenance = TRUE
  MaxLength = 7
SPECIFICATION FairSpec
INVARIANT ReaderHoldsPrefix
PROPERTIES ReaderCatchesUp ImplementsStack
