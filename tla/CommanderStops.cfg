CONSTANTS
  Window = 2
  Modulus = 256
  Stale = 5
  LeastUse = 3
  Worlds <- RightsWorld
SPECIFICATION Spec
INVARIANTS LogIsAlwaysTaken
