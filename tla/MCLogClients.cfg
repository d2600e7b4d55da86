CONSTANTS
  Window = 2
  Modulus = 256
  Stale = 3
  LeastUse = 3
  Worlds <- MCWorlds
SPECIFICATION Spec
INVARIANTS LogIsAlwaysTaken TablesAreReplay AnswersAreExact UsageIsReports HoldersAreKnown RemovalsAreDue StoringIsDue
