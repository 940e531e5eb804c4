SPECIFICATION Spec
CONSTANTS
  FallsShort <- MCFallsShort
  NumSlots = 10
  Writes <- MCWrites
  Targets <- MCTargets
  Reads <- MCReads
  Indices = {0}
  Groups = {0, 9, 10}
  Flags <- MCFlags
INVARIANTS
  TypeOK
  NoOverrun
  SuccessMeansDone
  CleanRepliesAreUnderstood
  ReportsTheRobot
  LoadedIsSaved
PROPERTY KeepsPromise
