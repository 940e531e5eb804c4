SPECIFICATION FairSpec
CONSTANTS
  Sessions = {c1, c2}
  NoSession = NoSession
  IdSpace = 2
PROPERTIES
  EverySessionEnds
  KeepsWholePromise
CHECK_DEADLOCK FALSE
