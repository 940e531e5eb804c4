SPECIFICATION FairSpec
CONSTANT Count = 3
CHECK_DEADLOCK FALSE
INVARIANTS
  TypeOK
  OneResult
  NoneLeft
  DeadlineKeepsUp
PROPERTIES
  KeepsWholePromise
