SPECIFICATION FairSpec
CONSTANTS
  MaxBlocks = 3
  MaxStored = 4
CHECK_DEADLOCK FALSE
INVARIANTS
  TypeOK
  EndsOnce
  ReadIsTheFile
  SuccessMeansStored
PROPERTY TransferEnds
