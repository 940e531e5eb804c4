SPECIFICATION FairSpec
CONSTANT MaxBlocks = 2
CHECK_DEADLOCK FALSE
PROPERTY WritesData
